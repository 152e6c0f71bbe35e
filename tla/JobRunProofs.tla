----------------------------- MODULE JobRunProofs -----------------------------
(***************************************************************************)
(* Theorems about the durable record of a run, for any set of runs, number *)
(* of attempts, sessions and faults.                                       *)
(*                                                                         *)
(* The inductive invariant RunInv adds to the types where a run is in      *)
(* Execute when its record ends with a given state (RecordFollowsExec),    *)
(* and that no sequence in a record passes the length of the timeline in   *)
(* memory (MemoryCovers): the terminal event, numbered by that length,     *)
(* therefore comes after all the events numbered by the database.          *)
(***************************************************************************)
EXTENDS JobRun, SequenceTheorems, TLAPS

(* The last recorded state, while the record exists, for each position of  *)
(* the executor.                                                           *)
RecordFollowsExec ==
  \A r \in Runs :
    /\ exec[r] \in {"idle", "admitted"} => log[r] = <<>> /\ r \notin removed
    /\ r \in removed => log[r] = <<>>
    /\ exec[r] \in {"idle", "admitted", "queued", "ready"} => tries[r] = 0
    /\ exec[r] = "backoff" => AttemptLeft(r)
    /\ log[r] # <<>> =>
         /\ exec[r] \in {"queued", "ready"} => Last(log[r]).state = "queued"
         /\ exec[r] = "running" => Last(log[r]).state = "started"
         /\ exec[r] = "backoff" => Last(log[r]).state = "retry_scheduled"
         /\ exec[r] \in InFlight => Last(log[r]).state # "terminal"

MemoryCovers ==
  \A r \in Runs : \A i \in DOMAIN log[r] : log[r][i].seq <= mem[r]

ProofFollowsExec ==
  \A r \in Runs :
    /\ proof[r] = "captured" => exec[r] \in {"admitted", "queued"}
    /\ proof[r] = "live" =>
         exec[r] \in {"ready", "running", "backoff", "returning"}
    /\ proof[r] # "none" => identity[r] = session

RunInv ==
  /\ RunTypeOK
  /\ RecordFollowsExec
  /\ MemoryCovers
  /\ SequencesGrow
  /\ ProofFollowsExec

-----------------------------------------------------------------------------
(* An entry appended to a non-empty record.                                *)
LEMMA AppendedEntry ==
  ASSUME NEW s \in Seq(Entry), NEW e \in Entry
  PROVE  /\ Append(s, e) \in Seq(Entry)
         /\ Append(s, e) # <<>>
         /\ Last(Append(s, e)) = e
         /\ DOMAIN Append(s, e) = 1 .. Len(s) + 1
         /\ \A i \in 1 .. Len(s) : Append(s, e)[i] = s[i]
         /\ Append(s, e)[Len(s) + 1] = e
BY DEF Last

(* The last entry of a record is one of its entries.                       *)
LEMMA LastEntry ==
  ASSUME NEW s \in Seq(Entry), s # <<>>
  PROVE  /\ Len(s) \in DOMAIN s
         /\ Last(s) \in Entry
         /\ Last(s) = s[Len(s)]
BY DEF Last

(* Any entry of a record.                                                  *)
LEMMA EntryOf ==
  ASSUME NEW s \in Seq(Entry), NEW i \in DOMAIN s
  PROVE  s[i] \in Entry /\ s[i].seq \in Nat /\ s[i].state \in States
<1>1. s[i] \in Entry
  OBVIOUS
<1> QED BY <1>1 DEF Entry

-----------------------------------------------------------------------------
(* The initial states satisfy the invariant.                               *)
LEMMA InitInv == RunInit => RunInv
BY JobRunAssumption
DEF RunInit, RunInv, RunTypeOK, RecordFollowsExec, MemoryCovers,
    SequencesGrow, ProofFollowsExec, PCs, Proofs, Entry, AttemptLeft

(* Appending to the record of one run an entry that carries a sequence     *)
(* between the largest of the record and the new length of the timeline.   *)
LEMMA RecordGrows ==
  ASSUME RunInv, NEW r \in Runs, NEW state \in States, NEW seq \in Nat,
         Records(r, state, seq),
         mem' = [mem EXCEPT ![r] = @ + 1],
         seq <= mem[r] + 1,
         \A i \in DOMAIN log[r] : log[r][i].seq < seq
  PROVE  /\ log' \in [Runs -> Seq(Entry)]
         /\ MemoryCovers'
         /\ SequencesGrow'
         /\ \A q \in Runs : q # r => log'[q] = log[q]
         /\ log'[r] # <<>>
         /\ Last(log'[r]).state = state
<1> DEFINE e == [state |-> state, seq |-> seq]
<1>1. /\ log \in [Runs -> Seq(Entry)] /\ mem \in [Runs -> Nat]
      /\ e \in Entry /\ log[r] \in Seq(Entry)
  BY DEF RunInv, RunTypeOK, Entry
<1>2. log'[r] = Append(log[r], e) /\ \A q \in Runs : q # r => log'[q] = log[q]
  BY <1>1 DEF Records
<1>3. /\ log'[r] \in Seq(Entry) /\ log'[r] # <<>> /\ Last(log'[r]) = e
      /\ DOMAIN log'[r] = 1 .. Len(log[r]) + 1
      /\ \A i \in 1 .. Len(log[r]) : log'[r][i] = log[r][i]
      /\ log'[r][Len(log[r]) + 1] = e
  <2> HIDE DEF e
  <2> QED BY <1>1, <1>2, AppendedEntry
<1>4. log' \in [Runs -> Seq(Entry)]
  BY <1>1, <1>2, <1>3 DEF Records
<1>5. DOMAIN log[r] = 1 .. Len(log[r]) /\ Len(log[r]) \in Nat
  BY <1>1
<1>6. \A i \in 1 .. Len(log[r]) : log[r][i].seq \in Nat /\ log[r][i].seq <= mem[r]
  BY <1>1, <1>5, EntryOf DEF RunInv, MemoryCovers
<1>7. \A i \in DOMAIN log'[r] : log'[r][i].seq <= mem'[r]
  <2> SUFFICES ASSUME NEW i \in DOMAIN log'[r] PROVE log'[r][i].seq <= mem'[r]
    OBVIOUS
  <2>1. CASE i = Len(log[r]) + 1
    BY <2>1, <1>1, <1>3
  <2>2. CASE i \in 1 .. Len(log[r])
    BY <2>2, <1>1, <1>3, <1>6
  <2> QED BY <2>1, <2>2, <1>3, <1>5
<1>8. MemoryCovers'
  BY <1>1, <1>2, <1>7 DEF RunInv, MemoryCovers
<1>9. \A i, j \in DOMAIN log'[r] : i < j => log'[r][i].seq < log'[r][j].seq
  <2> SUFFICES ASSUME NEW i \in DOMAIN log'[r], NEW j \in DOMAIN log'[r], i < j
               PROVE  log'[r][i].seq < log'[r][j].seq
    OBVIOUS
  <2>1. i \in 1 .. Len(log[r])
    BY <1>3, <1>5
  <2>2. CASE j = Len(log[r]) + 1
    BY <2>1, <2>2, <1>3, <1>5
  <2>3. CASE j \in 1 .. Len(log[r])
    BY <2>1, <2>3, <1>3, <1>5 DEF RunInv, SequencesGrow
  <2> QED BY <2>2, <2>3, <1>3, <1>5
<1>10. SequencesGrow'
  BY <1>2, <1>9 DEF RunInv, SequencesGrow
<1> QED BY <1>2, <1>3, <1>4, <1>8, <1>10

(* The sequence the database gives passes every sequence of the record and *)
(* does not pass the timeline in memory.                                   *)
LEMMA NextSequenceFits ==
  ASSUME RunInv, NEW r \in Runs, log[r] # <<>>
  PROVE  /\ NextSequence(r) \in Nat
         /\ NextSequence(r) <= mem[r] + 1
         /\ \A i \in DOMAIN log[r] : log[r][i].seq < NextSequence(r)
<1>1. log[r] \in Seq(Entry) /\ mem[r] \in Nat
  BY DEF RunInv, RunTypeOK
<1>2. /\ Len(log[r]) \in DOMAIN log[r] /\ Last(log[r]) = log[r][Len(log[r])]
      /\ Last(log[r]) \in Entry
  BY <1>1, LastEntry
<1>3. Last(log[r]).seq \in Nat /\ Last(log[r]).seq <= mem[r]
  BY <1>2 DEF RunInv, MemoryCovers, Entry
<1>4. NextSequence(r) = Last(log[r]).seq + 1
  BY DEF NextSequence
<1>5. ASSUME NEW i \in DOMAIN log[r]
      PROVE  log[r][i].seq <= Last(log[r]).seq
  <2>1. i \in 1 .. Len(log[r]) /\ Len(log[r]) \in Nat
    BY <1>1
  <2>2. CASE i = Len(log[r])
    BY <2>2, <1>2, <1>3
  <2>3. CASE i < Len(log[r])
    <3>1. log[r][i].seq < log[r][Len(log[r])].seq
      BY <2>3, <1>2 DEF RunInv, SequencesGrow
    <3>2. log[r][i] \in Entry
      BY <1>1, <2>1
    <3> QED BY <3>1, <3>2, <1>2, <1>3 DEF Entry
  <2> QED BY <2>1, <2>2, <2>3
<1>6. \A i \in DOMAIN log[r] : log[r][i].seq \in Nat
  BY <1>1, EntryOf
<1> QED BY <1>1, <1>3, <1>4, <1>5, <1>6

-----------------------------------------------------------------------------
(* Steps that leave the records alone keep the order of their sequences,   *)
(* and their cover as long as the timelines do not shrink.                 *)
LEMMA RecordsUntouched ==
  ASSUME RunInv, UNCHANGED log, mem' \in [Runs -> Nat],
         \A r \in Runs : mem[r] <= mem'[r]
  PROVE  MemoryCovers' /\ SequencesGrow'
<1>1. SequencesGrow'
  BY DEF RunInv, SequencesGrow
<1>2. MemoryCovers'
  <2> SUFFICES ASSUME NEW r \in Runs, NEW i \in DOMAIN log[r]
               PROVE  log[r][i].seq <= mem'[r]
    BY DEF MemoryCovers
  <2>1. log[r] \in Seq(Entry) /\ mem[r] \in Nat /\ mem'[r] \in Nat
    BY DEF RunInv, RunTypeOK
  <2>2. log[r][i].seq \in Nat
    BY <2>1, EntryOf
  <2>3. log[r][i].seq <= mem[r] /\ mem[r] <= mem'[r]
    BY DEF RunInv, MemoryCovers
  <2> QED BY <2>1, <2>2, <2>3
<1> QED BY <1>1, <1>2

(* Admission touches no record; a captured proof carries the session.      *)
LEMMA AdmitInv == ASSUME RunInv, NEW r \in Runs, Admit(r) PROVE RunInv'
<1> USE DEF Admit, Goto, InFlight, PCs
<1>1. RunTypeOK'
  BY DEF RunInv, RunTypeOK, Proofs
<1>2. MemoryCovers' /\ SequencesGrow'
  BY RecordsUntouched DEF RunInv, RunTypeOK
<1>3. RecordFollowsExec'
  BY DEF RunInv, RunTypeOK, RecordFollowsExec, AttemptLeft
<1>4. ProofFollowsExec'
  BY DEF RunInv, RunTypeOK, ProofFollowsExec
<1> QED BY <1>1, <1>2, <1>3, <1>4 DEF RunInv

(* A refused run has no record and keeps no proof.                         *)
LEMMA RefuseInv == ASSUME RunInv, NEW r \in Runs, Refuse(r) PROVE RunInv'
<1> USE DEF Refuse, Goto, InFlight, PCs
<1>1. RunTypeOK'
  BY DEF RunInv, RunTypeOK, Proofs
<1>2. MemoryCovers' /\ SequencesGrow'
  BY RecordsUntouched DEF RunInv, RunTypeOK
<1>3. RecordFollowsExec'
  BY DEF RunInv, RunTypeOK, RecordFollowsExec, AttemptLeft
<1>4. ProofFollowsExec'
  BY DEF RunInv, RunTypeOK, ProofFollowsExec
<1> QED BY <1>1, <1>2, <1>3, <1>4 DEF RunInv

(* The queued row is the first entry of the record, numbered 1.            *)
LEMMA QueueInv == ASSUME RunInv, NEW r \in Runs, Queue(r) PROVE RunInv'
<1> DEFINE first == [state |-> "queued", seq |-> 1]
<1>1. first \in Entry
  BY DEF Entry, States
<1>2. /\ log' = [log EXCEPT ![r] = <<first>>]
      /\ mem' = [mem EXCEPT ![r] = 1]
      /\ exec' = [exec EXCEPT ![r] = "queued"]
  BY DEF Queue, Goto
<1>3. /\ log \in [Runs -> Seq(Entry)] /\ mem \in [Runs -> Nat]
      /\ exec \in [Runs -> PCs]
  BY DEF RunInv, RunTypeOK
<1>4. first.state = "queued" /\ first.seq = 1
  OBVIOUS
<1> HIDE DEF first
<1>5. /\ <<first>> \in Seq(Entry) /\ <<first>> # <<>> /\ Last(<<first>>) = first
      /\ DOMAIN <<first>> = {1} /\ <<first>>[1] = first
  BY <1>1 DEF Last
<1>6. RunTypeOK'
  BY <1>1, <1>2, <1>5 DEF Queue, RunInv, RunTypeOK, PCs, InFlight
<1>7. MemoryCovers'
  BY <1>2, <1>3, <1>4, <1>5 DEF RunInv, MemoryCovers
<1>8. SequencesGrow'
  BY <1>2, <1>3, <1>5 DEF RunInv, SequencesGrow
<1>9. RecordFollowsExec'
  BY <1>2, <1>3, <1>4, <1>5
  DEF Queue, RunInv, RecordFollowsExec, InFlight, AttemptLeft
<1>10. ProofFollowsExec'
  BY <1>2, <1>3 DEF Queue, RunInv, ProofFollowsExec
<1> QED BY <1>6, <1>7, <1>8, <1>9, <1>10 DEF RunInv

(* Only a run that was queued gets a live proof.                           *)
LEMMA RegisterInv == ASSUME RunInv, NEW r \in Runs, Register(r) PROVE RunInv'
<1>1. /\ exec[r] = "queued"
      /\ \/ exec' = [exec EXCEPT ![r] = "ready"]
         \/ exec' = [exec EXCEPT ![r] = "returning"]
      /\ UNCHANGED <<tries, log, removed, identity, session>>
      /\ proof' = [proof EXCEPT ![r] = IF proof[r] = "captured" /\ accepting
                                        THEN "live" ELSE "none"]
  BY DEF Register, Goto
<1>2. exec \in [Runs -> PCs] /\ proof \in [Runs -> Proofs] /\ mem \in [Runs -> Nat]
  BY DEF RunInv, RunTypeOK
<1>3. mem' \in [Runs -> Nat] /\ \A q \in Runs : mem[q] <= mem'[q]
  <2>1. CASE mem' = [mem EXCEPT ![r] = @ + 1]
    BY <2>1, <1>2
  <2>2. CASE mem' = mem
    BY <2>2, <1>2
  <2> QED BY <2>1, <2>2 DEF Register
<1>4. exec' \in [Runs -> PCs]
  BY <1>1, <1>2 DEF PCs, InFlight
<1>5. proof' \in [Runs -> Proofs]
  BY <1>1, <1>2 DEF Proofs
<1>6. RunTypeOK'
  BY <1>3, <1>4, <1>5 DEF Register, RunInv, RunTypeOK
<1>7. MemoryCovers' /\ SequencesGrow'
  BY <1>1, <1>3, RecordsUntouched
<1>8. RecordFollowsExec'
  BY <1>1, <1>2 DEF RunInv, RecordFollowsExec, AttemptLeft, InFlight
<1>9. ProofFollowsExec'
  BY <1>1, <1>2 DEF RunInv, ProofFollowsExec, Proofs
<1> QED BY <1>6, <1>7, <1>8, <1>9 DEF RunInv

(* Leaving the attempts changes nothing but the position.                  *)
LEMMA ReturnInv == ASSUME RunInv, NEW r \in Runs, Return(r) PROVE RunInv'
<1> USE DEF Return, Goto, InFlight, PCs
<1>1. RunTypeOK'
  BY DEF RunInv, RunTypeOK
<1>2. MemoryCovers' /\ SequencesGrow'
  BY RecordsUntouched DEF RunInv, RunTypeOK
<1>3. RecordFollowsExec'
  BY DEF RunInv, RunTypeOK, RecordFollowsExec, AttemptLeft
<1>4. ProofFollowsExec'
  BY DEF RunInv, RunTypeOK, ProofFollowsExec
<1> QED BY <1>1, <1>2, <1>3, <1>4 DEF RunInv

(* Persisting an event keeps what RunInv says of the records, whether the  *)
(* transaction succeeds or fails.                                          *)
LEMMA PersistInv ==
  ASSUME RunInv, NEW r \in Runs, NEW state \in States, NEW seq \in Nat,
         Records(r, state, seq) \/ RecordFails(r),
         mem' = [mem EXCEPT ![r] = @ + 1],
         log[r] # <<>> =>
           seq <= mem[r] + 1 /\ \A i \in DOMAIN log[r] : log[r][i].seq < seq
  PROVE  /\ log' \in [Runs -> Seq(Entry)]
         /\ mem' \in [Runs -> Nat]
         /\ faults' \in Nat
         /\ removed' = removed
         /\ MemoryCovers'
         /\ SequencesGrow'
         /\ \A q \in Runs : q # r => log'[q] = log[q]
         /\ log[r] = <<>> => log' = log
         /\ log' # log => log'[r] # <<>> /\ Last(log'[r]).state = state
<1>1. mem \in [Runs -> Nat] /\ log \in [Runs -> Seq(Entry)] /\ faults \in Nat
  BY DEF RunInv, RunTypeOK
<1>2. mem' \in [Runs -> Nat] /\ \A q \in Runs : mem[q] <= mem'[q]
  BY <1>1
<1>3. CASE Records(r, state, seq)
  <2>1. log[r] # <<>> /\ UNCHANGED <<removed, faults>>
    BY <1>3 DEF Records
  <2>2. /\ log' \in [Runs -> Seq(Entry)] /\ MemoryCovers' /\ SequencesGrow'
        /\ \A q \in Runs : q # r => log'[q] = log[q]
        /\ log'[r] # <<>> /\ Last(log'[r]).state = state
    BY <1>3, <2>1, RecordGrows
  <2> QED BY <1>1, <1>2, <2>1, <2>2
<1>4. CASE RecordFails(r)
  <2>1. UNCHANGED <<log, removed>> /\ faults' \in Nat
    BY <1>1, <1>4 DEF RecordFails, Fault
  <2>2. MemoryCovers' /\ SequencesGrow'
    BY <1>2, <2>1, RecordsUntouched
  <2> QED BY <1>1, <1>2, <2>1, <2>2
<1> QED BY <1>3, <1>4

(* A started event follows a queued or a retry_scheduled one.              *)
LEMMA StartInv == ASSUME RunInv, NEW r \in Runs, Start(r) PROVE RunInv'
<1> DEFINE seq == NextSequence(r)
<1>1. /\ exec \in [Runs -> PCs] /\ tries \in [Runs -> 0 .. Attempts]
      /\ log \in [Runs -> Seq(Entry)]
  BY DEF RunInv, RunTypeOK
<1>2. /\ exec[r] \in {"ready", "backoff"}
      /\ mem' = [mem EXCEPT ![r] = @ + 1]
      /\ Records(r, "started", seq) \/ RecordFails(r)
      /\ UNCHANGED <<proof, identity, session, authority, accepting>>
  BY DEF Start
<1>3. /\ seq \in Nat
      /\ log[r] # <<>> =>
           seq <= mem[r] + 1 /\ \A i \in DOMAIN log[r] : log[r][i].seq < seq
  <2>1. CASE log[r] # <<>>
    BY <2>1, NextSequenceFits
  <2>2. CASE log[r] = <<>>
    BY <2>2 DEF NextSequence
  <2> QED BY <2>1, <2>2
<1> HIDE DEF seq
<1>4. /\ log' \in [Runs -> Seq(Entry)] /\ mem' \in [Runs -> Nat] /\ faults' \in Nat
      /\ removed' = removed /\ MemoryCovers' /\ SequencesGrow'
      /\ \A q \in Runs : q # r => log'[q] = log[q]
      /\ log[r] = <<>> => log' = log
      /\ log' # log => log'[r] # <<>> /\ Last(log'[r]).state = "started"
  BY <1>2, <1>3, PersistInv DEF States
<1>5. AttemptLeft(r)
  BY <1>1, <1>2, JobRunAssumption DEF RunInv, RecordFollowsExec, AttemptLeft
<1>6. CASE Records(r, "started", seq) /\ exec' = [exec EXCEPT ![r] = "running"]
             /\ tries' = [tries EXCEPT ![r] = @ + 1]
  <2>1. log[r] # <<>> /\ log' # log
    BY <1>6, <1>1 DEF Records
  <2>2. tries' \in [Runs -> 0 .. Attempts]
    BY <1>1, <1>5, <1>6, JobRunAssumption DEF AttemptLeft
  <2>3. RunTypeOK'
    BY <1>2, <1>4, <1>6, <2>2 DEF RunInv, RunTypeOK, PCs, InFlight
  <2>4. RecordFollowsExec'
    BY <1>1, <1>2, <1>4, <1>6, <2>1
    DEF RunInv, RecordFollowsExec, InFlight, AttemptLeft
  <2>5. ProofFollowsExec'
    BY <1>1, <1>2, <1>6 DEF RunInv, ProofFollowsExec
  <2> QED BY <1>4, <2>3, <2>4, <2>5 DEF RunInv
<1>7. CASE RecordFails(r) /\ exec' = [exec EXCEPT ![r] = "returning"]
             /\ UNCHANGED tries
  <2>1. log' = log
    BY <1>7 DEF RecordFails
  <2>2. RunTypeOK'
    BY <1>2, <1>4, <1>7 DEF RunInv, RunTypeOK, PCs, InFlight
  <2>3. RecordFollowsExec'
    BY <1>1, <1>2, <1>4, <1>7, <2>1
    DEF RunInv, RecordFollowsExec, InFlight, AttemptLeft
  <2>4. ProofFollowsExec'
    BY <1>1, <1>2, <1>7 DEF RunInv, ProofFollowsExec
  <2> QED BY <1>4, <2>2, <2>3, <2>4 DEF RunInv
<1> QED BY <1>6, <1>7 DEF Start, Goto, seq

(* A retry is scheduled after a started event, while attempts are left.    *)
LEMMA ScheduleRetryInv ==
  ASSUME RunInv, NEW r \in Runs, ScheduleRetry(r) PROVE RunInv'
<1> DEFINE seq == NextSequence(r)
<1>1. exec \in [Runs -> PCs] /\ log \in [Runs -> Seq(Entry)]
  BY DEF RunInv, RunTypeOK
<1>2. /\ exec[r] = "running" /\ AttemptLeft(r)
      /\ mem' = [mem EXCEPT ![r] = @ + 1]
      /\ Records(r, "retry_scheduled", seq) \/ RecordFails(r)
      /\ UNCHANGED <<tries, proof, identity, session, authority, accepting>>
  BY DEF ScheduleRetry
<1>3. /\ seq \in Nat
      /\ log[r] # <<>> =>
           seq <= mem[r] + 1 /\ \A i \in DOMAIN log[r] : log[r][i].seq < seq
  <2>1. CASE log[r] # <<>>
    BY <2>1, NextSequenceFits
  <2>2. CASE log[r] = <<>>
    BY <2>2 DEF NextSequence
  <2> QED BY <2>1, <2>2
<1> HIDE DEF seq
<1>4. /\ log' \in [Runs -> Seq(Entry)] /\ mem' \in [Runs -> Nat] /\ faults' \in Nat
      /\ removed' = removed /\ MemoryCovers' /\ SequencesGrow'
      /\ \A q \in Runs : q # r => log'[q] = log[q]
      /\ log[r] = <<>> => log' = log
      /\ log' # log => log'[r] # <<>> /\ Last(log'[r]).state = "retry_scheduled"
  BY <1>2, <1>3, PersistInv DEF States
<1>5. CASE Records(r, "retry_scheduled", seq) /\ exec' = [exec EXCEPT ![r] = "backoff"]
  <2>1. log[r] # <<>> /\ log' # log
    BY <1>5, <1>1 DEF Records
  <2>2. RunTypeOK'
    BY <1>2, <1>4, <1>5 DEF RunInv, RunTypeOK, PCs, InFlight
  <2>3. RecordFollowsExec'
    BY <1>1, <1>2, <1>4, <1>5, <2>1
    DEF RunInv, RecordFollowsExec, InFlight, AttemptLeft
  <2>4. ProofFollowsExec'
    BY <1>1, <1>2, <1>5 DEF RunInv, ProofFollowsExec
  <2> QED BY <1>4, <2>2, <2>3, <2>4 DEF RunInv
<1>6. CASE RecordFails(r) /\ exec' = [exec EXCEPT ![r] = "returning"]
  <2>1. log' = log
    BY <1>6 DEF RecordFails
  <2>2. RunTypeOK'
    BY <1>2, <1>4, <1>6 DEF RunInv, RunTypeOK, PCs, InFlight
  <2>3. RecordFollowsExec'
    BY <1>1, <1>2, <1>4, <1>6, <2>1
    DEF RunInv, RecordFollowsExec, InFlight, AttemptLeft
  <2>4. ProofFollowsExec'
    BY <1>1, <1>2, <1>6 DEF RunInv, ProofFollowsExec
  <2> QED BY <1>4, <2>2, <2>3, <2>4 DEF RunInv
<1> QED BY <1>5, <1>6 DEF ScheduleRetry, Goto, seq

(* The proof is gone before the terminal entry.                            *)
LEMMA CloseInv == ASSUME RunInv, NEW r \in Runs, Close(r) PROVE RunInv'
<1> USE DEF Close, Goto, InFlight, PCs
<1>1. RunTypeOK'
  BY DEF RunInv, RunTypeOK, Proofs
<1>2. MemoryCovers' /\ SequencesGrow'
  BY RecordsUntouched DEF RunInv, RunTypeOK
<1>3. RecordFollowsExec'
  BY DEF RunInv, RunTypeOK, RecordFollowsExec, AttemptLeft
<1>4. ProofFollowsExec'
  BY DEF RunInv, RunTypeOK, ProofFollowsExec
<1> QED BY <1>1, <1>2, <1>3, <1>4 DEF RunInv

(* The terminal entry follows whatever the record ends with.               *)
LEMMA FinishInv == ASSUME RunInv, NEW r \in Runs, Finish(r) PROVE RunInv'
<1> DEFINE seq == TerminalSequence(r)
<1>1. /\ exec \in [Runs -> PCs] /\ log \in [Runs -> Seq(Entry)]
      /\ mem \in [Runs -> Nat]
  BY DEF RunInv, RunTypeOK
<1>2. /\ exec[r] = "closing" /\ exec' = [exec EXCEPT ![r] = "ended"]
      /\ mem' = [mem EXCEPT ![r] = @ + 1]
      /\ Records(r, "terminal", seq) \/ RecordFails(r)
      /\ UNCHANGED <<tries, proof, identity, session, authority, accepting>>
  BY DEF Finish, Goto
<1>3. /\ seq \in Nat /\ seq <= mem[r] + 1
      /\ \A i \in DOMAIN log[r] : log[r][i].seq < seq
  <2>1. seq = mem[r] + 1 /\ mem[r] \in Nat
    BY <1>1 DEF TerminalSequence
  <2>2. ASSUME NEW i \in DOMAIN log[r] PROVE log[r][i].seq < seq
    <3>1. log[r][i].seq \in Nat
      BY <1>1, EntryOf
    <3>2. log[r][i].seq <= mem[r]
      BY DEF RunInv, MemoryCovers
    <3> QED BY <2>1, <3>1, <3>2
  <2> QED BY <2>1, <2>2
<1> HIDE DEF seq
<1>4. /\ log' \in [Runs -> Seq(Entry)] /\ mem' \in [Runs -> Nat] /\ faults' \in Nat
      /\ removed' = removed /\ MemoryCovers' /\ SequencesGrow'
      /\ \A q \in Runs : q # r => log'[q] = log[q]
      /\ log[r] = <<>> => log' = log
  BY <1>2, <1>3, PersistInv DEF States
<1>5. RunTypeOK'
  BY <1>2, <1>4 DEF RunInv, RunTypeOK, PCs, InFlight
<1>6. RecordFollowsExec'
  BY <1>1, <1>2, <1>4 DEF RunInv, RecordFollowsExec, InFlight, AttemptLeft
<1>7. ProofFollowsExec'
  BY <1>1, <1>2 DEF RunInv, ProofFollowsExec
<1> QED BY <1>4, <1>5, <1>6, <1>7 DEF RunInv

(* A removed record is empty and stays so.                                 *)
LEMMA RemoveRecordInv ==
  ASSUME RunInv, NEW r \in Runs, RemoveRecord(r), UNCHANGED faults
  PROVE  RunInv'
<1> USE DEF RemoveRecord
<1>1. log \in [Runs -> Seq(Entry)] /\ log'[r] = <<>>
      /\ \A q \in Runs : q # r => log'[q] = log[q]
  BY DEF RunInv, RunTypeOK
<1>2. RunTypeOK'
  BY DEF RunInv, RunTypeOK
<1>3. MemoryCovers' /\ SequencesGrow'
  BY <1>1 DEF RunInv, MemoryCovers, SequencesGrow
<1>4. RecordFollowsExec'
  BY <1>1 DEF RunInv, RecordFollowsExec, AttemptLeft
<1>5. ProofFollowsExec'
  BY DEF RunInv, ProofFollowsExec
<1> QED BY <1>2, <1>3, <1>4, <1>5 DEF RunInv

(* Steps around the executor that may withdraw proofs and interrupt runs.  *)
LEMMA AroundInv ==
  ASSUME RunInv, SessionChange \/ Stop \/ StartManager \/ Crash
  PROVE  RunInv'
<1>1. exec \in [Runs -> PCs] /\ log \in [Runs -> Seq(Entry)]
      /\ mem \in [Runs -> Nat] /\ session \in Nat \ {0} /\ faults \in Nat
  BY DEF RunInv, RunTypeOK
<1>2. UNCHANGED <<tries, mem, log, removed, identity>>
  BY DEF SessionChange, Stop, StartManager, Crash
<1>3. MemoryCovers' /\ SequencesGrow'
  BY <1>1, <1>2, RecordsUntouched
<1>4. \/ UNCHANGED exec
      \/ exec' = [r \in Runs |-> IF exec[r] \in InFlight THEN "dead" ELSE exec[r]]
  BY DEF SessionChange, Stop, StartManager, Crash
<1>5. exec' \in [Runs -> PCs]
  BY <1>1, <1>4 DEF PCs
<1>6. \/ proof' = [r \in Runs |-> "none"]
      \/ StartManager
  BY DEF SessionChange, Stop, Crash
<1>7. RunTypeOK'
  <2>1. CASE SessionChange
    BY <2>1 DEF SessionChange, RunInv, RunTypeOK, Proofs
  <2>2. CASE Stop
    BY <2>2 DEF Stop, RunInv, RunTypeOK, Proofs
  <2>3. CASE StartManager
    BY <2>3 DEF StartManager, RunInv, RunTypeOK
  <2>4. CASE Crash
    <3>1. faults' \in Nat /\ session' \in Nat \ {0} /\ authority' \in Nat
      BY <2>4, <1>1 DEF Crash, Fault
    <3>2. proof' \in [Runs -> Proofs] /\ accepting' \in BOOLEAN
      BY <2>4 DEF Crash, Proofs
    <3> QED BY <1>2, <1>5, <3>1, <3>2 DEF RunInv, RunTypeOK
  <2> QED BY <2>1, <2>2, <2>3, <2>4
<1>8. RecordFollowsExec'
  BY <1>1, <1>2, <1>4 DEF RunInv, RecordFollowsExec, InFlight, AttemptLeft
<1>9. ProofFollowsExec'
  <2>1. CASE proof' = [r \in Runs |-> "none"]
    BY <2>1 DEF ProofFollowsExec
  <2>2. CASE StartManager
    BY <2>2 DEF StartManager, RunInv, ProofFollowsExec
  <2> QED BY <1>6, <2>1, <2>2
<1> QED BY <1>3, <1>7, <1>8, <1>9 DEF RunInv

(* RunInv is inductive.                                                    *)
LEMMA StepInv == RunInv /\ [RunNext]_runVars => RunInv'
<1> SUFFICES ASSUME RunInv, [RunNext]_runVars PROVE RunInv'
  OBVIOUS
<1>1. ASSUME NEW r \in Runs, RunStep(r) PROVE RunInv'
  BY <1>1, AdmitInv, RefuseInv, QueueInv, RegisterInv, ReturnInv, StartInv,
     ScheduleRetryInv, CloseInv, FinishInv DEF RunStep
<1>2. ASSUME NEW r \in Runs, RemoveRecord(r), UNCHANGED faults PROVE RunInv'
  BY <1>2, RemoveRecordInv
<1>3. CASE SessionChange \/ Stop \/ StartManager \/ Crash
  BY <1>3, AroundInv
<1>4. CASE UNCHANGED runVars
  BY <1>4 DEF runVars, RunInv, RunTypeOK, RecordFollowsExec, MemoryCovers,
              SequencesGrow, ProofFollowsExec, AttemptLeft
<1> QED BY <1>1, <1>2, <1>3, <1>4 DEF RunNext

(* RunInv holds in every reachable state.                                  *)
LEMMA RunInvariant == RunSpec => []RunInv
BY InitInv, StepInv, PTL DEF RunSpec

(* The variables of the writer of run records keep their types, and no run *)
(* begins more attempts than its error policy grants.                      *)
THEOREM RunTypeCorrect == RunSpec => []RunTypeOK
<1>1. RunInv => RunTypeOK
  BY DEF RunInv
<1> QED BY <1>1, RunInvariant, PTL

(* PersistRunState and the in-memory timeline number the events of a run   *)
(* differently, yet the sequences of a record always grow.                 *)
THEOREM RecordsAreOrdered == RunSpec => []SequencesGrow
<1>1. RunInv => SequencesGrow
  BY DEF RunInv
<1> QED BY <1>1, RunInvariant, PTL

(* A proof in the runtime tracker belongs to an executing, unfinished run  *)
(* of the current session: Execute withdraws it before it persists the     *)
(* terminal state, logout and Stop withdraw all of them.                   *)
THEOREM LiveProofs == RunSpec => []LiveProofIsCurrent
<1>1. RunInv => LiveProofIsCurrent
  BY DEF RunInv, ProofFollowsExec, RecordFollowsExec, LiveProofIsCurrent,
         Terminal, InFlight
<1> QED BY <1>1, RunInvariant, PTL

-----------------------------------------------------------------------------
(* The refinement of RunRecord.                                            *)

(* The states of a record, entry by entry.                                 *)
LEMMA StatesOfRecord ==
  ASSUME NEW s \in Seq(Entry)
  PROVE  /\ StatesOf(s) \in Seq(States)
         /\ Len(StatesOf(s)) = Len(s)
         /\ \A i \in 1 .. Len(s) : StatesOf(s)[i] = s[i].state
<1>1. Len(s) \in Nat /\ DOMAIN s = 1 .. Len(s)
  OBVIOUS
<1>2. \A i \in 1 .. Len(s) : s[i].state \in States
  BY <1>1, EntryOf
<1>3. StatesOf(s) = [i \in 1 .. Len(s) |-> s[i].state]
  BY <1>1 DEF StatesOf
<1> QED BY <1>1, <1>2, <1>3

(* The history of a record that an entry is appended to.                   *)
LEMMA StatesAppended ==
  ASSUME NEW s \in Seq(Entry), NEW e \in Entry
  PROVE  StatesOf(Append(s, e)) = Append(StatesOf(s), e.state)
<1>1. /\ Len(s) \in Nat
      /\ DOMAIN Append(s, e) = 1 .. Len(s) + 1
      /\ \A i \in 1 .. Len(s) : Append(s, e)[i] = s[i]
      /\ Append(s, e)[Len(s) + 1] = e
      /\ Append(s, e) \in Seq(Entry)
      /\ Len(Append(s, e)) = Len(s) + 1
  BY AppendedEntry
<1>2. /\ StatesOf(s) \in Seq(States) /\ Len(StatesOf(s)) = Len(s)
      /\ \A i \in 1 .. Len(s) : StatesOf(s)[i] = s[i].state
  BY StatesOfRecord
<1>3. /\ StatesOf(Append(s, e)) \in Seq(States)
      /\ Len(StatesOf(Append(s, e))) = Len(s) + 1
      /\ \A i \in 1 .. Len(s) + 1 : StatesOf(Append(s, e))[i] = Append(s, e)[i].state
  <2> DEFINE t == Append(s, e)
  <2>1. t \in Seq(Entry) /\ Len(t) = Len(s) + 1
    BY <1>1
  <2> HIDE DEF t
  <2>2. /\ StatesOf(t) \in Seq(States) /\ Len(StatesOf(t)) = Len(t)
        /\ \A i \in 1 .. Len(t) : StatesOf(t)[i] = t[i].state
    BY <2>1, StatesOfRecord
  <2> QED BY <2>1, <2>2 DEF t
<1>4. e.state \in States
  BY DEF Entry
<1>5. /\ Append(StatesOf(s), e.state) \in Seq(States)
      /\ Len(Append(StatesOf(s), e.state)) = Len(s) + 1
      /\ \A i \in 1 .. Len(s) : Append(StatesOf(s), e.state)[i] = StatesOf(s)[i]
      /\ Append(StatesOf(s), e.state)[Len(s) + 1] = e.state
  BY <1>1, <1>2, <1>4
<1>6. \A i \in 1 .. Len(s) + 1 :
        StatesOf(Append(s, e))[i] = Append(StatesOf(s), e.state)[i]
  BY <1>1, <1>2, <1>3, <1>5
<1> QED BY <1>3, <1>5, <1>6, SeqEqual

(* A record and its history are empty together and end with the same state. *)
LEMMA LastOfHistory ==
  ASSUME NEW s \in Seq(Entry)
  PROVE  /\ s = <<>> <=> StatesOf(s) = <<>>
         /\ s # <<>> => StatesOf(s)[Len(StatesOf(s))] = Last(s).state
<1>1. /\ StatesOf(s) \in Seq(States) /\ Len(StatesOf(s)) = Len(s)
      /\ \A i \in 1 .. Len(s) : StatesOf(s)[i] = s[i].state
  BY StatesOfRecord
<1> QED BY <1>1, LastEntry

(* The effect on the history of a record that grows.                       *)
LEMMA HistoryAdvances ==
  ASSUME RunInv, NEW r \in Runs, NEW state \in States, NEW seq \in Nat,
         Records(r, state, seq), state \in Record!Follows(Last(log[r]).state)
  PROVE  Record!Advance(r)
<1> DEFINE e == [state |-> state, seq |-> seq]
<1>1. log \in [Runs -> Seq(Entry)] /\ log[r] \in Seq(Entry) /\ log[r] # <<>>
  BY DEF RunInv, RunTypeOK, Records
<1>2. e \in Entry /\ e.state = state
  BY DEF Entry
<1>3. log' = [log EXCEPT ![r] = Append(log[r], e)] /\ UNCHANGED removed
  BY DEF Records
<1> HIDE DEF e
<1>4. StatesOf(Append(log[r], e)) = Append(StatesOf(log[r]), state)
  BY <1>1, <1>2, StatesAppended
<1>5. History' = [History EXCEPT ![r] = Append(@, state)]
  BY <1>1, <1>3, <1>4 DEF History
<1>6. /\ History[r] # <<>>
      /\ History[r][Len(History[r])] = Last(log[r]).state
  BY <1>1, LastOfHistory DEF History
<1> QED BY <1>3, <1>5, <1>6 DEF Record!Advance

(* Initial states map to initial states.                                   *)
LEMMA RecordInit == RunInit => Record!Init
BY DEF RunInit, Record!Init, History, StatesOf

(* Every step maps to a step of the promised record or to a stutter.       *)
LEMMA RecordStep ==
  RunInv /\ [RunNext]_runVars => [Record!Next]_<<History, removed>>
<1> SUFFICES ASSUME RunInv, [RunNext]_runVars,
                    ~(UNCHANGED <<log, removed>>)
             PROVE  Record!Next
  BY DEF History
<1>1. log \in [Runs -> Seq(Entry)]
  BY DEF RunInv, RunTypeOK
<1>2. ASSUME NEW r \in Runs, Queue(r) PROVE Record!Next
  <2>1. /\ log[r] = <<>> /\ r \notin removed /\ UNCHANGED removed
        /\ log' = [log EXCEPT ![r] = <<[state |-> "queued", seq |-> 1]>>]
    BY <1>2 DEF Queue, RunInv, RecordFollowsExec
  <2>2. StatesOf(<<[state |-> "queued", seq |-> 1]>>) = <<"queued">>
    <3> DEFINE e == [state |-> "queued", seq |-> 1]
    <3>1. e \in Entry /\ e.state = "queued"
      BY DEF Entry, States
    <3> HIDE DEF e
    <3>2. <<e>> \in Seq(Entry) /\ Len(<<e>>) = 1 /\ <<e>>[1] = e
      BY <3>1
    <3>3. /\ StatesOf(<<e>>) \in Seq(States) /\ Len(StatesOf(<<e>>)) = 1
          /\ StatesOf(<<e>>)[1] = "queued"
      <4> DEFINE t == <<e>>
      <4>1. t \in Seq(Entry) /\ Len(t) = 1 /\ t[1] = e
        BY <3>2
      <4> HIDE DEF t
      <4>2. /\ StatesOf(t) \in Seq(States) /\ Len(StatesOf(t)) = Len(t)
            /\ \A i \in 1 .. Len(t) : StatesOf(t)[i] = t[i].state
        BY <4>1, StatesOfRecord
      <4> QED BY <3>1, <4>1, <4>2 DEF t
    <3>4. /\ <<"queued">> \in Seq(States) /\ Len(<<"queued">>) = 1
          /\ <<"queued">>[1] = "queued"
      BY DEF States
    <3>5. StatesOf(<<e>>) = <<"queued">>
      BY <3>3, <3>4, SeqEqual
    <3> QED BY <3>5 DEF e
  <2>3. History[r] = <<>> /\ History' = [History EXCEPT ![r] = <<"queued">>]
    <3>1. History[r] = <<>>
      BY <1>1, <2>1, LastOfHistory DEF History
    <3> DEFINE born == <<[state |-> "queued", seq |-> 1]>>
    <3>2. log' = [log EXCEPT ![r] = born] /\ StatesOf(born) = <<"queued">>
      BY <2>1, <2>2
    <3> HIDE DEF born
    <3>3. History' = [History EXCEPT ![r] = <<"queued">>]
      BY <1>1, <3>2 DEF History
    <3> QED BY <3>1, <3>3
  <2> QED BY <2>1, <2>3 DEF Record!Born, Record!Next
<1>3. ASSUME NEW r \in Runs, Start(r) PROVE Record!Next
  <2>1. Records(r, "started", NextSequence(r)) /\ exec[r] \in {"ready", "backoff"}
    BY <1>3 DEF Start, RecordFails
  <2>2. NextSequence(r) \in Nat
    BY <2>1, NextSequenceFits DEF Records
  <2>3. "started" \in Record!Follows(Last(log[r]).state)
    BY <2>1 DEF RunInv, RecordFollowsExec, Record!Follows, Records
  <2> QED BY <2>1, <2>2, <2>3, HistoryAdvances DEF Record!Next, States
<1>4. ASSUME NEW r \in Runs, ScheduleRetry(r) PROVE Record!Next
  <2>1. Records(r, "retry_scheduled", NextSequence(r)) /\ exec[r] = "running"
    BY <1>4 DEF ScheduleRetry, RecordFails
  <2>2. NextSequence(r) \in Nat
    BY <2>1, NextSequenceFits DEF Records
  <2>3. "retry_scheduled" \in Record!Follows(Last(log[r]).state)
    BY <2>1 DEF RunInv, RecordFollowsExec, Record!Follows, Records
  <2> QED BY <2>1, <2>2, <2>3, HistoryAdvances DEF Record!Next, States
<1>5. ASSUME NEW r \in Runs, Finish(r) PROVE Record!Next
  <2>1. Records(r, "terminal", TerminalSequence(r)) /\ exec[r] = "closing"
    BY <1>5 DEF Finish, RecordFails
  <2>2. TerminalSequence(r) \in Nat
    BY DEF TerminalSequence, RunInv, RunTypeOK
  <2>3. log[r] # <<>> /\ Last(log[r]).state # "terminal"
    BY <2>1 DEF RunInv, RecordFollowsExec, Records, InFlight
  <2>4. Last(log[r]).state \in States
    BY <1>1, <2>3, LastEntry DEF Entry
  <2>5. "terminal" \in Record!Follows(Last(log[r]).state)
    BY <2>3, <2>4 DEF Record!Follows, States
  <2> QED BY <2>1, <2>2, <2>5, HistoryAdvances DEF Record!Next, States
<1>6. ASSUME NEW r \in Runs, RemoveRecord(r) PROVE Record!Next
  <2>1. /\ log[r] # <<>> /\ log' = [log EXCEPT ![r] = <<>>]
        /\ removed' = removed \cup {r}
    BY <1>6 DEF RemoveRecord
  <2>2. History[r] # <<>>
    BY <1>1, <2>1, LastOfHistory DEF History
  <2>3. History' = [History EXCEPT ![r] = <<>>]
    <3>1. StatesOf(<<>>) = <<>>
      <4>1. <<>> \in Seq(Entry)
        OBVIOUS
      <4> QED BY <4>1, LastOfHistory
    <3> QED BY <1>1, <2>1, <3>1 DEF History
  <2> QED BY <2>1, <2>2, <2>3 DEF Record!Remove, Record!Next
<1>7. \E r \in Runs : \/ Queue(r) \/ Start(r) \/ ScheduleRetry(r)
                      \/ Finish(r) \/ RemoveRecord(r)
  BY DEF RunNext, RunStep, runVars, Admit, Refuse, Register, Return, Close,
         SessionChange, Stop, StartManager, Crash
<1> QED BY <1>2, <1>3, <1>4, <1>5, <1>6, <1>7

(* JobExecutor.Execute with its failing transactions, removals, crashes and *)
(* session changes implements the durable record RunRecord promises.       *)
THEOREM RecordRefined == RunSpec => RecordSpec
<1>1. RunSpec => []RunInv
  BY RunInvariant
<1>2. RunInit => Record!Init
  BY RecordInit
<1>3. RunInv /\ [RunNext]_runVars => [Record!Next]_<<History, removed>>
  BY RecordStep
<1> QED BY <1>1, <1>2, <1>3, PTL DEF RunSpec, RecordSpec, Record!Spec
=============================================================================
