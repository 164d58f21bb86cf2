-------------------------- MODULE Ingestion_proofs --------------------------
(* Proofs about Ingestion for any number of slots, revisions, attempts and  *)
(* inputs.  The argument: a run can commit only while the job row names its  *)
(* token and its revision, every transaction that hands the job to somebody  *)
(* else clears or replaces the token, and the payload changes only with the  *)
(* revision; so whoever can commit holds the newest payload.                 *)
EXTENDS Ingestion, TLAPS

(* What relates the rows and the runs in every reachable state. *)
NoJobNoChunks ==
  /\ job.status = "none" => job = NoJob /\ chunks = NoChunks
  /\ source.status = "deleted" => job.status = "none"

(* While a revision is still to be settled, what is served is older. *)
ServedIsOlder ==
  /\ chunks.version <= job.revision
  /\ job.status \in {"queued", "processing"} => chunks.version < job.revision

RunsArePrepared ==
  \A w \in Workers :
    run[w].step \in {"storing", "completing", "unchanged"} =>
         /\ run[w].content \in Contents
         /\ run[w].content \in Yields[run[w].payload]

HashIsOfChunks == source.hash = chunks.content

IInv ==
  /\ TypeOK
  /\ JobAndSourceAgree
  /\ LeaseDiscipline
  /\ NoJobNoChunks
  /\ ServedIsOlder
  /\ HashIsOfChunks
  /\ RunsArePrepared
  /\ HolderIsCurrent
  /\ UnchangedVerdictFresh

-----------------------------------------------------------------------------
(* A worker step that only moves its own run keeps the types. *)
LEMMA TypeInit == Init => TypeOK
  BY WorkersAssumption, ContentAssumption, BoundAssumption
  DEF Init, TypeOK, NoJob, NoSource, NoChunks, NoRun, Refs, JobStatus, Leases,
      QueueStates, Steps, JobRow, SourceRow, ChunkRows, Runs

LEMMA PublishedType ==
  ASSUME queue \in [Refs -> QueueStates], NEW r \in Refs, MayPublish(r)
  PROVE  queue' \in [Refs -> QueueStates]
  BY DEF MayPublish, Published, QueueStates

LEMMA GoToType ==
  ASSUME TypeOK, NEW w \in Workers, NEW step \in Steps, GoTo(w, step),
         run[w].step # "idle"
  PROVE  /\ run' \in [Workers -> Runs]
         /\ \A v \in Workers : run'[v].step # "idle" => run'[v].payload \in Payloads
  BY DEF TypeOK, GoTo, Runs

(* The job row after each of the updates that settle or release it. *)
LEMMA JobUpdateType ==
  ASSUME TypeOK, NEW status \in JobStatus, NEW due \in BOOLEAN
  PROVE  /\ [job EXCEPT !.status = status, !.token = None, !.lease = "none"]
              \in JobRow
         /\ [job EXCEPT !.status = status, !.token = None, !.lease = "none",
                        !.due = due] \in JobRow
  BY DEF TypeOK, JobRow, Leases

LEMMA SourceUpdateType ==
  ASSUME TypeOK, NEW status \in JobStatus
  PROVE  [source EXCEPT !.status = status] \in SourceRow
  BY DEF TypeOK, SourceRow

LEMMA ReturnType ==
  ASSUME TypeOK, NEW w \in Workers, Return(w)
  PROVE  /\ queue' \in [Refs -> QueueStates]
         /\ run' \in [Workers -> Runs]
         /\ \A v \in Workers :
              run'[v].step # "idle" => run[v].step # "idle" /\ run'[v] = run[v]
  BY BoundAssumption DEF TypeOK, Return, NoRun, QueueStates, Steps, Runs

LEMMA TypeNext == TypeOK /\ [Next]_vars => TypeOK'
  <1> SUFFICES ASSUME TypeOK, [Next]_vars PROVE TypeOK'
    OBVIOUS
  <1> USE WorkersAssumption, ContentAssumption, BoundAssumption

  <1>1. ASSUME NEW p \in Payloads, Submit(p) PROVE TypeOK'
    <2>1. [revision |-> job.revision + 1, attempt |-> 0] \in Refs
      BY <1>1 DEF Submit, Refs, TypeOK, JobRow
    <2>2. queue' \in [Refs -> QueueStates]
      BY <1>1, <2>1, PublishedType DEF Submit, TypeOK
    <2>3. job' \in JobRow
      BY <1>1 DEF Submit, TypeOK, JobRow, JobStatus, Leases
    <2>4. QED
      <3>1. source' \in SourceRow
        <4>1. job.revision + 1 \in 0..MaxRevision
          BY <1>1 DEF Submit, TypeOK, JobRow
        <4>2. source' = [source EXCEPT !.status = "queued",
                                       !.currentRevision = job.revision + 1]
          BY <1>1 DEF Submit
        <4> QED
          BY <4>1, <4>2 DEF TypeOK, SourceRow, JobStatus
      <3>2. job'.revision > 0 /\ job'.payload \in Payloads
        BY <1>1 DEF Submit, TypeOK, JobRow
      <3> QED
        BY <1>1, <2>2, <2>3, <3>1, <3>2 DEF Submit, TypeOK
  <1>2. CASE DeleteSource
    BY <1>2 DEF DeleteSource, TypeOK, NoJob, NoSource, NoChunks, JobStatus, Leases,
           JobRow, SourceRow, ChunkRows
  <1>3. CASE SweepPending
    <2>1. queue' \in [Refs -> QueueStates]
      <3> SUFFICES ASSUME Dispatchable(job) PROVE queue' \in [Refs -> QueueStates]
        BY <1>3 DEF SweepPending, TypeOK
      <3>1. RefOf(job) \in Refs
        BY DEF TypeOK, RefOf, Refs, Dispatchable, Reclaimable, JobRow
      <3>2. QED
        BY <1>3, <3>1, PublishedType DEF SweepPending, TypeOK
    <2>2. CASE Exhausted(job)
      <3>1. job' \in JobRow /\ source' \in SourceRow
        BY <1>3, <2>2, JobUpdateType, SourceUpdateType
        DEF SweepPending, GiveUp, JobStatus
      <3> QED
        BY <1>3, <2>1, <2>2, <3>1 DEF SweepPending, GiveUp, TypeOK, Exhausted, Reclaimable, JobRow
    <2>3. CASE ~Exhausted(job)
      BY <1>3, <2>1, <2>3 DEF SweepPending, TypeOK
    <2> QED
      BY <2>2, <2>3
  <1>4. CASE LeaseRunsOut
    BY <1>4 DEF LeaseRunsOut, TypeOK, Leases, JobRow
  <1>5. CASE BackoffElapses
    BY <1>5 DEF BackoffElapses, TypeOK, JobRow
  <1>6. ASSUME NEW r \in Refs, QueueLoses(r) \/ Stall(r) PROVE TypeOK'
    <2>1. PICK s \in QueueStates : queue' = [queue EXCEPT ![r] = s]
      BY <1>6 DEF QueueLoses, Stall, QueueStates
    <2> QED
      BY <1>6, <2>1 DEF QueueLoses, Stall, TypeOK
  <1>7. ASSUME NEW w \in Workers, WorkerStep(w) PROVE TypeOK'
    <2>1. ASSUME NEW r \in Refs, Claim(w, r) PROVE TypeOK'
      <3>1. job' \in JobRow
        <4>1. job.attempts + 1 \in 0..MaxAttempts
          BY <2>1 DEF Claim, Claimable, Dispatchable, TypeOK, JobRow
        <4> QED
          BY <2>1, <4>1 DEF Claim, TypeOK, JobStatus, Leases, JobRow
      <3>2. run' \in [Workers -> Runs]
        BY <2>1 DEF Claim, TypeOK, Steps, Refs, Runs, JobRow
      <3>3. QED
        <4>1. source' \in SourceRow
          BY <2>1, SourceUpdateType DEF Claim, JobStatus
        <4>2. job.status # "none" /\ job'.payload = job.payload
              /\ job'.revision = job.revision
          BY <2>1 DEF Claim, Claimable, Dispatchable, Reclaimable, TypeOK, JobRow
        <4>3. \A v \in Workers : run'[v].step # "idle" => run'[v].payload \in Payloads
          BY <2>1, <4>2 DEF Claim, TypeOK
        <4> QED
          BY <2>1, <3>1, <3>2, <4>1, <4>2, <4>3 DEF Claim, TypeOK, QueueStates
    <2>2. ASSUME NEW r \in Refs, SkipDelivery(w, r) PROVE TypeOK'
      BY <2>2 DEF SkipDelivery, TypeOK, QueueStates
    <2>3. CASE Prepare(w)
      <3>1. PICK c \in Yields[run[w].payload] :
              run' = [run EXCEPT ![w].content = c,
                                 ![w].step = IF Kind = "website" /\ source.hash = c
                                               THEN "unchanged" ELSE "storing"]
        BY <2>3 DEF Prepare
      <3>2. c \in Contents
        <4>1. run[w].payload \in Payloads
          BY <2>3 DEF Prepare, At, TypeOK
        <4> QED
          BY <3>1, <4>1
      <3>3. run' \in [Workers -> Runs]
        <4>1. run[w] \in Runs
          BY DEF TypeOK
        <4>2. [run[w] EXCEPT !.content = c,
                             !.step = IF Kind = "website" /\ source.hash = c
                                        THEN "unchanged" ELSE "storing"] \in Runs
          BY <3>2, <4>1 DEF Runs, Steps
        <4> QED
          BY <3>1, <4>2 DEF TypeOK
      <3>4. \A v \in Workers : run'[v].step # "idle" => run'[v].payload \in Payloads
        BY <2>3, <3>1 DEF Prepare, At, TypeOK, Runs
      <3> QED
        BY <2>3, <3>3, <3>4 DEF Prepare, TypeOK
    <2>4. CASE InsertText(w)
      <3>1. run[w].revision \in 0..MaxRevision
        BY DEF TypeOK, Runs
      <3>2. run' \in [Workers -> Runs]
            /\ \A v \in Workers : run'[v].step # "idle" => run'[v].payload \in Payloads
        BY <2>4, GoToType DEF InsertText, Steps, At
      <3> QED
        BY <2>4, <3>1, <3>2 DEF InsertText, TypeOK
    <2>5. CASE InsertTextConflicts(w)
      <3>1. run' \in [Workers -> Runs]
            /\ \A v \in Workers : run'[v].step # "idle" => run'[v].payload \in Payloads
        BY <2>5, GoToType DEF InsertTextConflicts, Steps, At
      <3> QED
        BY <2>5, <3>1 DEF InsertTextConflicts, TypeOK
    <2>6. CASE Complete(w)
      <3>1. CASE CanCommit(w)
        <4>0. job' \in JobRow
          BY <2>6, <3>1, JobUpdateType DEF Complete, JobDone, JobStatus
        <4>1. job'.revision = job.revision /\ job.revision > 0
              /\ job'.payload = job.payload /\ job.payload \in Payloads
          BY <2>6, <3>1 DEF Complete, JobDone, CanCommit, TypeOK, JobRow
        <4>2. run[w].revision \in 0..MaxRevision
              /\ run[w].content \in Contents \cup {None}
          BY DEF TypeOK, Runs
        <4>3. source' \in SourceRow /\ chunks' \in ChunkRows
          <5>1. [source EXCEPT !.status = "completed", !.hash = run[w].content]
                  \in SourceRow
            BY <4>2 DEF TypeOK, SourceRow, JobStatus
          <5>2. [version |-> run[w].revision, content |-> run[w].content] \in ChunkRows
            BY <4>2 DEF ChunkRows
          <5> QED
            BY <2>6, <3>1, <5>1, <5>2 DEF Complete
        <4> QED
          BY <2>6, <4>0, <4>1, <4>3, ReturnType DEF Complete, TypeOK
      <3>2. CASE ~CanCommit(w)
        BY <2>6, <3>2, ReturnType DEF Complete, TypeOK
      <3> QED
        BY <3>1, <3>2
    <2>7. CASE CompleteUnchanged(w)
      <3>1. CASE CanCommit(w)
        <4>0. job' \in JobRow
          BY <2>7, <3>1, JobUpdateType DEF CompleteUnchanged, JobDone, JobStatus
        <4>1. job'.revision = job.revision /\ job.revision > 0
              /\ job'.payload = job.payload /\ job.payload \in Payloads
          BY <2>7, <3>1 DEF CompleteUnchanged, JobDone, CanCommit, TypeOK, JobRow
        <4>2. run[w].revision - 1 \in 0..MaxRevision
          BY <3>1, <4>1 DEF CanCommit, TypeOK, Runs
        <4>3. source' \in SourceRow
          BY <2>7, <3>1, <4>2 DEF CompleteUnchanged, TypeOK, SourceRow, JobStatus
        <4> QED
          BY <2>7, <4>0, <4>1, <4>3, ReturnType DEF CompleteUnchanged, TypeOK
      <3>2. CASE ~CanCommit(w)
        BY <2>7, <3>2, ReturnType DEF CompleteUnchanged, TypeOK
      <3> QED
        BY <3>1, <3>2
    <2>8. CASE RecordFailure(w)
      <3>1. CASE CanCommit(w)
        <4> DEFINE status == IF job.attempts >= MaxAttempts THEN "failed" ELSE "queued"
        <4>1. status \in JobStatus
          BY DEF JobStatus
        <4> HIDE DEF status
        <4>2. job' = [job EXCEPT !.status = status, !.token = None,
                                 !.lease = "none", !.due = FALSE]
              /\ source' = [source EXCEPT !.status = status]
          BY <2>8, <3>1 DEF RecordFailure, status
        <4>3. job' \in JobRow /\ source' \in SourceRow
          BY <4>1, <4>2, JobUpdateType, SourceUpdateType
        <4>4. job'.revision = job.revision /\ job.revision > 0
              /\ job'.payload = job.payload /\ job.payload \in Payloads
          BY <3>1, <4>2 DEF CanCommit, TypeOK, JobRow
        <4> QED
          BY <2>8, <4>3, <4>4, ReturnType DEF RecordFailure, TypeOK
      <3>2. CASE ~CanCommit(w)
        BY <2>8, <3>2, ReturnType DEF RecordFailure, TypeOK
      <3> QED
        BY <3>1, <3>2
    <2>9. CASE StepFails(w)
      <3>1. run' \in [Workers -> Runs]
            /\ \A v \in Workers : run'[v].step # "idle" => run'[v].payload \in Payloads
        BY <2>9, GoToType DEF StepFails, Steps
      <3> QED
        BY <2>9, <3>1 DEF StepFails, TypeOK
    <2>10. CASE Reject(w)
      BY <2>10, ReturnType DEF Reject, TypeOK
    <2>11. CASE Crash(w)
      BY <2>11 DEF Crash, NoRun, TypeOK, Steps, Runs
    <2> QED
      BY <1>7, <2>1, <2>2, <2>3, <2>4, <2>5, <2>6, <2>7, <2>8, <2>9, <2>10, <2>11
      DEF WorkerStep, Advance
  <1>8. CASE UNCHANGED vars
    BY <1>8 DEF vars, TypeOK
  <1> QED
    BY <1>1, <1>2, <1>3, <1>4, <1>5, <1>6, <1>7, <1>8 DEF Next

(* Every row and every run stays within its type. *)
THEOREM TypeCorrect == Spec => []TypeOK
  BY TypeInit, TypeNext, PTL DEF Spec

-----------------------------------------------------------------------------
(* One lemma per part of the invariant; each names the parts it leans on. *)

LEMMA InitIInv == Init => IInv
  BY TypeInit, ContentAssumption, WorkersAssumption
  DEF Init, IInv, JobAndSourceAgree, LeaseDiscipline, NoJobNoChunks,
      ServedIsOlder, HashIsOfChunks, RunsArePrepared, HolderIsCurrent,
      UnchangedVerdictFresh, NoJob, NoSource, NoChunks, NoRun, At, CanCommit

(* What no worker can see changed keeps the parts about the rows. *)
LEMMA RowsKept ==
  ASSUME IInv, UNCHANGED <<job, source, chunks>>
  PROVE  /\ JobAndSourceAgree' /\ LeaseDiscipline' /\ NoJobNoChunks'
         /\ ServedIsOlder' /\ HashIsOfChunks'
  BY DEF IInv, JobAndSourceAgree, LeaseDiscipline, NoJobNoChunks,
         ServedIsOlder, HashIsOfChunks, NoJob, NoChunks

(* The parts about the runs survive when every run that is still going is    *)
(* the same run, and whoever can commit afterwards could commit before, with *)
(* the same payload wanted and the same content served.                      *)
LEMMA RunsKept ==
  ASSUME IInv,
         \A v \in Workers :
           /\ run'[v].step # "idle" => run'[v] = run[v]
           /\ run'[v].step # "idle" /\ CanCommit(v)' =>
                CanCommit(v) /\ job'.payload = job.payload
                             /\ chunks'.content = chunks.content
  PROVE  RunsArePrepared' /\ HolderIsCurrent' /\ UnchangedVerdictFresh'
  BY DEF IInv, RunsArePrepared, HolderIsCurrent, UnchangedVerdictFresh, At

(* A run that commits or gives up takes its token away with it. *)
LEMMA ReleaseKeepsRuns ==
  ASSUME IInv, NEW w \in Workers, Return(w), job'.token = None
  PROVE  RunsArePrepared' /\ HolderIsCurrent' /\ UnchangedVerdictFresh'
  <1>1. \A v \in Workers : ~CanCommit(v)'
    BY WorkersAssumption DEF CanCommit
  <1>2. \A v \in Workers : run'[v].step # "idle" => run'[v] = run[v]
    BY ReturnType DEF IInv
  <1> QED
    BY <1>1, <1>2, RunsKept

LEMMA InvNext == IInv /\ [Next]_vars => IInv'
  <1> SUFFICES ASSUME IInv, [Next]_vars PROVE IInv'
    OBVIOUS
  <1>0. TypeOK /\ TypeOK'
    BY TypeNext DEF IInv
  <1>1. ASSUME NEW p \in Payloads, Submit(p) PROVE IInv'
    <2>1. job.revision \in Nat /\ chunks.version \in Nat
      BY <1>0, BoundAssumption DEF TypeOK, JobRow, ChunkRows
    <2>2. source' = [source EXCEPT !.status = "queued",
                                   !.currentRevision = job.revision + 1]
      BY <1>1 DEF Submit
    <2>3. source'.status = "queued" /\ source'.hash = source.hash
      BY <1>0, <2>2 DEF TypeOK, SourceRow
    <2>4. JobAndSourceAgree' /\ LeaseDiscipline' /\ HashIsOfChunks' /\ NoJobNoChunks'
      BY <1>1, <2>3
      DEF Submit, JobAndSourceAgree, LeaseDiscipline, HashIsOfChunks,
          NoJobNoChunks, IInv
    <2>5. ServedIsOlder'
      BY <1>1, <2>1 DEF Submit, ServedIsOlder, IInv
    <2>6. RunsArePrepared' /\ HolderIsCurrent' /\ UnchangedVerdictFresh'
      BY <1>1, RunsKept, WorkersAssumption DEF Submit, CanCommit
    <2> QED
      BY <1>0, <2>4, <2>5, <2>6 DEF IInv
  <1>2. CASE DeleteSource
    <2>1. JobAndSourceAgree' /\ LeaseDiscipline' /\ NoJobNoChunks' /\ ServedIsOlder'
          /\ HashIsOfChunks'
      BY <1>2
      DEF DeleteSource, NoJob, NoSource, NoChunks, JobAndSourceAgree,
          LeaseDiscipline, NoJobNoChunks, ServedIsOlder, HashIsOfChunks
    <2>2. RunsArePrepared' /\ HolderIsCurrent' /\ UnchangedVerdictFresh'
      BY <1>2, RunsKept, WorkersAssumption DEF DeleteSource, CanCommit, NoJob
    <2> QED
      BY <1>0, <2>1, <2>2 DEF IInv
  <1>3. CASE SweepPending
    <2>1. CASE Exhausted(job)
      <3>1. /\ job' = [job EXCEPT !.status = "failed", !.token = None, !.lease = "none"]
            /\ source' = [source EXCEPT !.status = "failed"]
            /\ job.status = "processing" /\ UNCHANGED <<chunks, run>>
        BY <1>3, <2>1 DEF SweepPending, GiveUp, Exhausted, Reclaimable
      <3>2. /\ job'.status = "failed" /\ job'.token = None /\ job'.lease = "none"
            /\ job'.revision = job.revision /\ job'.payload = job.payload
            /\ source'.status = "failed" /\ source'.hash = source.hash
        BY <1>0, <3>1 DEF TypeOK, JobRow, SourceRow
      <3>3. JobAndSourceAgree' /\ LeaseDiscipline' /\ NoJobNoChunks'
            /\ ServedIsOlder' /\ HashIsOfChunks'
        BY <3>1, <3>2 DEF IInv, JobAndSourceAgree, LeaseDiscipline,
           NoJobNoChunks, ServedIsOlder, HashIsOfChunks, NoJob
      <3>4. RunsArePrepared' /\ HolderIsCurrent' /\ UnchangedVerdictFresh'
        BY <3>1, <3>2, RunsKept, WorkersAssumption DEF CanCommit
      <3> QED
        BY <1>0, <3>3, <3>4 DEF IInv
    <2>2. CASE ~Exhausted(job)
      <3>1. UNCHANGED <<job, source, chunks, run>>
        BY <1>3, <2>2 DEF SweepPending
      <3> QED
        BY <1>0, <3>1, RowsKept, RunsKept DEF CanCommit, IInv
    <2> QED
      BY <2>1, <2>2
  <1>4. CASE LeaseRunsOut
    <2>1. /\ job'.status = job.status /\ job'.token = job.token
          /\ job'.lease = "expired" /\ job'.revision = job.revision
          /\ job'.payload = job.payload /\ job'.attempts = job.attempts
          /\ job'.due = job.due /\ job.lease = "live"
      BY <1>0, <1>4 DEF LeaseRunsOut, TypeOK, JobRow
    <2>2. JobAndSourceAgree' /\ LeaseDiscipline' /\ NoJobNoChunks' /\ ServedIsOlder'
          /\ HashIsOfChunks'
      BY <1>4, <2>1 DEF LeaseRunsOut, IInv, JobAndSourceAgree, LeaseDiscipline,
         NoJobNoChunks, ServedIsOlder, HashIsOfChunks, NoJob
    <2>3. RunsArePrepared' /\ HolderIsCurrent' /\ UnchangedVerdictFresh'
      BY <1>4, <2>1, RunsKept DEF LeaseRunsOut, CanCommit
    <2> QED
      BY <1>0, <2>2, <2>3 DEF IInv
  <1>5. CASE BackoffElapses
    <2>1. /\ job'.status = job.status /\ job'.token = job.token
          /\ job'.lease = job.lease /\ job'.revision = job.revision
          /\ job'.payload = job.payload /\ job.status = "queued"
      BY <1>0, <1>5 DEF BackoffElapses, TypeOK, JobRow
    <2>2. JobAndSourceAgree' /\ LeaseDiscipline' /\ NoJobNoChunks' /\ ServedIsOlder'
          /\ HashIsOfChunks'
      BY <1>5, <2>1 DEF BackoffElapses, IInv, JobAndSourceAgree, LeaseDiscipline,
         NoJobNoChunks, ServedIsOlder, HashIsOfChunks
    <2>3. RunsArePrepared' /\ HolderIsCurrent' /\ UnchangedVerdictFresh'
      BY <1>5, <2>1, RunsKept DEF BackoffElapses, CanCommit
    <2> QED
      BY <1>0, <2>2, <2>3 DEF IInv
  <1>6. ASSUME NEW r \in Refs, QueueLoses(r) \/ Stall(r) PROVE IInv'
    BY <1>0, <1>6, RowsKept, RunsKept DEF QueueLoses, Stall, CanCommit, IInv
  <1>7. ASSUME NEW w \in Workers, WorkerStep(w) PROVE IInv'
    <2>1. ASSUME NEW r \in Refs, Claim(w, r) PROVE IInv'
      <3>1. /\ job.status \in {"queued", "processing"}
            /\ job.revision = r.revision /\ job.due /\ job.attempts \in Nat
        BY <1>0, <2>1, BoundAssumption
        DEF Claim, Claimable, Dispatchable, Reclaimable, RefOf, TypeOK, JobRow
      <3>2. /\ job'.status = "processing" /\ job'.token = w /\ job'.lease = "live"
            /\ job'.attempts = job.attempts + 1 /\ job'.due = job.due
            /\ job'.revision = job.revision /\ job'.payload = job.payload
            /\ source'.status = "processing" /\ source'.hash = source.hash
        BY <1>0, <2>1 DEF Claim, TypeOK, JobRow, SourceRow
      <3>3. JobAndSourceAgree' /\ LeaseDiscipline' /\ NoJobNoChunks'
            /\ ServedIsOlder' /\ HashIsOfChunks'
        BY <2>1, <3>1, <3>2, WorkersAssumption
        DEF Claim, IInv, JobAndSourceAgree, LeaseDiscipline, NoJobNoChunks,
            ServedIsOlder, HashIsOfChunks, NoJob
      <3>4. \A v \in Workers : v # w => run'[v] = run[v] /\ ~CanCommit(v)'
        BY <1>0, <2>1, <3>2 DEF Claim, CanCommit, TypeOK
      <3>5. run'[w].step = "preparing" /\ run'[w].payload = job.payload
        BY <1>0, <2>1 DEF Claim, TypeOK
      <3>6. RunsArePrepared' /\ HolderIsCurrent' /\ UnchangedVerdictFresh'
        BY <3>2, <3>4, <3>5
        DEF IInv, RunsArePrepared, HolderIsCurrent, UnchangedVerdictFresh, At
      <3> QED
        BY <1>0, <3>3, <3>6 DEF IInv
    <2>2. ASSUME NEW r \in Refs, SkipDelivery(w, r) PROVE IInv'
      BY <1>0, <2>2, RowsKept, RunsKept DEF SkipDelivery, CanCommit, IInv
    <2>3. CASE Prepare(w)
      <3>1. PICK c \in Yields[run[w].payload] :
              run' = [run EXCEPT ![w].content = c,
                                 ![w].step = IF Kind = "website" /\ source.hash = c
                                               THEN "unchanged" ELSE "storing"]
        BY <2>3 DEF Prepare
      <3>2. run[w].payload \in Payloads /\ c \in Contents
        BY <1>0, <2>3, <3>1, ContentAssumption DEF Prepare, At, TypeOK
      <3>3. /\ run'[w].content = c /\ run'[w].payload = run[w].payload
            /\ run'[w].revision = run[w].revision
            /\ run'[w].step = "unchanged" => chunks.content = c
            /\ run'[w].step # "idle" /\ run[w].step # "idle"
        BY <1>0, <2>3, <3>1 DEF Prepare, At, TypeOK, Runs, HashIsOfChunks, IInv
      <3>4. \A v \in Workers : v # w => run'[v] = run[v]
        BY <1>0, <3>1 DEF TypeOK
      <3>5. RunsArePrepared'
        BY <3>1, <3>2, <3>3, <3>4 DEF IInv, RunsArePrepared
      <3>6. \A v \in Workers : CanCommit(v)' => CanCommit(v)
        BY <2>3, <3>3, <3>4 DEF Prepare, CanCommit
      <3>7. HolderIsCurrent'
        BY <2>3, <3>3, <3>4, <3>6 DEF Prepare, HolderIsCurrent, IInv, At
      <3>8. UnchangedVerdictFresh'
        BY <2>3, <3>3, <3>4, <3>6 DEF Prepare, UnchangedVerdictFresh, IInv, At
      <3>9. UNCHANGED <<job, source, chunks>>
        BY <2>3 DEF Prepare
      <3> QED
        BY <1>0, <3>5, <3>7, <3>8, <3>9, RowsKept DEF IInv
    <2>4. CASE InsertText(w) \/ InsertTextConflicts(w) \/ StepFails(w)
      <3>1. PICK step \in {"completing", "failing"} : GoTo(w, step)
        BY <2>4 DEF InsertText, InsertTextConflicts, StepFails
      <3>2. /\ UNCHANGED <<job, source, chunks>>
            /\ run[w].step # "idle"
            /\ step = "completing" => run[w].step = "storing"
        BY <1>0, <2>4, <3>1
        DEF InsertText, InsertTextConflicts, StepFails, At, GoTo, TypeOK, Runs
      <3>3. /\ run'[w].step = step /\ run'[w].content = run[w].content
            /\ run'[w].payload = run[w].payload
            /\ run'[w].revision = run[w].revision
        BY <1>0, <3>1 DEF GoTo, TypeOK, Runs
      <3>4. \A v \in Workers : v # w => run'[v] = run[v]
        BY <1>0, <3>1 DEF GoTo, TypeOK
      <3>5. \A v \in Workers : CanCommit(v)' => CanCommit(v)
        BY <3>2, <3>3, <3>4 DEF CanCommit
      <3>6. RunsArePrepared'
        BY <3>1, <3>2, <3>3, <3>4 DEF IInv, RunsArePrepared
      <3>7. HolderIsCurrent'
        BY <3>2, <3>3, <3>4, <3>5 DEF HolderIsCurrent, IInv, At
      <3>8. UnchangedVerdictFresh'
        BY <3>1, <3>2, <3>3, <3>4, <3>5 DEF UnchangedVerdictFresh, IInv, At
      <3> QED
        BY <1>0, <3>2, <3>6, <3>7, <3>8, RowsKept DEF IInv
    <2>5. ASSUME Complete(w) \/ CompleteUnchanged(w) \/ RecordFailure(w), CanCommit(w)
          PROVE IInv'
      <3>1. /\ Return(w) /\ job'.token = None /\ job'.lease = "none"
            /\ job'.revision = job.revision /\ job'.payload = job.payload
            /\ job'.status \in {"completed", "queued", "failed"}
            /\ source'.status = job'.status
            /\ Complete(w) \/ CompleteUnchanged(w) => job'.status = "completed"
        <4>1. CASE Complete(w) \/ CompleteUnchanged(w)
          <5>1. job' = JobDone /\ source'.status = "completed"
            BY <1>0, <2>5, <4>1 DEF Complete, CompleteUnchanged, TypeOK, SourceRow
          <5> QED
            BY <1>0, <2>5, <4>1, <5>1
            DEF Complete, CompleteUnchanged, JobDone, TypeOK, JobRow
        <4>2. CASE RecordFailure(w)
          <5> DEFINE status == IF job.attempts >= MaxAttempts THEN "failed" ELSE "queued"
          <5>1. /\ job' = [job EXCEPT !.status = status, !.token = None,
                                      !.lease = "none", !.due = FALSE]
                /\ source' = [source EXCEPT !.status = status]
                /\ Return(w)
            BY <2>5, <4>2 DEF RecordFailure
          <5>2. status \in {"queued", "failed"}
            OBVIOUS
          <5> HIDE DEF status
          <5>3. /\ job'.status = status /\ job'.token = None /\ job'.lease = "none"
                /\ job'.revision = job.revision /\ job'.payload = job.payload
                /\ source'.status = status
            BY <1>0, <5>1 DEF TypeOK, JobRow, SourceRow
          <5>4. ~Complete(w) /\ ~CompleteUnchanged(w)
            BY <4>2 DEF RecordFailure, Complete, CompleteUnchanged, At
          <5> QED
            BY <5>1, <5>2, <5>3, <5>4
        <4> QED
          BY <2>5, <4>1, <4>2
      <3>2. job.status = "processing" /\ job.revision = run[w].revision
        BY <2>5 DEF CanCommit
      <3>3. JobAndSourceAgree' /\ LeaseDiscipline'
        BY <3>1 DEF JobAndSourceAgree, LeaseDiscipline
      <3>4. NoJobNoChunks'
        BY <3>1 DEF NoJobNoChunks
      <3>5. ServedIsOlder' /\ HashIsOfChunks'
        <4>1. CASE Complete(w)
          <5>1. /\ chunks'.version = job.revision
                /\ chunks'.content = run[w].content
                /\ source' = [source EXCEPT !.status = "completed",
                                            !.hash = run[w].content]
            BY <2>5, <3>2, <4>1 DEF Complete
          <5>2. source'.hash = run[w].content
            BY <1>0, <5>1 DEF TypeOK, SourceRow
          <5>3. job.revision \in Nat
            BY <1>0, BoundAssumption DEF TypeOK, JobRow
          <5> QED
            BY <3>1, <4>1, <5>1, <5>2, <5>3 DEF ServedIsOlder, HashIsOfChunks
        <4>2. CASE CompleteUnchanged(w) \/ RecordFailure(w)
          BY <1>0, <2>5, <3>1, <3>2, <4>2
          DEF CompleteUnchanged, RecordFailure, ServedIsOlder, HashIsOfChunks,
              IInv, TypeOK, SourceRow
        <4> QED
          BY <2>5, <4>1, <4>2
      <3>6. RunsArePrepared' /\ HolderIsCurrent' /\ UnchangedVerdictFresh'
        BY <3>1, ReleaseKeepsRuns
      <3> QED
        BY <1>0, <3>3, <3>4, <3>5, <3>6 DEF IInv
    <2>6. ASSUME \/ /\ Complete(w) \/ CompleteUnchanged(w) \/ RecordFailure(w)
                    /\ ~CanCommit(w)
                 \/ Reject(w) \/ Crash(w)
          PROVE IInv'
      <3>1. UNCHANGED <<job, source, chunks>>
        BY <2>6 DEF Complete, CompleteUnchanged, RecordFailure, Reject, Crash
      <3>2. \A v \in Workers : run'[v].step # "idle" => run'[v] = run[v]
        BY <1>0, <2>6, ReturnType
        DEF Complete, CompleteUnchanged, RecordFailure, Reject, Crash, TypeOK, NoRun
      <3>3. RunsArePrepared' /\ HolderIsCurrent' /\ UnchangedVerdictFresh'
        BY <3>1, <3>2, RunsKept DEF CanCommit
      <3> QED
        BY <1>0, <3>1, <3>3, RowsKept DEF IInv
    <2> QED
      BY <1>7, <2>1, <2>2, <2>3, <2>4, <2>5, <2>6 DEF WorkerStep, Advance
  <1>8. CASE UNCHANGED vars
    BY <1>0, <1>8, RowsKept, RunsKept DEF vars, CanCommit, IInv
  <1> QED
    BY <1>1, <1>2, <1>3, <1>4, <1>5, <1>6, <1>7, <1>8 DEF Next

THEOREM InductiveInvariant == Spec => []IInv
  BY InitIInv, InvNext, PTL DEF Spec

(* Both rows tell the same story in every reachable state. *)
THEOREM RowsAgree == Spec => []JobAndSourceAgree
  BY InductiveInvariant, PTL DEF IInv

(* The lease, its token and its holder come and go together. *)
THEOREM LeasesAreDisciplined == Spec => []LeaseDiscipline
  BY InductiveInvariant, PTL DEF IInv

(* Whoever can commit works from the newest payload. *)
THEOREM HoldersAreCurrent == Spec => []HolderIsCurrent
  BY InductiveInvariant, PTL DEF IInv

(* An unchanged verdict that commits is about the content being served. *)
THEOREM UnchangedVerdictsAreFresh == Spec => []UnchangedVerdictFresh
  BY InductiveInvariant, PTL DEF IInv

-----------------------------------------------------------------------------
(* The machinery implements Publication: a settled revision maps to Publish, *)
(* ConfirmUnchanged or GiveUp of the newest submission, everything else to a *)
(* stutter.                                                                  *)

LEMMA RefinesInit == Init => Promise!Init
  BY DEF Init, NoJob, NoSource, NoChunks, Verdict, Promise!Init, Promise!Nothing

(* A step that keeps the pending job pending, and the served chunks, is      *)
(* invisible from outside.                                                   *)
LEMMA Invisible ==
  ASSUME source.status # "deleted", source'.status # "deleted",
         job'.revision = job.revision, job'.payload = job.payload,
         chunks' = chunks,
         \/ job'.status = job.status
         \/ /\ job.status \in {"queued", "processing"}
            /\ job'.status \in {"queued", "processing"}
  PROVE  UNCHANGED Promise!vars
  BY DEF Verdict, Promise!vars

LEMMA RefinesNext == IInv /\ IInv' /\ [Next]_vars => [Promise!Next]_(Promise!vars)
  <1> SUFFICES ASSUME IInv, IInv', [Next]_vars
               PROVE  Promise!Next \/ UNCHANGED Promise!vars
    OBVIOUS
  <1>0. /\ TypeOK
        /\ TypeOK'
        /\ source.status = "deleted" => job.status = "none"
        /\ source'.status = "deleted" => job'.status = "none"
        /\ source.status = "deleted" \/ source.status = job.status
    BY DEF IInv, NoJobNoChunks, JobAndSourceAgree
  <1>1. ASSUME NEW p \in Payloads, Submit(p) PROVE Promise!Submit(p)
    <2>1. source' = [source EXCEPT !.status = "queued",
                                   !.currentRevision = job.revision + 1]
      BY <1>1 DEF Submit
    <2>2. source'.status = "queued"
      BY <1>0, <2>1 DEF TypeOK, SourceRow
    <2>3. Verdict # "deleted"
      BY <1>0, <1>1 DEF Submit, Verdict, TypeOK, JobRow, JobStatus
    <2> QED
      BY <1>1, <2>2, <2>3 DEF Submit, Verdict, Promise!Submit
  <1>2. CASE DeleteSource
    <2>1. Verdict \notin {"none", "deleted"}
      BY <1>0, <1>2 DEF DeleteSource, Verdict, TypeOK, JobRow, JobStatus
    <2> QED
      BY <1>2, <2>1 DEF DeleteSource, NoJob, NoSource, NoChunks, Verdict,
         Promise!Next, Promise!Delete, Promise!Nothing
  <1>3. CASE SweepPending
    <2>1. CASE Exhausted(job)
      <3>1. /\ job'.status = "failed" /\ job.status = "processing"
            /\ job'.revision = job.revision /\ job'.payload = job.payload
            /\ source'.status = "failed" /\ chunks' = chunks
        BY <1>0, <1>3, <2>1
        DEF SweepPending, GiveUp, Exhausted, Reclaimable, TypeOK, JobRow, SourceRow
      <3> QED
        BY <1>0, <3>1 DEF Verdict, Promise!Next, Promise!GiveUp
    <2>2. CASE ~Exhausted(job)
      BY <1>3, <2>2 DEF SweepPending, Verdict, Promise!vars
    <2> QED
      BY <2>1, <2>2
  <1>4. CASE LeaseRunsOut \/ BackoffElapses
    <2>1. /\ job'.status = job.status /\ job'.revision = job.revision
          /\ job'.payload = job.payload /\ UNCHANGED <<source, chunks>>
      BY <1>0, <1>4 DEF LeaseRunsOut, BackoffElapses, TypeOK, JobRow
    <2> QED
      BY <2>1 DEF Verdict, Promise!vars
  <1>5. ASSUME NEW r \in Refs, QueueLoses(r) \/ Stall(r)
        PROVE UNCHANGED Promise!vars
    BY <1>5 DEF QueueLoses, Stall, Verdict, Promise!vars
  <1>6. ASSUME NEW w \in Workers, WorkerStep(w)
        PROVE Promise!Next \/ UNCHANGED Promise!vars
    <2>1. ASSUME NEW r \in Refs, Claim(w, r) PROVE UNCHANGED Promise!vars
      <3>1. /\ job'.status = "processing"
            /\ job.status \in {"queued", "processing"}
            /\ job'.revision = job.revision /\ job'.payload = job.payload
            /\ chunks' = chunks
        BY <1>0, <2>1
        DEF Claim, Claimable, Dispatchable, Reclaimable, TypeOK, JobRow
      <3> QED
        BY <1>0, <3>1, Invisible
    <2>2. CASE Complete(w) /\ CanCommit(w)
      <3>1. /\ job'.status = "completed" /\ job.status = "processing"
            /\ job'.revision = job.revision /\ job'.payload = job.payload
            /\ chunks' = [version |-> job.revision, content |-> run[w].content]
        BY <1>0, <2>2 DEF Complete, CanCommit, JobDone, TypeOK, JobRow
      <3>2. run[w].content \in Contents /\ run[w].content \in Yields[job.payload]
        BY <2>2 DEF Complete, At, IInv, HolderIsCurrent, RunsArePrepared
      <3>3. Verdict = "pending" /\ Verdict' = "done"
        BY <1>0, <3>1 DEF Verdict
      <3> QED
        BY <3>1, <3>2, <3>3 DEF Promise!Next, Promise!Publish
    <2>3. CASE CompleteUnchanged(w) /\ CanCommit(w)
      <3>1. /\ job'.status = "completed" /\ job.status = "processing"
            /\ job'.revision = job.revision /\ job'.payload = job.payload
            /\ chunks' = chunks
        BY <1>0, <2>3 DEF CompleteUnchanged, CanCommit, JobDone, TypeOK, JobRow
      <3>2. chunks.content \in Yields[job.payload]
        BY <2>3 DEF CompleteUnchanged, At, IInv, HolderIsCurrent,
           RunsArePrepared, UnchangedVerdictFresh
      <3>3. Verdict = "pending" /\ Verdict' = "done"
        BY <1>0, <3>1 DEF Verdict
      <3> QED
        BY <3>1, <3>2, <3>3 DEF Promise!Next, Promise!ConfirmUnchanged
    <2>4. CASE RecordFailure(w) /\ CanCommit(w)
      <3> DEFINE status == IF job.attempts >= MaxAttempts THEN "failed" ELSE "queued"
      <3>1. /\ job' = [job EXCEPT !.status = status, !.token = None,
                                  !.lease = "none", !.due = FALSE]
            /\ chunks' = chunks /\ job.status = "processing"
        BY <2>4 DEF RecordFailure, CanCommit
      <3>2. status \in {"queued", "failed"}
        OBVIOUS
      <3> HIDE DEF status
      <3>3. /\ job'.status = status /\ job'.revision = job.revision
            /\ job'.payload = job.payload
        BY <1>0, <3>1 DEF TypeOK, JobRow
      <3>4. CASE status = "queued"
        BY <1>0, <3>1, <3>3, <3>4, Invisible
      <3>5. CASE status = "failed"
        BY <1>0, <3>1, <3>3, <3>5 DEF Verdict, Promise!Next, Promise!GiveUp
      <3> QED
        BY <3>2, <3>4, <3>5
    <2>5. ASSUME UNCHANGED <<job, source, chunks>> PROVE UNCHANGED Promise!vars
      BY <2>5 DEF Verdict, Promise!vars
    <2>6. \/ \E r \in Refs : Claim(w, r)
          \/ (Complete(w) \/ CompleteUnchanged(w) \/ RecordFailure(w)) /\ CanCommit(w)
          \/ UNCHANGED <<job, source, chunks>>
      BY <1>6
      DEF WorkerStep, Advance, SkipDelivery, Prepare, InsertText,
          InsertTextConflicts, StepFails, Complete, CompleteUnchanged,
          RecordFailure, Reject, Crash
    <2> QED
      BY <2>1, <2>2, <2>3, <2>4, <2>5, <2>6
  <1>7. CASE UNCHANGED vars
    BY <1>7 DEF vars, Verdict, Promise!vars
  <1> QED
    BY <1>1, <1>2, <1>3, <1>4, <1>5, <1>6, <1>7 DEF Next, Promise!Next

(* Queue, leases, crashes and retries are invisible from outside: the source *)
(* behaves as the abstract publication service.                              *)
THEOREM Refinement == Spec => ImplementsPublication
  BY RefinesInit, RefinesNext, InductiveInvariant, PTL
  DEF Spec, ImplementsPublication, Promise!Spec

-----------------------------------------------------------------------------
(* Chunks are only ever replaced by those of a newer revision. *)
LEMMA PublishesNewer ==
  IInv /\ [Next]_vars =>
    [chunks' # chunks => chunks'.version > chunks.version
                         \/ source'.status = "deleted"]_vars
  <1> SUFFICES ASSUME IInv, Next, chunks' # chunks
               PROVE  chunks'.version > chunks.version \/ source'.status = "deleted"
    BY DEF vars
  <1>1. CASE DeleteSource
    BY <1>1 DEF DeleteSource, NoSource
  <1>2. ASSUME NEW w \in Workers, Complete(w) PROVE chunks'.version > chunks.version
    <2>1. job.status = "processing" /\ chunks'.version = job.revision
      BY <1>2 DEF Complete, CanCommit
    <2>2. job.revision \in Nat /\ chunks.version \in Nat
      BY BoundAssumption DEF IInv, TypeOK, JobRow, ChunkRows
    <2> QED
      BY <2>1, <2>2 DEF IInv, ServedIsOlder
  <1>3. DeleteSource \/ \E w \in Workers : Complete(w)
    BY DEF Next, WorkerStep, Advance, Submit, SweepPending, LeaseRunsOut,
       BackoffElapses, QueueLoses, Stall, Claim, SkipDelivery, Prepare,
       InsertText, InsertTextConflicts, StepFails, CompleteUnchanged,
       RecordFailure, Reject, Crash
  <1> QED
    BY <1>1, <1>2, <1>3

(* No revision is published twice and none over a newer one. *)
THEOREM PublishedOnce == Spec => EachRevisionPublishedOnce
  BY InductiveInvariant, PublishesNewer, PTL DEF Spec, EachRevisionPublishedOnce
=============================================================================
