----------------------------- MODULE Ingestion -----------------------------
(* Ingestion of ONE knowledge source: the knowledge_ingestion_jobs row, the *)
(* source row with its chunks, the file_objects keys of processed text, the *)
(* BullMQ queue that carries references to the job, and the worker slots    *)
(* that run IngestionJobService.process.  Sources share no ingestion state, *)
(* so one of them is the whole component.                                   *)
(*                                                                          *)
(* Every database transaction is one action; everything the code awaits     *)
(* between two transactions separates two actions.  leaseUntil and          *)
(* nextAttemptAt are kept as what the code compares them for: whether the   *)
(* lease has run out and whether the job is due.                            *)
EXTENDS Naturals, FiniteSets

CONSTANTS Workers,      \* worker slots (processes times concurrency)
          Payloads,     \* inputs that users and recrawls submit
          Contents,     \* results of preparing an input
          Yields,       \* payload -> the results it may be prepared into
          Kind,         \* knowledge_sources.type
          MaxAttempts,  \* MAX_INGESTION_ATTEMPTS
          MaxRevision,  \* bound on submissions, for model checking
          None

ASSUME WorkersAssumption == None \notin Workers
ASSUME ContentAssumption ==
  /\ None \notin Contents
  /\ None \notin Payloads
  /\ Yields \in [Payloads -> SUBSET Contents]
ASSUME KindAssumption == Kind \in {"document", "faq", "pdf", "website"}
ASSUME BoundAssumption == MaxAttempts \in Nat \ {0} /\ MaxRevision \in Nat

VARIABLES job,        \* the knowledge_ingestion_jobs row
          source,     \* the knowledge_sources row
          chunks,     \* version and content of its document_chunks
          textKeys,   \* revisions whose processed-text storage_key has a row
          queue,      \* BullMQ: state of each reference's queue job
          run         \* what each worker slot is doing

vars == <<job, source, chunks, textKeys, queue, run>>

JobStatus == {"none", "queued", "processing", "completed", "failed"}
Leases == {"none", "live", "expired"}
QueueStates == {"absent", "waiting", "active", "finished"}
Steps == {"idle", "preparing", "storing", "completing", "unchanged", "failing"}

(* A reference names the attempt it is allowed to make (ingestionQueueId). *)
Refs == [revision : 1..MaxRevision, attempt : 0..MaxAttempts]
RefOf(j) == [revision |-> j.revision, attempt |-> j.attempts]

NoJob == [status |-> "none", revision |-> 0, attempts |-> 0, token |-> None,
          lease |-> "none", due |-> FALSE, payload |-> None]
NoSource == [status |-> "none", currentRevision |-> 0, hash |-> None]
NoChunks == [version |-> 0, content |-> None]
NoRun == [step |-> "idle", revision |-> 0, attempt |-> 0,
          payload |-> None, content |-> None]

JobRow == [status : JobStatus, revision : 0..MaxRevision,
           attempts : 0..MaxAttempts, token : Workers \cup {None},
           lease : Leases, due : BOOLEAN, payload : Payloads \cup {None}]
SourceRow == [status : JobStatus \cup {"deleted"},
              currentRevision : 0..MaxRevision, hash : Contents \cup {None}]
ChunkRows == [version : 0..MaxRevision, content : Contents \cup {None}]
Runs == [step : Steps, revision : 0..MaxRevision, attempt : 0..MaxAttempts,
         payload : Payloads \cup {None}, content : Contents \cup {None}]

TypeOK ==
  /\ job \in JobRow
  /\ job.status # "none" => job.revision > 0 /\ job.payload \in Payloads
  /\ source \in SourceRow
  /\ chunks \in ChunkRows
  /\ textKeys \subseteq 0..MaxRevision
  /\ queue \in [Refs -> QueueStates]
  /\ run \in [Workers -> Runs]
  /\ \A w \in Workers : run[w].step # "idle" => run[w].payload \in Payloads

Init ==
  /\ job = NoJob
  /\ source = NoSource
  /\ chunks = NoChunks
  /\ textKeys = {}
  /\ queue = [r \in Refs |-> "absent"]
  /\ run = [w \in Workers |-> NoRun]

-----------------------------------------------------------------------------
(* publishIngestion: a queue job with this identity that has finished is     *)
(* removed first; one that waits or runs makes the add a no-op.  Redis may   *)
(* be unreachable, and the call may be lost with its process.                *)
PublishedUnlessKnown(r) ==  \* defect: a finished queue job is not removed
  [queue EXCEPT ![r] = IF @ = "absent" THEN "waiting" ELSE @]
Published(r) ==
  [queue EXCEPT ![r] = IF @ = "active" THEN "active" ELSE "waiting"]
MayPublish(r) == queue' \in {queue, Published(r)}

(* Submissions: an upload, an edit, a reprocess or a recrawl.  The last two  *)
(* read the stored payload in an earlier transaction, so any payload may     *)
(* arrive late.  The reference is published by a call nobody awaits: one     *)
(* that reaches the queue late is either still current, and then the sweep   *)
(* offers the same one, or stale, and then its delivery changes nothing.     *)
Submit(p) ==
  /\ source.status # "deleted"
  /\ job.revision < MaxRevision
  /\ job' = [status |-> "queued", revision |-> job.revision + 1,
             attempts |-> 0, token |-> None, lease |-> "none", due |-> TRUE,
             payload |-> p]
  /\ source' = [source EXCEPT !.status = "queued",
                              !.currentRevision = job.revision + 1]
  /\ MayPublish([revision |-> job.revision + 1, attempt |-> 0])
  /\ UNCHANGED <<chunks, textKeys, run>>

(* Deleting the source cascades to its job and its chunks; queue entries and *)
(* running workers are not told.                                             *)
DeleteSource ==
  /\ job.status # "none"
  /\ job' = NoJob
  /\ source' = [NoSource EXCEPT !.status = "deleted"]
  /\ chunks' = NoChunks
  /\ UNCHANGED <<textKeys, queue, run>>

-----------------------------------------------------------------------------
(* Dispatch: the periodic sweep of the worker process and BullMQ.            *)

Reclaimable(j) == j.status = "processing" /\ j.lease = "expired"
Dispatchable(j) ==
  /\ j.attempts < MaxAttempts
  /\ j.due
  /\ j.status = "queued" \/ Reclaimable(j)

Exhausted(j) == Reclaimable(j) /\ j.attempts >= MaxAttempts

GiveUpJobOnly ==  \* defect: the source row is forgotten
  /\ job' = [job EXCEPT !.status = "failed", !.token = None, !.lease = "none"]
  /\ UNCHANGED source
GiveUp ==
  /\ job' = [job EXCEPT !.status = "failed", !.token = None, !.lease = "none"]
  /\ source' = [source EXCEPT !.status = "failed"]

(* pending(): give up on interrupted last attempts, list what may run. *)
SweepPending ==
  /\ IF Exhausted(job) THEN GiveUp ELSE UNCHANGED <<job, source>>
  /\ IF Dispatchable(job) THEN MayPublish(RefOf(job)) ELSE UNCHANGED queue
  /\ UNCHANGED <<chunks, textKeys, run>>

(* Redis forgets a waiting job. *)
QueueLoses(r) ==
  /\ queue[r] = "waiting"
  /\ queue' = [queue EXCEPT ![r] = "absent"]
  /\ UNCHANGED <<job, source, chunks, textKeys, run>>

RunsRef(w, r) ==
  run[w].step # "idle" /\ run[w].revision = r.revision
                       /\ run[w].attempt = r.attempt

(* BullMQ takes an active job whose lock lapsed for stalled: it is delivered *)
(* again, or failed when it stalled before.                                  *)
Stall(r) ==
  /\ queue[r] = "active"
  /\ \E s \in {"waiting", "finished"} : queue' = [queue EXCEPT ![r] = s]
  /\ UNCHANGED <<job, source, chunks, textKeys, run>>

LeaseRunsOut ==
  /\ job.lease = "live"
  /\ job' = [job EXCEPT !.lease = "expired"]
  /\ UNCHANGED <<source, chunks, textKeys, queue, run>>

BackoffElapses ==
  /\ job.status = "queued"
  /\ ~job.due
  /\ job' = [job EXCEPT !.due = TRUE]
  /\ UNCHANGED <<source, chunks, textKeys, queue, run>>

-----------------------------------------------------------------------------
(* A worker slot runs process(ref).  It runs one call at a time, so the slot *)
(* itself stands for the random lease token of the call it runs.             *)

CanCommitByStatus(w) ==    \* defect: only the status is looked at
  job.status = "processing"
CanCommitByRevision(w) ==  \* defect: only the revision is looked at
  job.revision = run[w].revision
CanCommit(w) ==
  /\ job.status = "processing"
  /\ job.revision = run[w].revision
  /\ job.token = w

Claimable(r) == Dispatchable(job) /\ RefOf(job) = r

Deliver(w, r) == run[w].step = "idle" /\ queue[r] = "waiting"

Claim(w, r) ==
  /\ Deliver(w, r)
  /\ Claimable(r)
  /\ job' = [job EXCEPT !.status = "processing", !.token = w,
                        !.lease = "live", !.attempts = @ + 1]
  /\ source' = [source EXCEPT !.status = "processing"]
  /\ run' = [run EXCEPT ![w] = [step |-> "preparing", revision |-> r.revision,
                                attempt |-> r.attempt, payload |-> job.payload,
                                content |-> None]]
  /\ queue' = [queue EXCEPT ![r] = "active"]
  /\ UNCHANGED <<chunks, textKeys>>

(* A reference to an older revision or attempt, or one that is not due.      *)
SkipDelivery(w, r) ==
  /\ Deliver(w, r)
  /\ ~Claimable(r)
  /\ queue' = [queue EXCEPT ![r] = "finished"]
  /\ UNCHANGED <<job, source, chunks, textKeys, run>>

At(w, step) == run[w].step = step
GoTo(w, step) == run' = [run EXCEPT ![w].step = step]

(* process() returns or rejects: BullMQ records its job as over, unless the  *)
(* lock was lost in between.                                                 *)
Return(w) ==
  /\ run' = [run EXCEPT ![w] = NoRun]
  /\ queue' = [r \in Refs |->
       IF RunsRef(w, r) /\ queue[r] = "active" THEN "finished" ELSE queue[r]]

(* Crawl or parse, split and embed: no transaction, and as long as it takes. *)
(* A website whose crawl ends in the stored hash takes the unchanged path.   *)
Prepare(w) ==
  /\ At(w, "preparing")
  /\ \E c \in Yields[run[w].payload] :
       run' = [run EXCEPT ![w].content = c,
                          ![w].step = IF Kind = "website" /\ source.hash = c
                                        THEN "unchanged" ELSE "storing"]
  /\ UNCHANGED <<job, source, chunks, textKeys, queue>>

(* storeProcessedText inserts a row under a key made of source and revision; *)
(* rows are never removed and the key is unique.                             *)
InsertText(w) ==
  /\ At(w, "storing")
  /\ run[w].revision \notin textKeys
  /\ textKeys' = textKeys \cup {run[w].revision}
  /\ GoTo(w, "completing")
  /\ UNCHANGED <<job, source, chunks, queue>>

InsertTextConflicts(w) ==
  /\ At(w, "storing")
  /\ run[w].revision \in textKeys
  /\ GoTo(w, "failing")
  /\ UNCHANGED <<job, source, chunks, textKeys, queue>>

(* The crawl, the embedding provider, the database, the storage quota or the *)
(* object store fails; process() catches it.                                 *)
StepFails(w) ==
  /\ run[w].step \in {"preparing", "storing", "completing"}
  /\ GoTo(w, "failing")
  /\ UNCHANGED <<job, source, chunks, textKeys, queue>>

JobDoneUnlisted ==  \* defect: a status nobody looks for
  [job EXCEPT !.status = "done", !.token = None, !.lease = "none"]
JobDone == [job EXCEPT !.status = "completed", !.token = None, !.lease = "none"]

(* complete(): replace the chunks and settle the job, or leave everything to *)
(* whoever superseded this run.                                              *)
Complete(w) ==
  /\ At(w, "completing")
  /\ IF CanCommit(w)
       THEN /\ chunks' = [version |-> run[w].revision,
                          content |-> run[w].content]
            /\ source' = [source EXCEPT !.status = "completed",
                                        !.hash = run[w].content]
            /\ job' = JobDone
       ELSE UNCHANGED <<job, source, chunks>>
  /\ Return(w)
  /\ UNCHANGED <<textKeys>>

(* completeUnchangedWebsite(): the revision before this run's becomes the    *)
(* current one again.                                                        *)
CompleteUnchanged(w) ==
  /\ At(w, "unchanged")
  /\ IF CanCommit(w)
       THEN /\ source' = [source EXCEPT !.status = "completed",
                                        !.currentRevision = run[w].revision - 1]
            /\ job' = JobDone
       ELSE UNCHANGED <<job, source>>
  /\ Return(w)
  /\ UNCHANGED <<chunks, textKeys>>

(* The catch block: back to the queue with a delay, or failed for good. *)
RecordFailure(w) ==
  /\ At(w, "failing")
  /\ LET status == IF job.attempts >= MaxAttempts THEN "failed" ELSE "queued"
     IN IF CanCommit(w)
          THEN /\ job' = [job EXCEPT !.status = status, !.token = None,
                                     !.lease = "none", !.due = FALSE]
               /\ source' = [source EXCEPT !.status = status]
          ELSE UNCHANGED <<job, source>>
  /\ Return(w)
  /\ UNCHANGED <<chunks, textKeys>>

(* process() rejects: the catch block's own transaction fails, or that of    *)
(* completeUnchangedWebsite, whose promise is returned without being awaited *)
(* and so escapes the catch block.                                           *)
Reject(w) ==
  /\ run[w].step \in {"failing", "unchanged"}
  /\ Return(w)
  /\ UNCHANGED <<job, source, chunks, textKeys>>

(* The worker process dies; its queue job stays active until it stalls. *)
Crash(w) ==
  /\ ~At(w, "idle")
  /\ run' = [run EXCEPT ![w] = NoRun]
  /\ UNCHANGED <<job, source, chunks, textKeys, queue>>

-----------------------------------------------------------------------------
Advance(w) ==
  \/ Prepare(w) \/ InsertText(w) \/ InsertTextConflicts(w)
  \/ Complete(w) \/ CompleteUnchanged(w)
  \/ RecordFailure(w)

WorkerStep(w) ==
  \/ \E r \in Refs : Claim(w, r) \/ SkipDelivery(w, r)
  \/ Advance(w) \/ StepFails(w) \/ Reject(w) \/ Crash(w)

Next ==
  \/ \E p \in Payloads : Submit(p)
  \/ DeleteSource
  \/ SweepPending
  \/ LeaseRunsOut
  \/ BackoffElapses
  \/ \E r \in Refs : QueueLoses(r) \/ Stall(r)
  \/ \E w \in Workers : WorkerStep(w)

Spec == Init /\ [][Next]_vars

(* The clock advances; the sweep runs every ten seconds, and a reference it  *)
(* offers again and again gets through to Redis; waiting jobs are delivered  *)
(* when some slot keeps becoming free; a stalled job is noticed; a slot that *)
(* took a job goes on with it unless it dies.                                *)
Orphaned(r) == ~ \E w \in Workers : RunsRef(w, r)
Offer == SweepPending /\ Dispatchable(job) /\ queue' = Published(RefOf(job))

Fairness ==
  /\ WF_vars(LeaseRunsOut)
  /\ WF_vars(BackoffElapses)
  /\ WF_vars(SweepPending /\ Exhausted(job))
  /\ SF_vars(Offer)
  /\ \A r \in Refs :
       /\ WF_vars(Orphaned(r) /\ Stall(r))
       /\ SF_vars(\E w \in Workers : Claim(w, r) \/ SkipDelivery(w, r))
  /\ \A w \in Workers : WF_vars(Advance(w))

FairSpec == Spec /\ Fairness

-----------------------------------------------------------------------------
(* The job row and the source row are written by different statements in     *)
(* eight places; whatever the interleaving, they tell the same story.        *)
JobAndSourceAgree == source.status = "deleted" \/ source.status = job.status

(* A worker that still holds the lease of the current revision works from    *)
(* the payload of that revision: nothing it read at its claim went stale     *)
(* while it crawled and embedded.                                            *)
HolderIsCurrent ==
  \A w \in Workers :
    ~At(w, "idle") /\ CanCommit(w) => run[w].payload = job.payload

(* The unchanged verdict is about the content that is served when the        *)
(* verdict is committed, not only when the hashes were compared.             *)
UnchangedVerdictFresh ==
  \A w \in Workers :
    At(w, "unchanged") /\ CanCommit(w) => chunks.content = run[w].content

(* A leased job has a holder and a clock that will free it; a job that is    *)
(* not leased names no holder who could still commit.                        *)
LeaseDiscipline ==
  /\ job.status = "processing" <=> job.token # None
  /\ job.status = "processing" <=> job.lease # "none"
  /\ job.status = "processing" => job.attempts > 0 /\ job.due

(* Served chunks are replaced only by a newer revision, so a replayed queue  *)
(* job, a second worker or a late answer never publishes a revision twice    *)
(* or an old one over a new one.  Deleting the source removes them.          *)
EachRevisionPublishedOnce ==
  [][chunks' # chunks => chunks'.version > chunks.version
                         \/ source'.status = "deleted"]_vars

(* Every accepted submission is settled: completed, failed, superseded or    *)
(* deleted, whatever Redis loses and wherever workers die.                   *)
SubmissionsSettle ==
  job.status \in {"queued", "processing"}
    ~> job.status \notin {"queued", "processing"}

Verdict ==
  IF source.status = "deleted" THEN "deleted"
  ELSE IF job.status \in {"queued", "processing"} THEN "pending"
  ELSE IF job.status = "completed" THEN "done" ELSE job.status

Promise == INSTANCE Publication
  WITH wanted <- job.revision, payload <- job.payload, verdict <- Verdict,
       served <- chunks

(* The whole machinery implements the abstract publication service. *)
ImplementsPublication == Promise!Spec

-----------------------------------------------------------------------------
(* Claims found in the repository that the code does not keep. *)

(* A crawl that finds nothing new keeps the revision of the content. *)
UnchangedKeepsContentRevision ==
  source.status = "completed" => source.currentRevision = chunks.version

(* A persisted attempt can still succeed: its processed text has a free key. *)
RetryCanStoreItsText ==
  \A w \in Workers : At(w, "storing") /\ CanCommit(w)
                       => run[w].revision \notin textKeys
=============================================================================
