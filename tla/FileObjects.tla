---------------------------- MODULE FileObjects ----------------------------
(* The stored files of one organization: the file_objects rows, the bytes   *)
(* in the object storage, the clients that upload with a signed URL, the    *)
(* requests that finalize or stage a file, those that delete it, the        *)
(* cleanup sweep of the worker processes, and the row through which a file  *)
(* is reached (file_attachments, or the knowledge source of a RAW file).    *)
(*                                                                          *)
(* Every transaction is one action, and so is every call of the storage.    *)
(* The row is claimed by its status and written by its id alone.            *)
EXTENDS Naturals, FiniteSetsExt

CONSTANTS Objects,   \* ids of file objects
          Removers,  \* requests and sweeps that delete
          Class,     \* file_objects.storage_class of each
          Quota,     \* OBJECT_STORAGE_TENANT_QUOTA_BYTES; 0 is unlimited
          MaxSize,   \* bound on the size of a file
          MaxFaults, \* bound on crashes and failures while deleting
          MaxPuts,   \* bound on the PUTs of clients
          MayOverrun, \* may a finalization take longer than 15 minutes?
          None

ASSUME SizesAssumption == /\ Quota \in Nat /\ MaxFaults \in Nat /\ MaxPuts \in Nat
                          /\ MaxSize \in Nat \ {0}
ASSUME ObjectsAssumption == IsFiniteSet(Objects)
ASSUME ClassAssumption == Class \in [Objects -> {"ATTACHMENT", "RAW", "PROCESSED"}]
ASSUME OverrunAssumption == MayOverrun \in BOOLEAN

VARIABLES row,      \* the file_objects rows
          bytes,    \* how many bytes the storage holds under each key
          upload,   \* the signed URL of each file, and the PUTs it allows
          work,     \* the request that creates or finalizes each object
          removal,  \* what each remover is doing
          faults,   \* crashes and failures so far
          puts,     \* PUTs of clients so far
          link,     \* the attachment or source a file is reached through
          putAfter  \* history: what a PUT to each file came after

vars == <<row, bytes, upload, work, removal, faults, puts, link, putAfter>>

Reserving == {"PENDING_UPLOAD", "PROCESSING"}
Usable == {"UPLOADED", "READY"}
Status == Reserving \cup Usable
            \cup {"none", "FAILED", "EXPIRED", "DELETING", "DELETED"}
Sizes == 0..MaxSize
FinalStatusUnknown(o) == IF Class[o] = "RAW" THEN "COMPLETED" ELSE "READY" \* defect
FinalStatus(o) == IF Class[o] = "RAW" THEN "UPLOADED" ELSE "READY"

NoRow == [status |-> "none", size |-> 0, limit |-> 0, late |-> FALSE]
NoWork == [step |-> "idle", size |-> 0, staged |-> FALSE]
NoRemoval == [step |-> "idle", object |-> None, detach |-> FALSE]
Idle(m) == removal[m].step = "idle"

Rows == [status : Status, size : Sizes, limit : Sizes, late : BOOLEAN]
Works == [step : {"idle", "signing", "storing", "checking", "reading",
                  "recording", "undoing", "failing", "linking"},
          size : Sizes, staged : BOOLEAN]
Removals == [step : {"idle", "marking", "deleting", "recording", "detaching"},
             object : Objects \cup {None}, detach : BOOLEAN]

TypeOK ==
  /\ row \in [Objects -> Rows]
  /\ bytes \in [Objects -> Sizes]
  /\ upload \in [Objects -> {"none", "issued", "over"}]
  /\ work \in [Objects -> Works]
  /\ removal \in [Removers -> Removals]
  /\ \A m \in Removers : ~Idle(m) => removal[m].object \in Objects
  /\ faults \in 0..MaxFaults /\ puts \in 0..MaxPuts
  /\ link \in [Objects -> {"none", "READY", "DELETED"}]
  /\ putAfter \in [Objects -> SUBSET {"check", "deletion"}]

Init ==
  /\ row = [o \in Objects |-> NoRow]
  /\ bytes = [o \in Objects |-> 0]
  /\ upload = [o \in Objects |-> "none"]
  /\ work = [o \in Objects |-> NoWork]
  /\ removal = [m \in Removers |-> NoRemoval]
  /\ faults = 0 /\ puts = 0
  /\ link = [o \in Objects |-> "none"]
  /\ putAfter = [o \in Objects |-> {}]

Fault == faults < MaxFaults /\ faults' = faults + 1

-----------------------------------------------------------------------------
(* StorageQuotaService: usage is what the usable rows hold and the           *)
(* unfinished ones may come to hold; the advisory lock of the organization   *)
(* is kept until the reservation is inserted.                                *)
Counted(r) == CASE r.status \in Usable -> r.size
                [] r.status \in Reserving -> r.limit
                [] OTHER -> 0
Used == SumFunction([o \in Objects |-> Counted(row[o])])

CanReserve(n) == Quota = 0 \/ Used + n <= Quota

Reserve(o, n, status) ==
  /\ row[o].status = "none"
  /\ CanReserve(n)
  /\ row' = [row EXCEPT ![o] = [NoRow EXCEPT !.status = status, !.limit = n]]

(* createAttachmentUploadIntent and createKnowledgeUploadIntent; the route   *)
(* binds an attachment to its parent before it hands out the URL.            *)
CreateIntent(o, n) ==
  /\ Class[o] # "PROCESSED"
  /\ Reserve(o, n, "PENDING_UPLOAD")
  /\ work' = [work EXCEPT ![o].step = "signing"]
  /\ UNCHANGED <<bytes, upload, removal, faults, link, puts, putAfter>>

SignUrl(o) ==
  /\ work[o].step = "signing"
  /\ work' = [work EXCEPT ![o] = NoWork]
  /\ \/ /\ upload' = [upload EXCEPT ![o] = "issued"]
        /\ UNCHANGED row
     \/ /\ row' = [row EXCEPT ![o].status = "FAILED", ![o].late = FALSE]
        /\ UNCHANGED upload
  /\ UNCHANGED <<bytes, removal, faults, link, puts, putAfter>>

(* A PUT of the client.  The URL fixes the key and the type of the content   *)
(* and not its size; it serves any number of PUTs for as long as it is       *)
(* valid, whatever has become of the row.  (An empty body is, like one that  *)
(* is too large, something HEAD refuses.)                                    *)
Checked(o) == \/ work[o].step \in {"reading", "recording"}
              \/ row[o].status \in Usable
Leaving == {"DELETING", "DELETED"}
Put(o, n) ==
  /\ upload[o] = "issued"
  /\ puts < MaxPuts /\ puts' = puts + 1
  /\ bytes' = [bytes EXCEPT ![o] = n]
  /\ putAfter' = [putAfter EXCEPT ![o] = @
                    \cup (IF Checked(o) THEN {"check"} ELSE {})
                    \cup (IF row[o].status \in Leaving THEN {"deletion"} ELSE {})]
  /\ UNCHANGED <<row, upload, work, removal, faults, link>>

(* Its validity begins when it is signed, after expiresAt was computed, and  *)
(* so ends after the row is late; a PUT begun before that may end later.     *)
InTime(o) == row[o].status = "PENDING_UPLOAD" /\ ~row[o].late
UrlExpires(o) ==
  /\ upload[o] = "issued" /\ ~InTime(o)
  /\ upload' = [upload EXCEPT ![o] = "over"]
  /\ UNCHANGED <<row, bytes, work, removal, faults, link, puts, putAfter>>

-----------------------------------------------------------------------------
(* finalizeAttachmentUpload and finalizeKnowledgeUpload.                     *)
Claim(o) ==
  /\ upload[o] # "none"
  /\ InTime(o)
  /\ row' = [row EXCEPT ![o].status = "PROCESSING"]
  /\ work' = [work EXCEPT ![o].step = "checking"]
  /\ UNCHANGED <<bytes, upload, removal, faults, link, puts, putAfter>>

(* A knowledge upload finalized too late is marked as expired; an attachment *)
(* is only refused.                                                          *)
FinalizeExpired(o) ==
  /\ Class[o] = "RAW" /\ upload[o] # "none"
  /\ row[o].status = "PENDING_UPLOAD" /\ row[o].late
  /\ row' = [row EXCEPT ![o].status = "EXPIRED"]
  /\ UNCHANGED <<bytes, upload, work, removal, faults, link, puts, putAfter>>

(* A repeated finalization finds the file READY and only attaches it.        *)
FinalizeAgain(o) ==
  /\ Class[o] = "ATTACHMENT" /\ row[o].status = "READY"
  /\ work[o].step = "idle"
  /\ work' = [work EXCEPT ![o] = [NoWork EXCEPT !.step = "linking"]]
  /\ UNCHANGED <<row, bytes, upload, removal, faults, link, puts, putAfter>>

(* HEAD: a file that is absent, empty, larger than what was reserved for it  *)
(* or of another type is refused.                                            *)
AnySizeAccepted(o) == bytes[o] # 0 \* defect
SizeAccepted(o) == bytes[o] \in 1..row[o].limit
Head(o) ==
  /\ work[o].step = "checking"
  /\ \/ SizeAccepted(o) /\ work' = [work EXCEPT ![o].step = "reading"]
     \/ work' = [work EXCEPT ![o].step = "failing"]
  /\ UNCHANGED <<row, bytes, upload, removal, faults, link, puts, putAfter>>

(* GET: what is read now is what is examined, and counted, however much it   *)
(* is; it fails if the file is gone or its content is not what it claims.    *)
Get(o) ==
  /\ work[o].step = "reading"
  /\ \/ /\ bytes[o] # 0
        /\ work' = [work EXCEPT ![o].step = "recording", ![o].size = bytes[o]]
     \/ work' = [work EXCEPT ![o].step = "failing"]
  /\ UNCHANGED <<row, bytes, upload, removal, faults, link, puts, putAfter>>

(* The final status is written by id, whatever the status is by now.         *)
RecordUsable(o) ==
  /\ work[o].step = "recording"
  /\ row' = [row EXCEPT ![o].status = FinalStatus(o),
                        ![o].size = work[o].size, ![o].late = FALSE]
  /\ work' = [work EXCEPT ![o].step = "linking"]
  /\ UNCHANGED <<bytes, upload, removal, faults, link, puts, putAfter>>

RecordRefused(o) ==
  /\ work[o].step = "recording"
  /\ work' = [work EXCEPT ![o].step = IF work[o].staged THEN "undoing"
                                                        ELSE "failing"]
  /\ UNCHANGED <<row, bytes, upload, removal, faults, link, puts, putAfter>>

RecordFailed(o) ==
  /\ work[o].step = "failing"
  /\ row' = [row EXCEPT ![o].status = "FAILED", ![o].late = FALSE]
  /\ work' = [work EXCEPT ![o] = NoWork]
  /\ UNCHANGED <<bytes, upload, removal, faults, link, puts, putAfter>>

(* The file is attached (onConflictDoNothing), or its source submitted.      *)
Link(o) ==
  /\ work[o].step = "linking"
  /\ link' = [link EXCEPT ![o] = IF @ = "none" THEN "READY" ELSE @]
  /\ work' = [work EXCEPT ![o] = NoWork]
  /\ UNCHANGED <<row, bytes, upload, removal, faults, puts, putAfter>>

-----------------------------------------------------------------------------
(* stageKnowledgeUpload and storeProcessedText: the program uploads itself.  *)
Stage(o, n) ==
  /\ Class[o] # "ATTACHMENT"
  /\ Reserve(o, n, "PROCESSING")
  /\ work' = [work EXCEPT ![o] = [step |-> "storing", size |-> n, staged |-> TRUE]]
  /\ UNCHANGED <<bytes, upload, removal, faults, link, puts, putAfter>>

(* A PUT that fails may have stored the bytes.                               *)
Store(o) ==
  /\ work[o].step = "storing"
  /\ \/ /\ bytes' = [bytes EXCEPT ![o] = work[o].size]
        /\ work' = [work EXCEPT ![o].step = "recording"]
     \/ /\ bytes' \in {bytes, [bytes EXCEPT ![o] = work[o].size]}
        /\ work' = [work EXCEPT ![o].step = "undoing"]
  /\ UNCHANGED <<row, upload, removal, faults, link, puts, putAfter>>

(* The error of the compensating deletion is ignored.                        *)
Undo(o) ==
  /\ work[o].step = "undoing"
  /\ bytes' \in {bytes, [bytes EXCEPT ![o] = 0]}
  /\ work' = [work EXCEPT ![o].step = "failing"]
  /\ UNCHANGED <<row, upload, removal, faults, link, puts, putAfter>>

(* The process dies, or the last write of a failed attempt fails as well.    *)
Abandon(o) ==
  /\ work[o].step # "idle"
  /\ work' = [work EXCEPT ![o] = NoWork]
  /\ Fault
  /\ UNCHANGED <<row, bytes, upload, removal, link, puts, putAfter>>

-----------------------------------------------------------------------------
(* The clock passes expiresAt of a pending row, or the 15 minutes after      *)
(* which a PROCESSING row counts as stale.                                   *)
TimePasses(o) ==
  /\ row[o].status \in Reserving /\ ~row[o].late
  /\ work[o].step = "idle" \/ MayOverrun
  /\ row' = [row EXCEPT ![o].late = TRUE]
  /\ UNCHANGED <<bytes, upload, work, removal, faults, link, puts, putAfter>>

(* deleteForOrganization and its callers.                                    *)
DeleteAttachment(m, o) ==
  /\ Idle(m) /\ Class[o] = "ATTACHMENT" /\ link[o] = "READY"
  /\ removal' = [removal EXCEPT ![m] =
                   [step |-> "marking", object |-> o, detach |-> TRUE]]
  /\ UNCHANGED <<row, bytes, upload, work, faults, link, puts, putAfter>>

DeleteSource(m, o) ==
  /\ Idle(m) /\ Class[o] = "RAW" /\ link[o] = "READY"
  /\ link' = [link EXCEPT ![o] = "DELETED"]
  /\ removal' = [removal EXCEPT ![m] =
                   [step |-> "marking", object |-> o, detach |-> FALSE]]
  /\ UNCHANGED <<row, bytes, upload, work, faults, puts, putAfter>>

(* cleanupForOrganization lists its candidates and then deletes each.        *)
ReclaimableButDeleting(r) ==                                        \* defect
  (r.status \in Reserving /\ r.late) \/ r.status \in {"FAILED", "EXPIRED"}
ReclaimableAtOnce(r) == r.status \in Reserving \cup {"FAILED"}      \* defect
Reclaimable(r) == \/ r.status \in Reserving /\ r.late
                  \/ r.status \in {"FAILED", "DELETING", "EXPIRED"}
Cleanup(m, o) ==
  /\ Idle(m) /\ Reclaimable(row[o])
  /\ removal' = [removal EXCEPT ![m] =
                   [step |-> "marking", object |-> o, detach |-> FALSE]]
  /\ UNCHANGED <<row, bytes, upload, work, faults, link, puts, putAfter>>

Done(m) == [removal EXCEPT ![m] = NoRemoval]
MarkDeleting(m) ==
  LET o == removal[m].object IN
  /\ removal[m].step = "marking"
  /\ IF row[o].status = "DELETED"
     THEN removal' = Done(m) /\ UNCHANGED row
     ELSE /\ row' = [row EXCEPT ![o].status = "DELETING", ![o].late = FALSE]
          /\ removal' = [removal EXCEPT ![m].step = "deleting"]
  /\ UNCHANGED <<bytes, upload, work, faults, link, puts, putAfter>>

DeleteBytes(m) ==
  /\ removal[m].step = "deleting"
  /\ bytes' = [bytes EXCEPT ![removal[m].object] = 0]
  /\ removal' = [removal EXCEPT ![m].step = "recording"]
  /\ UNCHANGED <<row, upload, work, faults, link, puts, putAfter>>

GoesOnAnyway(m) ==          \* defect: the failure of the storage is ignored
  /\ removal[m].step = "deleting"
  /\ removal' = [removal EXCEPT ![m].step = "recording"]
  /\ UNCHANGED <<row, bytes, upload, work, faults, link, puts, putAfter>>
DeleteBytesFails(m) ==
  /\ removal[m].step = "deleting"
  /\ bytes' \in {bytes, [bytes EXCEPT ![removal[m].object] = 0]}
  /\ removal' = Done(m)
  /\ Fault
  /\ UNCHANGED <<row, upload, work, link, puts, putAfter>>

RecordDeleted(m) ==
  /\ removal[m].step = "recording"
  /\ row' = [row EXCEPT ![removal[m].object].status = "DELETED"]
  /\ removal' = IF removal[m].detach
                THEN [removal EXCEPT ![m].step = "detaching"] ELSE Done(m)
  /\ UNCHANGED <<bytes, upload, work, faults, link, puts, putAfter>>

Detach(m) ==
  /\ removal[m].step = "detaching"
  /\ link' = [link EXCEPT ![removal[m].object] = "DELETED"]
  /\ removal' = Done(m)
  /\ UNCHANGED <<row, bytes, upload, work, faults, puts, putAfter>>

RemoverDies(m) ==
  /\ ~Idle(m)
  /\ removal' = Done(m)
  /\ Fault
  /\ UNCHANGED <<row, bytes, upload, work, link, puts, putAfter>>

-----------------------------------------------------------------------------
Work(o) == \/ SignUrl(o) \/ Head(o) \/ Get(o) \/ RecordUsable(o) \/ RecordRefused(o)
           \/ RecordFailed(o) \/ Link(o) \/ Store(o) \/ Undo(o)
Remove(m) == MarkDeleting(m) \/ DeleteBytes(m) \/ RecordDeleted(m) \/ Detach(m)

Next ==
  \/ \E o \in Objects :
       \/ \E n \in 1..MaxSize : CreateIntent(o, n) \/ Stage(o, n) \/ Put(o, n)
       \/ UrlExpires(o) \/ Claim(o) \/ FinalizeExpired(o) \/ FinalizeAgain(o)
       \/ Work(o) \/ Abandon(o) \/ TimePasses(o)
  \/ \E m \in Removers :
       \/ Remove(m) \/ DeleteBytesFails(m) \/ RemoverDies(m)
       \/ \E o \in Objects :
            DeleteAttachment(m, o) \/ DeleteSource(m, o) \/ Cleanup(m, o)

Spec == Init /\ [][Next]_vars

(* Requests go on unless their process dies; the sweep runs every minute     *)
(* (by default) for ever, and reaches every file although users delete       *)
(* others.                                                                   *)
(* MaxFaults says that storage and processes do not fail for ever.           *)
FairSpec ==
  /\ Spec
  /\ \A o \in Objects : /\ WF_vars(Work(o)) /\ WF_vars(TimePasses(o))
                        /\ SF_vars(\E m \in Removers : Cleanup(m, o))
  /\ \A m \in Removers : WF_vars(Remove(m))

-----------------------------------------------------------------------------
(* What the organization's usable files hold and its unfinished ones may     *)
(* come to hold never exceeds the quota, except by what a client adds to a   *)
(* file with another PUT after HEAD accepted it.                             *)
Share(o) == IF "check" \in putAfter[o] /\ Counted(row[o]) > row[o].limit
            THEN row[o].limit ELSE Counted(row[o])
QuotaRespected ==
  Quota = 0 \/ SumFunction([o \in Objects |-> Share(o)]) <= Quota

(* A usable file is never without bytes, as no cleanup or deletion takes     *)
(* them before the row says so; they are those its row counts, unless its    *)
(* client PUT it again after HEAD accepted it.                               *)
UsableHasBytes ==
  \A o \in Objects : row[o].status \in Usable =>
    bytes[o] # 0 /\ ("check" \in putAfter[o] \/ bytes[o] = row[o].size)

(* Bytes are not forgotten: whatever the storage holds has a row that is     *)
(* usable or still to be cleaned up, unless its client PUT it again while    *)
(* the row was being deleted, or later.                                      *)
NoOrphans ==
  \A o \in Objects :
    bytes[o] # 0 /\ row[o].status \in {"none", "DELETED"}
      => "deletion" \in putAfter[o]

(* Not so, of a client that PUTs again with the same URL: what the usable    *)
(* files count is within the quota, their bytes are those that were checked, *)
(* and a deleted file has none.                                              *)
OnlyReservedIsCounted == Quota = 0 \/ Used <= Quota
CheckedBytesStay ==
  \A o \in Objects : row[o].status \in Usable => bytes[o] = row[o].size
DeletedIsGone == \A o \in Objects : row[o].status = "DELETED" => bytes[o] = 0

(* Every file ends usable or deleted, though requests die, storage fails and *)
(* uploads are never finalized.                                              *)
FilesSettle ==
  \A o \in Objects :
    row[o].status # "none" ~> row[o].status \in Usable \cup {"DELETED"}
=============================================================================
