---------------------------- MODULE EvidenceArchive ----------------------------
(***************************************************************************)
(* The archive of what was asked of the cloud: each record has a directory *)
(* on disk, a copy in the bucket and a row in the index.  Calls record     *)
(* while synchronizations upload and download, one at a time, and register *)
(* what they found, at the same time.  A directory is its metadata, on     *)
(* disk and in the bucket: the other files of a record never change, and   *)
(* whether they arrived nobody asks.                                       *)
(***************************************************************************)
EXTENDS Naturals, Sequences, FiniteSets

CONSTANTS
    Records,          \* the evidence ids, each drawn anew
    S3Enabled,        \* an output URI and both keys are configured
    MaxSyncs, MaxArchiveFaults   \* bounds: synchronizations, failing disks and uploads

VARIABLES
    local,            \* s3_status in the metadata on disk of each record
    bucket,           \* s3_status in the metadata in the bucket
    index,            \* the ids of the rows of nebius/evidence.jsonl
    lockHeld,         \* _ARCHIVE_LOCK is held by a synchronization
    sync, todo,       \* the step of each synchronization and its records
    archiveFaults

archiveVars == <<local, bucket, index, lockHeld, sync, todo, archiveFaults>>

\* The synchronizations, in the order in which they take the lock.
Syncs == 1 .. MaxSyncs

OnDisk == {r \in Records : local[r] # "none"}
IsRegistered(r) == \E i \in DOMAIN index : index[i] = r
Fault == archiveFaults < MaxArchiveFaults /\ archiveFaults' = archiveFaults + 1

\* mutant: the index is not read before a row is added
RegisteredUnread(r) == Append(index, r)
\* _register: read and append under the lock.
Registered(r) == IF IsRegistered(r) THEN index ELSE Append(index, r)

Register(r) == ~lockHeld /\ index' = Registered(r)

-----------------------------------------------------------------------------
(* record, step by step *)

\* The metadata tells that the record is uploaded before it is.
WriteRecord(r) ==
    /\ local' = [local EXCEPT ![r] = IF S3Enabled THEN "uploaded" ELSE "local_only"]
    /\ UNCHANGED <<bucket, index, lockHeld, sync, todo, archiveFaults>>

DiskFails(r) ==
    /\ Fault
    /\ UNCHANGED <<local, bucket, index, lockHeld, sync, todo>>

UploadDone(r) ==
    /\ bucket' = [bucket EXCEPT ![r] = local[r]]
    /\ UNCHANGED <<local, index, lockHeld, sync, todo, archiveFaults>>

\* The metadata may have arrived, and other files not; the metadata on disk is written again.
UploadFails(r) ==
    /\ Fault
    /\ bucket' \in {bucket, [bucket EXCEPT ![r] = local[r]]}
    /\ local' = [local EXCEPT ![r] = "upload_failed"]
    /\ UNCHANGED <<index, lockHeld, sync, todo>>

\* The command is stopped after 300 seconds: nothing is written again.
UploadTimesOut(r) ==
    /\ Fault
    /\ bucket' \in {bucket, [bucket EXCEPT ![r] = local[r]]}
    /\ UNCHANGED <<local, index, lockHeld, sync, todo>>

RegisterRecord(r) ==
    /\ Register(r)
    /\ UNCHANGED <<local, bucket, lockHeld, sync, todo, archiveFaults>>

-----------------------------------------------------------------------------
(* sync *)

Pending == {r \in OnDisk : local[r] # "uploaded"}

Proceeds(s, step, records) == sync' = [sync EXCEPT ![s] = step] /\ todo' = [todo EXCEPT ![s] = records]

\* Without a bucket a synchronization counts the records and changes nothing.
SyncBegin(s) ==
    /\ sync[s] = "idle" /\ \A t \in Syncs : t < s => sync[t] # "idle"
    /\ ~lockHeld /\ S3Enabled
    /\ lockHeld' = TRUE
    /\ Proceeds(s, "uploading", Pending)
    /\ UNCHANGED <<local, bucket, index, archiveFaults>>

\* Upload, tell so in the metadata, upload again.
SyncUpload(s, r) ==
    /\ sync[s] = "uploading" /\ r \in todo[s]
    /\ local' = [local EXCEPT ![r] = "uploaded"]
    /\ bucket' = [bucket EXCEPT ![r] = local[r]]
    /\ Proceeds(s, "confirming", todo[s])
    /\ UNCHANGED <<index, lockHeld, archiveFaults>>

SyncConfirm(s, r) ==
    /\ sync[s] = "confirming" /\ r \in todo[s] /\ local[r] = "uploaded"
    /\ bucket' = [bucket EXCEPT ![r] = "uploaded"]
    /\ Proceeds(s, "uploading", todo[s] \ {r})
    /\ UNCHANGED <<local, index, lockHeld, archiveFaults>>

\* mutant: the lock is not released when a command fails
SyncFailsLocked(s) ==
    /\ sync[s] \in {"uploading", "confirming"} /\ Fault
    /\ Proceeds(s, "failed", {})
    /\ UNCHANGED <<local, bucket, index, lockHeld>>
\* Whatever fails ends the synchronization; the lock is released.
SyncFails(s) ==
    /\ sync[s] \in {"uploading", "confirming"} /\ Fault
    /\ Proceeds(s, "failed", {}) /\ lockHeld' = FALSE
    /\ UNCHANGED <<local, bucket, index>>

\* The whole bucket comes down: what differs is overwritten.
SyncDownload(s) ==
    /\ sync[s] = "uploading" /\ todo[s] = {}
    /\ local' = [r \in Records |-> IF bucket[r] = "none" THEN local[r] ELSE bucket[r]]
    /\ Proceeds(s, "listing", {}) /\ lockHeld' = FALSE
    /\ UNCHANGED <<bucket, index, archiveFaults>>

\* The records are listed again once the lock is released, and registered one by
\* one; when there is none left the synchronization is over.
SyncList(s) ==
    /\ sync[s] = "listing"
    /\ Proceeds(s, "registering", OnDisk)
    /\ UNCHANGED <<local, bucket, index, lockHeld, archiveFaults>>

SyncRegister(s, r) ==
    /\ sync[s] = "registering" /\ r \in todo[s] /\ Register(r)
    /\ Proceeds(s, "registering", todo[s] \ {r})
    /\ UNCHANGED <<local, bucket, lockHeld, archiveFaults>>

SyncStep(s) ==
    \/ SyncFails(s) \/ SyncDownload(s) \/ SyncList(s)
    \/ \E r \in Records : SyncUpload(s, r) \/ SyncConfirm(s, r) \/ SyncRegister(s, r)

ArchiveInit ==
    /\ local = [r \in Records |-> "none"] /\ bucket = [r \in Records |-> "none"]
    /\ index = <<>> /\ lockHeld = FALSE /\ archiveFaults = 0
    /\ sync = [s \in Syncs |-> "idle"] /\ todo = [s \in Syncs |-> {}]
=============================================================================
