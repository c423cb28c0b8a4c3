------------------------------- MODULE Storage -------------------------------
(***************************************************************************)
(* Asterloom.Module.Storage: buckets, objects and upload sessions in       *)
(* PostgreSQL, their bytes in an S3 store.                                 *)
(*                                                                         *)
(* Every operation of StorageManagementService reads rows one statement at *)
(* a time, may touch the bytes, and ends in one transaction that writes    *)
(* back what it read, changed, wherever the version columns are still what *)
(* they were.  Those statements and byte operations are the steps here; a  *)
(* caller is a request being served and keeps its own copies of the rows.  *)
(*                                                                         *)
(* An element of Objects is a fresh object id: its bucket, key and size    *)
(* are given by CONSTANTS because they never change once chosen.  Clients  *)
(* write bytes through a presigned URL, as often as they like until it     *)
(* expires.  bytes[o] compares them with what was declared: "good" matches *)
(* in size, hash and content type, "bad" does not.                         *)
(***************************************************************************)
EXTENDS Naturals, FiniteSets

CONSTANTS
  Buckets, Objects, Callers,
  BucketOf,   \* object id -> its bucket
  KeyOf,      \* object id -> its object key
  SizeOf,     \* object id -> its declared size
  Quotas,     \* quotas an administrator sets
  MaxCalls,   \* bound: requests served
  None

ASSUME ObjectsAreFinite == IsFiniteSet(Objects)
ASSUME BucketOfType == BucketOf \in [Objects -> Buckets]
ASSUME SizeOfType == SizeOf \in [Objects -> Nat \ {0}]
ASSUME QuotasType == Quotas \subseteq Nat \ {0}
ASSUME MaxCallsType == MaxCalls \in Nat
ASSUME NoneIsNothing == None \notin Buckets \cup Objects

VARIABLES
  (* tables *)
  bucket, object, session,
  (* the object store and its tickets *)
  bytes,
  live,          \* objects whose upload session and ticket have not expired
  (* requests being served *)
  pc,
  job,           \* what the request is about
  seenBucket, seenObject, seenSession,   \* the rows as the request read them
  (* observation *)
  calls,         \* requests so far
  latePut,       \* objects whose ticket was used after the upload was settled
  interrupted    \* objects whose request was cut short

tables == <<bucket, object, session>>
store == <<bytes, live>>
requests == <<pc, job, seenBucket, seenObject, seenSession>>
history == <<calls, latePut, interrupted>>
vars == <<tables, store, requests, history>>

BucketRow == [status : {"absent", "Active", "Archived"}, quota : Nat,
              used : Nat, reserved : Nat, count : Nat, version : Nat]
ObjectRow == [status : {"absent", "Pending", "Available", "Failed", "Deleted"}, version : Nat]
SessionRow == [status : {"absent", "Pending", "Completed", "Failed", "Expired"}, version : Nat]
Job == [bucket : Buckets \cup {None}, object : Objects \cup {None},
        source : Objects \cup {None}, quota : Nat]

Creating == {"create_key", "create_commit"}
Completing == {"complete_session", "complete_object", "complete_inspect", "complete_discard",
               "complete_commit", "complete_fail", "complete_expire"}
Copying == {"copy_target", "copy_key", "copy_bytes", "copy_commit", "copy_discard"}
Deleting == {"delete_object", "delete_bytes", "delete_commit"}
Editing == {"metadata_object", "metadata_commit"}
Administering == {"update_commit", "archive_list", "archive_commit", "restore_commit"}
Step == {"idle"} \cup Creating \cup Completing \cup Copying \cup Deleting \cup Editing \cup Administering

NoJob == [bucket |-> None, object |-> None, source |-> None, quota |-> 0]
NoBucket == [status |-> "absent", quota |-> 0, used |-> 0, reserved |-> 0, count |-> 0, version |-> 0]
NoRow == [status |-> "absent", version |-> 0]

TypeOK ==
  /\ bucket \in [Buckets -> BucketRow]
  /\ object \in [Objects -> ObjectRow]
  /\ session \in [Objects -> SessionRow]
  /\ bytes \in [Objects -> {"none", "good", "bad"}]
  /\ live \subseteq Objects
  /\ pc \in [Callers -> Step]
  /\ job \in [Callers -> Job]
  /\ seenBucket \in [Callers -> BucketRow]
  /\ seenObject \in [Callers -> ObjectRow]
  /\ seenSession \in [Callers -> SessionRow]
  /\ calls \in 0..MaxCalls
  /\ latePut \subseteq Objects
  /\ interrupted \subseteq Objects

Init ==
  /\ bucket = [b \in Buckets |-> NoBucket]
  /\ object = [o \in Objects |-> NoRow]
  /\ session = [o \in Objects |-> NoRow]
  /\ bytes = [o \in Objects |-> "none"]
  /\ live = {}
  /\ pc = [c \in Callers |-> "idle"]
  /\ job = [c \in Callers |-> NoJob]
  /\ seenBucket = [c \in Callers |-> NoBucket]
  /\ seenObject = [c \in Callers |-> NoRow]
  /\ seenSession = [c \in Callers |-> NoRow]
  /\ calls = 0 /\ latePut = {} /\ interrupted = {}

-----------------------------------------------------------------------------
(* A request's control flow.                                               *)

Goto(c, step) == pc' = [pc EXCEPT ![c] = step]

(* The request is answered, with a result or an error.                     *)
Answer(c) ==
  /\ pc' = [pc EXCEPT ![c] = "idle"]
  /\ job' = [job EXCEPT ![c] = NoJob]
  /\ seenBucket' = [seenBucket EXCEPT ![c] = NoBucket]
  /\ seenObject' = [seenObject EXCEPT ![c] = NoRow]
  /\ seenSession' = [seenSession EXCEPT ![c] = NoRow]

(* Go on when the guards hold, answer with their exception otherwise.      *)
Proceed(c, ok, step) ==
  IF ok
  THEN Goto(c, step) /\ UNCHANGED <<job, seenBucket, seenObject, seenSession>>
  ELSE Answer(c)

(* A request arrives and reads bucket b: what it is about, whether the row *)
(* lets it through, and its next step.                                     *)
Begin(c, j, b, accepts, step) ==
  /\ pc[c] = "idle"
  /\ calls < MaxCalls
  /\ calls' = calls + 1
  /\ accepts
  /\ Goto(c, step)
  /\ job' = [job EXCEPT ![c] = j]
  /\ seenBucket' = [seenBucket EXCEPT ![c] = bucket[b]]
  /\ UNCHANGED <<seenObject, seenSession, tables, store, latePut, interrupted>>

ObjectJob(o) == [NoJob EXCEPT !.bucket = BucketOf[o], !.object = o]
CopyJob(source, o) == [ObjectJob(o) EXCEPT !.source = source]

IsActive(row) == row.status = "Active"
Allocated(row) == row.used + row.reserved

FitsWithoutReserved(row, o) == row.used + SizeOf[o] <= row.quota
Fits(row, o) == Allocated(row) + SizeOf[o] <= row.quota

(* GetObjectByKeyAsync finds nothing; the unique constraint says the same. *)
KeyIsFree(o) ==
  \A p \in Objects :
    BucketOf[p] = BucketOf[o] /\ KeyOf[p] = KeyOf[o] => object[p].status = "absent"

-----------------------------------------------------------------------------
(* Transactions.  An UPDATE writes back the row the request read, changed, *)
(* where the version is still the one it read; one UPDATE that finds       *)
(* another version rolls the whole transaction back.                       *)

BucketUnchangedByStatus(c) == bucket[job[c].bucket].status = seenBucket[c].status

BucketUnchanged(c) == bucket[job[c].bucket].version = seenBucket[c].version

ObjectUnchanged(c) == object[job[c].object].version = seenObject[c].version

SessionUnchanged(c) == session[job[c].object].version = seenSession[c].version

WriteBucket(c, row) ==
  bucket' = [bucket EXCEPT ![job[c].bucket] = [row EXCEPT !.version = seenBucket[c].version + 1]]

WriteObject(c, status) ==
  object' = [object EXCEPT ![job[c].object] =
               [status |-> status, version |-> seenObject[c].version + 1]]

WriteSession(c, status) ==
  session' = [session EXCEPT ![job[c].object] =
                [status |-> status, version |-> seenSession[c].version + 1]]

InsertObject(o, status) == object' = [object EXCEPT ![o] = [status |-> status, version |-> 1]]

(* The counters a transaction writes.  CHECK storage_buckets_counters_valid *)
(* refuses negative ones: HoldsReserved and HoldsUsed.                      *)
Reserving(row, o) == [row EXCEPT !.reserved = @ + SizeOf[o]]

ReleasingUsed(row, o) == [row EXCEPT !.used = @ - SizeOf[o]]

Releasing(row, o) == [row EXCEPT !.reserved = IF @ >= SizeOf[o] THEN @ - SizeOf[o] ELSE 0]

HoldsReserved(row, o) == row.reserved >= SizeOf[o]

Fulfilling(row, o) ==
  [row EXCEPT !.reserved = @ - SizeOf[o], !.used = @ + SizeOf[o], !.count = @ + 1]

Adding(row, o) == [row EXCEPT !.used = @ + SizeOf[o], !.count = @ + 1]

HoldsUsed(row, o) == row.used >= SizeOf[o] /\ row.count >= 1
Removing(row, o) == [row EXCEPT !.used = @ - SizeOf[o], !.count = @ - 1]

-----------------------------------------------------------------------------
(* Buckets.                                                                *)

(* One INSERT; EnsureSystemBucketAsync ends up with the same row.          *)
CreateBucket(b) ==
  /\ bucket[b].status = "absent"
  /\ \E q \in Quotas :
       bucket' = [bucket EXCEPT ![b] = [NoBucket EXCEPT !.status = "Active", !.quota = q, !.version = 1]]
  /\ UNCHANGED <<object, session, store, requests, history>>

BeginUpdateBucket(c, b) ==
  \E q \in Quotas :
    Begin(c, [NoJob EXCEPT !.bucket = b, !.quota = q], b,
          IsActive(bucket[b]) /\ q >= Allocated(bucket[b]), "update_commit")

CommitUpdateBucket(c) ==
  /\ pc[c] = "update_commit"
  /\ IF BucketUnchanged(c)
     THEN WriteBucket(c, [seenBucket[c] EXCEPT !.quota = job[c].quota])
     ELSE UNCHANGED bucket
  /\ Answer(c)
  /\ UNCHANGED <<object, session, store, history>>

BeginArchiveBucket(c, b) ==
  Begin(c, [NoJob EXCEPT !.bucket = b], b, IsActive(bucket[b]), "archive_list")

(* ListObjectsAsync leaves out deleted objects only; the counters are      *)
(* those of the row read before.                                           *)
IsEmptyByCount(c) == seenBucket[c].count = 0
IsEmpty(c) ==
  /\ \A o \in Objects :
       BucketOf[o] = job[c].bucket => object[o].status \in {"absent", "Deleted"}
  /\ seenBucket[c].reserved = 0 /\ seenBucket[c].count = 0

ListForArchive(c) ==
  /\ pc[c] = "archive_list"
  /\ Proceed(c, IsEmpty(c), "archive_commit")
  /\ UNCHANGED <<tables, store, history>>

CommitArchiveBucket(c) ==
  /\ pc[c] = "archive_commit"
  /\ IF BucketUnchanged(c)
     THEN WriteBucket(c, [seenBucket[c] EXCEPT !.status = "Archived"])
     ELSE UNCHANGED bucket
  /\ Answer(c)
  /\ UNCHANGED <<object, session, store, history>>

BeginRestoreBucket(c, b) ==
  Begin(c, [NoJob EXCEPT !.bucket = b], b, bucket[b].status = "Archived", "restore_commit")

CommitRestoreBucket(c) ==
  /\ pc[c] = "restore_commit"
  /\ IF BucketUnchanged(c)
     THEN WriteBucket(c, [seenBucket[c] EXCEPT !.status = "Active"])
     ELSE UNCHANGED bucket
  /\ Answer(c)
  /\ UNCHANGED <<object, session, store, history>>

-----------------------------------------------------------------------------
(* Uploads.                                                                *)

(* Guid.CreateVersion7: an id nothing has been stored under.               *)
IsFresh(o) ==
  /\ object[o].status = "absent" /\ bytes[o] = "none"
  /\ \A c \in Callers : job[c].object # o

BeginCreateUpload(c, o) ==
  /\ IsFresh(o)
  /\ Begin(c, ObjectJob(o), BucketOf[o],
           IsActive(bucket[BucketOf[o]]) /\ Fits(bucket[BucketOf[o]], o), "create_key")

CheckUploadKey(c) ==
  /\ pc[c] = "create_key"
  /\ Proceed(c, KeyIsFree(job[c].object), "create_commit")
  /\ UNCHANGED <<tables, store, history>>

CommitCreateUpload(c) ==
  /\ pc[c] = "create_commit"
  /\ LET o == job[c].object IN
     IF BucketUnchanged(c) /\ KeyIsFree(o)
     THEN /\ WriteBucket(c, Reserving(seenBucket[c], o))
          /\ InsertObject(o, "Pending")
          /\ session' = [session EXCEPT ![o] = [status |-> "Pending", version |-> 1]]
          /\ live' = live \cup {o}
     ELSE UNCHANGED <<tables, live>>
  /\ Answer(c)
  /\ UNCHANGED <<bytes, history>>

(* The client sends bytes through its ticket, whatever the rows say.       *)
Put(o) ==
  /\ o \in live
  /\ \E content \in {"good", "bad"} : bytes' = [bytes EXCEPT ![o] = content]
  /\ latePut' = IF session[o].status = "Pending" THEN latePut ELSE latePut \cup {o}
  /\ UNCHANGED <<tables, live, requests, calls, interrupted>>

(* expires_at passes, of the session and of its ticket.                    *)
Expire(o) ==
  /\ o \in live
  /\ live' = live \ {o}
  /\ UNCHANGED <<tables, bytes, requests, history>>

BeginCompleteUpload(c, o) ==
  Begin(c, ObjectJob(o), BucketOf[o], IsActive(bucket[BucketOf[o]]), "complete_session")

ReadUploadSession(c) ==
  /\ pc[c] = "complete_session"
  /\ IF session[job[c].object].status # "absent"
     THEN /\ seenSession' = [seenSession EXCEPT ![c] = session[job[c].object]]
          /\ Goto(c, "complete_object")
          /\ UNCHANGED <<job, seenBucket, seenObject>>
     ELSE Answer(c)
  /\ UNCHANGED <<tables, store, history>>

(* The caller's expected version is the one read here, or Abandon follows. *)
(* A completed session is answered with the object as it is.               *)
ReadUploadObject(c) ==
  /\ pc[c] = "complete_object"
  /\ LET o == job[c].object IN
     IF seenSession[c].status = "Pending" /\ object[o].status = "Pending"
     THEN /\ seenObject' = [seenObject EXCEPT ![c] = object[o]]
          /\ Goto(c, IF o \in live THEN "complete_inspect" ELSE "complete_expire")
          /\ UNCHANGED <<job, seenBucket, seenSession>>
     ELSE Answer(c)
  /\ UNCHANGED <<tables, store, history>>

InspectBytes(c) ==
  /\ pc[c] = "complete_inspect"
  /\ Goto(c, IF bytes[job[c].object] = "good" THEN "complete_commit" ELSE "complete_discard")
  /\ UNCHANGED <<tables, store, history, job, seenBucket, seenObject, seenSession>>

RemoveNoBytes(o) == UNCHANGED bytes

RemoveBytes(o) == bytes' = [bytes EXCEPT ![o] = "none"]

DiscardUpload(c) ==
  /\ pc[c] = "complete_discard"
  /\ RemoveBytes(job[c].object)
  /\ Goto(c, "complete_fail")
  /\ UNCHANGED <<tables, live, history, job, seenBucket, seenObject, seenSession>>

CommitUpload(c) ==
  /\ pc[c] = "complete_commit"
  /\ IF /\ BucketUnchanged(c) /\ ObjectUnchanged(c) /\ SessionUnchanged(c)
        /\ HoldsReserved(seenBucket[c], job[c].object)
     THEN /\ WriteBucket(c, Fulfilling(seenBucket[c], job[c].object))
          /\ WriteObject(c, "Available")
          /\ WriteSession(c, "Completed")
     ELSE UNCHANGED tables
  /\ Answer(c)
  /\ UNCHANGED <<store, history>>

FailUpload(c) ==
  /\ pc[c] \in {"complete_fail", "complete_expire"}
  /\ IF BucketUnchanged(c) /\ ObjectUnchanged(c) /\ SessionUnchanged(c)
     THEN /\ WriteBucket(c, Releasing(seenBucket[c], job[c].object))
          /\ WriteObject(c, "Failed")
          /\ WriteSession(c, IF pc[c] = "complete_expire" THEN "Expired" ELSE "Failed")
     ELSE UNCHANGED tables
  /\ Answer(c)
  /\ UNCHANGED <<store, history>>

-----------------------------------------------------------------------------
(* Objects.                                                                *)

(* Reads the source; a copy o has the size of its source.                  *)
BeginCopyObject(c, source, o) ==
  /\ pc[c] = "idle"
  /\ calls < MaxCalls
  /\ IsFresh(o)
  /\ SizeOf[o] = SizeOf[source]
  /\ object[source].status = "Available"
  /\ calls' = calls + 1
  /\ Goto(c, "copy_target")
  /\ job' = [job EXCEPT ![c] = CopyJob(source, o)]
  /\ UNCHANGED <<seenBucket, seenObject, seenSession, tables, store, latePut, interrupted>>

ReadCopyTarget(c) ==
  /\ pc[c] = "copy_target"
  /\ LET row == bucket[job[c].bucket] IN
     IF IsActive(row) /\ Fits(row, job[c].object)
     THEN /\ seenBucket' = [seenBucket EXCEPT ![c] = row]
          /\ Goto(c, "copy_key")
          /\ UNCHANGED <<job, seenObject, seenSession>>
     ELSE Answer(c)
  /\ UNCHANGED <<tables, store, history>>

CheckCopyKey(c) ==
  /\ pc[c] = "copy_key"
  /\ Proceed(c, KeyIsFree(job[c].object), "copy_bytes")
  /\ UNCHANGED <<tables, store, history>>

(* The store throws when the source has no bytes.                          *)
CopyBytes(c) ==
  /\ pc[c] = "copy_bytes"
  /\ bytes' = [bytes EXCEPT ![job[c].object] = bytes[job[c].source]]
  /\ Proceed(c, bytes[job[c].source] # "none", "copy_commit")
  /\ UNCHANGED <<tables, live, history>>

CommitCopyObject(c) ==
  /\ pc[c] = "copy_commit"
  /\ IF BucketUnchanged(c) /\ KeyIsFree(job[c].object)
     THEN /\ WriteBucket(c, Adding(seenBucket[c], job[c].object))
          /\ InsertObject(job[c].object, "Available")
          /\ Answer(c)
     ELSE /\ Goto(c, "copy_discard")
          /\ UNCHANGED <<bucket, object, job, seenBucket, seenObject, seenSession>>
  /\ UNCHANGED <<session, store, history>>

DiscardCopy(c) ==
  /\ pc[c] = "copy_discard"
  /\ RemoveBytes(job[c].object)
  /\ Answer(c)
  /\ UNCHANGED <<tables, live, history>>

BeginDeleteObject(c, o) ==
  Begin(c, ObjectJob(o), BucketOf[o], IsActive(bucket[BucketOf[o]]), "delete_object")

BeginUpdateMetadata(c, o) ==
  Begin(c, ObjectJob(o), BucketOf[o], IsActive(bucket[BucketOf[o]]), "metadata_object")

ReadAvailableObject(c) ==
  /\ pc[c] \in {"delete_object", "metadata_object"}
  /\ IF object[job[c].object].status = "Available"
     THEN /\ seenObject' = [seenObject EXCEPT ![c] = object[job[c].object]]
          /\ Goto(c, IF pc[c] = "delete_object" THEN "delete_bytes" ELSE "metadata_commit")
          /\ UNCHANGED <<job, seenBucket, seenSession>>
     ELSE Answer(c)
  /\ UNCHANGED <<tables, store, history>>

DeleteBytes(c) ==
  /\ pc[c] = "delete_bytes"
  /\ RemoveBytes(job[c].object)
  /\ Goto(c, "delete_commit")
  /\ UNCHANGED <<tables, live, history, job, seenBucket, seenObject, seenSession>>

CommitDeleteObject(c) ==
  /\ pc[c] = "delete_commit"
  /\ IF BucketUnchanged(c) /\ ObjectUnchanged(c) /\ HoldsUsed(seenBucket[c], job[c].object)
     THEN /\ WriteBucket(c, Removing(seenBucket[c], job[c].object))
          /\ WriteObject(c, "Deleted")
     ELSE UNCHANGED <<bucket, object>>
  /\ Answer(c)
  /\ UNCHANGED <<session, store, history>>

(* Metadata is not versioned with the bucket: only the object is compared. *)
CommitMetadata(c) ==
  /\ pc[c] = "metadata_commit"
  /\ IF ObjectUnchanged(c) THEN WriteObject(c, "Available") ELSE UNCHANGED object
  /\ Answer(c)
  /\ UNCHANGED <<bucket, session, store, history>>

-----------------------------------------------------------------------------
(* Any request may end at any of its steps: a stale expected version, an   *)
(* invalid argument, a cancelled call, a statement that throws, a crash.   *)
Abandon(c) ==
  /\ pc[c] # "idle"
  /\ Answer(c)
  /\ interrupted' = IF pc[c] \in {"copy_commit", "copy_discard"}
                    THEN interrupted \cup {job[c].object} ELSE interrupted
  /\ UNCHANGED <<tables, store, calls, latePut>>

RequestStep(c) ==
  \/ CommitUpdateBucket(c) \/ ListForArchive(c) \/ CommitArchiveBucket(c) \/ CommitRestoreBucket(c)
  \/ CheckUploadKey(c) \/ CommitCreateUpload(c)
  \/ ReadUploadSession(c) \/ ReadUploadObject(c) \/ InspectBytes(c) \/ DiscardUpload(c)
  \/ CommitUpload(c) \/ FailUpload(c)
  \/ ReadCopyTarget(c) \/ CheckCopyKey(c) \/ CopyBytes(c) \/ CommitCopyObject(c) \/ DiscardCopy(c)
  \/ ReadAvailableObject(c) \/ DeleteBytes(c) \/ CommitDeleteObject(c) \/ CommitMetadata(c)
  \/ Abandon(c)

BeginRequest(c) ==
  \/ \E b \in Buckets :
       BeginUpdateBucket(c, b) \/ BeginArchiveBucket(c, b) \/ BeginRestoreBucket(c, b)
  \/ \E o \in Objects :
       \/ BeginCreateUpload(c, o) \/ BeginCompleteUpload(c, o)
       \/ BeginDeleteObject(c, o) \/ BeginUpdateMetadata(c, o)
       \/ \E source \in Objects : BeginCopyObject(c, source, o)

Next ==
  \/ \E b \in Buckets : CreateBucket(b)
  \/ \E o \in Objects : Put(o) \/ Expire(o)
  \/ \E c \in Callers : BeginRequest(c) \/ RequestStep(c)

Spec == Init /\ [][Next]_vars

-----------------------------------------------------------------------------
(* Properties.                                                             *)

In(b, statuses) == {o \in Objects : BucketOf[o] = b /\ object[o].status \in statuses}

(* Used and reserved bytes stay within the quota, however requests that    *)
(* read the counters interleave with those that change them or the quota.  *)
QuotaRespected == \A b \in Buckets : Allocated(bucket[b]) <= bucket[b].quota

(* object_count is the number of available objects of the bucket.          *)
CountIsExact == \A b \in Buckets : bucket[b].count = Cardinality(In(b, {"Available"}))

(* An archived bucket holds no pending or available object: no upload, no  *)
(* copy slips in between the emptiness checks and the archiving UPDATE.    *)
ArchivedIsEmpty ==
  \A b \in Buckets : bucket[b].status = "Archived" => In(b, {"Pending", "Available"}) = {}

(* A session and its object always tell the same story.                    *)
SessionMatchesObject ==
  \A o \in Objects :
    CASE session[o].status = "Pending"   -> object[o].status = "Pending"
      [] session[o].status = "Completed" -> object[o].status \in {"Available", "Deleted"}
      [] session[o].status \in {"Failed", "Expired"} -> object[o].status = "Failed"
      [] OTHER -> object[o].status \in {"absent", "Available", "Deleted"}

(* A deleted object's bytes are gone, unless its client uploaded them again.*)
DeletedMeansNoBytes ==
  \A o \in Objects : object[o].status = "Deleted" /\ bytes[o] # "none" => o \in latePut

(* Bytes that no row knows about are those of a copy that is under way, or *)
(* that was cut short before it could clean up.                            *)
StrayBytesAreOfCopies ==
  \A o \in Objects : object[o].status = "absent" /\ bytes[o] # "none" =>
    \/ o \in interrupted
    \/ \E c \in Callers : job[c].object = o /\ pc[c] \in {"copy_commit", "copy_discard"}

(* Nothing changes an object of an archived bucket, even a metadata update *)
(* that found the bucket active and does not compare its version.          *)
ArchivedIsFrozen ==
  [][\A o \in Objects :
       bucket[BucketOf[o]].status = "Archived" => object'[o] = object[o]]_vars

-----------------------------------------------------------------------------
(* What the documentation says and the code does not do.                   *)

(* CompleteUpload removes invalid bytes only, not the matching bytes of an *)
(* object that another call has made available in the meantime.            *)
OnlyInvalidBytesAreDiscarded ==
  [][\A c \in Callers : DiscardUpload(c) =>
       ~(object[job[c].object].status = "Available" /\ bytes[job[c].object] = "good")]_vars

-----------------------------------------------------------------------------
(* The promise of StorageLedger.                                           *)

Ledger == INSTANCE StorageLedger
  WITH status <- [o \in Objects |-> object[o].status],
       open <- {b \in Buckets : bucket[b].status = "Active"},
       quota <- [b \in Buckets |-> bucket[b].quota]

(* reserved_bytes and used_bytes are what the objects themselves add up to.*)
CountersMatchObjects ==
  \A b \in Buckets :
    /\ bucket[b].reserved = Ledger!Bytes(b, {"Pending"})
    /\ bucket[b].used = Ledger!Bytes(b, {"Available"})

(* Interleaved requests look like atomic operations on an exact ledger.    *)
ImplementsLedger == Ledger!Spec
=============================================================================
