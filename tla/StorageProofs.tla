---------------------------- MODULE StorageProofs ----------------------------
(***************************************************************************)
(* Theorems about Storage, for any number of buckets, objects, callers and *)
(* calls.                                                                  *)
(*                                                                         *)
(* The argument is that of optimistic concurrency: a copy of a row whose   *)
(* version is still current is the current row (BucketCopies, ObjectCopies *)
(* and SessionCopies), so what a request checked on its copy holds of the  *)
(* row it replaces.                                                        *)
(***************************************************************************)
EXTENDS Storage, FiniteSetTheorems, TLAPS

(* Requests about an object, and requests that hold a copy of a bucket.    *)
OnObject == Creating \cup Completing \cup Copying \cup Deleting \cup Editing
HoldsBucket == Step \ {"idle", "copy_target"}
HoldsObject == {"complete_inspect", "complete_discard", "complete_commit", "complete_fail",
                "complete_expire", "delete_bytes", "delete_commit", "metadata_commit"}
HoldsPending == {"complete_inspect", "complete_discard", "complete_commit", "complete_fail",
                 "complete_expire"}
HoldsSession == HoldsPending \cup {"complete_object"}
Allocating == {"create_key", "create_commit", "copy_key", "copy_bytes", "copy_commit"}

JobInv ==
  \A c \in Callers :
    /\ pc[c] \in OnObject => job[c].object \in Objects /\ job[c].bucket = BucketOf[job[c].object]
    /\ pc[c] \in Copying => job[c].source \in Objects
    /\ pc[c] \in Administering => job[c].bucket \in Buckets

TypeInv == TypeOK /\ JobInv

(* A bucket that does not exist has version 0; a copy is of a row that      *)
(* was there, and of the current one if the versions are equal.             *)
BucketCopies ==
  /\ \A b \in Buckets :
       bucket[b].status = "absent" =>
         /\ bucket[b].version = 0 /\ bucket[b].count = 0
         /\ bucket[b].used = 0 /\ bucket[b].reserved = 0
  /\ \A c \in Callers : pc[c] \in HoldsBucket =>
       /\ seenBucket[c].status = IF pc[c] = "restore_commit" THEN "Archived" ELSE "Active"
       /\ seenBucket[c].version <= bucket[job[c].bucket].version
       /\ BucketUnchanged(c) => seenBucket[c] = bucket[job[c].bucket]

ObjectCopies ==
  /\ \A o \in Objects : object[o].status = "absent" => object[o].version = 0
  /\ \A c \in Callers : pc[c] \in HoldsObject =>
       /\ seenObject[c].status = IF pc[c] \in HoldsPending THEN "Pending" ELSE "Available"
       /\ seenObject[c].version <= object[job[c].object].version
       /\ ObjectUnchanged(c) => seenObject[c] = object[job[c].object]

SessionCopies ==
  /\ \A o \in Objects : session[o].status = "absent" => session[o].version = 0
  /\ \A c \in Callers : pc[c] \in HoldsSession =>
       /\ seenSession[c].status # "absent"
       /\ pc[c] \in HoldsPending => seenSession[c].status = "Pending"
       /\ seenSession[c].version <= session[job[c].object].version
       /\ SessionUnchanged(c) => seenSession[c] = session[job[c].object]

(* An id under way belongs to one request and to no row.                   *)
IdsAreOwned ==
  \A c \in Callers : pc[c] \in Creating \cup Copying =>
    /\ object[job[c].object].status = "absent"
    /\ \A d \in Callers : pc[d] \in Creating \cup Copying /\ job[d].object = job[c].object => d = c

(* What was checked before the last step is true of the request's copy.    *)
QuotaChecked ==
  \A c \in Callers :
    /\ pc[c] \in Allocating => Fits(seenBucket[c], job[c].object)
    /\ pc[c] = "update_commit" => job[c].quota >= Allocated(seenBucket[c]) /\ job[c].quota > 0

(* A bucket has a quota from the day it is created.                        *)
QuotaIsSet ==
  \A b \in Buckets :
    IF bucket[b].status = "absent" THEN bucket[b].quota = 0 ELSE bucket[b].quota > 0

(* As long as the bucket is unchanged, nothing has been added to it.       *)
EmptinessChecked ==
  \A c \in Callers : pc[c] = "archive_commit" /\ BucketUnchanged(c) =>
    \A o \in Objects : BucketOf[o] = job[c].bucket => object[o].status \notin {"Pending", "Available"}

BytesChecked ==
  /\ \A o \in live : object[o].status # "absent"
  /\ \A c \in Callers : pc[c] = "delete_commit" /\ ObjectUnchanged(c) =>
       bytes[job[c].object] = "none" \/ job[c].object \in latePut

IInv ==
  /\ TypeInv
  /\ BucketCopies /\ ObjectCopies /\ SessionCopies /\ IdsAreOwned
  /\ QuotaChecked /\ QuotaRespected /\ QuotaIsSet
  /\ SessionMatchesObject /\ CountIsExact /\ CountersMatchObjects
  /\ EmptinessChecked /\ ArchivedIsEmpty
  /\ BytesChecked /\ DeletedMeansNoBytes /\ StrayBytesAreOfCopies

-----------------------------------------------------------------------------
(* Typing.                                                                 *)

LEMMA TypeInit == Init => TypeInv
BY MaxCallsType, NoneIsNothing
DEF Init, TypeInv, TypeOK, JobInv, BucketRow, ObjectRow, SessionRow, Job, NoJob, NoBucket, NoRow,
    Step, OnObject, Creating, Completing, Copying, Deleting, Editing, Administering

(* The records the steps build have their types.                           *)
LEMMA EmptyRecords ==
  NoJob \in Job /\ NoBucket \in BucketRow /\ NoRow \in ObjectRow /\ NoRow \in SessionRow
BY DEF NoJob, Job, NoBucket, BucketRow, NoRow, ObjectRow, SessionRow

LEMMA ObjectJobs ==
  ASSUME NEW o \in Objects
  PROVE  ObjectJob(o) \in Job /\ ObjectJob(o).object = o /\ ObjectJob(o).bucket = BucketOf[o]
BY BucketOfType DEF ObjectJob, NoJob, Job

LEMMA CopyJobs ==
  ASSUME NEW o \in Objects, NEW source \in Objects
  PROVE  /\ CopyJob(source, o) \in Job /\ CopyJob(source, o).object = o
         /\ CopyJob(source, o).source = source /\ CopyJob(source, o).bucket = BucketOf[o]
BY BucketOfType DEF CopyJob, ObjectJob, NoJob, Job

LEMMA BucketJobs ==
  ASSUME NEW b \in Buckets, NEW q \in Nat
  PROVE  /\ [NoJob EXCEPT !.bucket = b] \in Job
         /\ [NoJob EXCEPT !.bucket = b].bucket = b
         /\ [NoJob EXCEPT !.bucket = b, !.quota = q] \in Job
         /\ [NoJob EXCEPT !.bucket = b, !.quota = q].bucket = b
         /\ [NoJob EXCEPT !.bucket = b, !.quota = q].quota = q
BY DEF NoJob, Job

(* The CHECK on the counters keeps them natural.                           *)
LEMMA CountersAreNatural ==
  ASSUME NEW row \in BucketRow, NEW o \in Objects
  PROVE  /\ Reserving(row, o) \in BucketRow
         /\ Releasing(row, o) \in BucketRow
         /\ HoldsReserved(row, o) => Fulfilling(row, o) \in BucketRow
         /\ Adding(row, o) \in BucketRow
         /\ HoldsUsed(row, o) => Removing(row, o) \in BucketRow
<1>1. Releasing(row, o) \in BucketRow
  BY SizeOfType DEF BucketRow, Releasing
<1>2. Reserving(row, o) \in BucketRow /\ Adding(row, o) \in BucketRow
  <2>1. row.reserved + SizeOf[o] \in Nat /\ row.used + SizeOf[o] \in Nat /\ row.count + 1 \in Nat
    BY SizeOfType DEF BucketRow
  <2> QED
    BY <2>1 DEF BucketRow, Reserving, Adding
<1>3. ASSUME HoldsReserved(row, o) PROVE Fulfilling(row, o) \in BucketRow
  <2>1. row.reserved - SizeOf[o] \in Nat /\ row.used + SizeOf[o] \in Nat /\ row.count + 1 \in Nat
    BY <1>3, SizeOfType DEF BucketRow, HoldsReserved
  <2> QED
    BY <2>1 DEF BucketRow, Fulfilling
<1>4. ASSUME HoldsUsed(row, o) PROVE Removing(row, o) \in BucketRow
  <2>1. row.used - SizeOf[o] \in Nat /\ row.count - 1 \in Nat
    BY <1>4, SizeOfType DEF BucketRow, HoldsUsed
  <2> QED
    BY <2>1 DEF BucketRow, Removing
<1> QED
  BY <1>1, <1>2, <1>3, <1>4

LEMMA RowEdits ==
  ASSUME NEW row \in BucketRow, NEW q \in Nat
  PROVE  /\ [row EXCEPT !.quota = q] \in BucketRow
         /\ [row EXCEPT !.status = "Active"] \in BucketRow
         /\ [row EXCEPT !.status = "Archived"] \in BucketRow
         /\ [NoBucket EXCEPT !.status = "Active", !.quota = q, !.version = 1] \in BucketRow
BY DEF BucketRow, NoBucket

(* A caller holds the job its step needs.                                  *)
LEMMA JobsInHand ==
  ASSUME TypeInv, NEW c \in Callers
  PROVE  /\ pc[c] \in HoldsBucket => job[c].bucket \in Buckets
         /\ pc[c] \in OnObject => job[c].object \in Objects
         /\ seenBucket[c] \in BucketRow
         /\ job[c].quota \in Nat
         /\ pc[c] \in Copying => job[c].source \in Objects
BY BucketOfType
DEF TypeInv, TypeOK, JobInv, Job, HoldsBucket, OnObject, Step, Creating, Completing, Copying,
    Deleting, Editing, Administering

LEMMA Answering ==
  ASSUME TypeInv, NEW c \in Callers, Answer(c)
  PROVE  /\ pc' \in [Callers -> Step] /\ job' \in [Callers -> Job]
         /\ seenBucket' \in [Callers -> BucketRow]
         /\ seenObject' \in [Callers -> ObjectRow] /\ seenSession' \in [Callers -> SessionRow]
BY EmptyRecords DEF TypeInv, TypeOK, Answer, Step

LEMMA Beginning ==
  ASSUME TypeInv, NEW c \in Callers, NEW j \in Job, NEW b \in Buckets, NEW accepts,
         NEW step \in Step, Begin(c, j, b, accepts, step)
  PROVE  TypeOK'
<1>1. bucket[b] \in BucketRow
  BY DEF TypeInv, TypeOK
<1>2. /\ pc' \in [Callers -> Step] /\ job' \in [Callers -> Job]
      /\ seenBucket' \in [Callers -> BucketRow]
  BY <1>1 DEF TypeInv, TypeOK, Begin, Goto
<1>3. calls' \in 0..MaxCalls
  BY MaxCallsType DEF TypeInv, TypeOK, Begin
<1> QED
  BY <1>2, <1>3 DEF TypeInv, TypeOK, Begin, tables, store

(* Going on with the same job, within the same kind of request.            *)
LEMMA GoingOn ==
  ASSUME TypeInv, NEW c \in Callers, NEW step \in Step,
         pc' = [pc EXCEPT ![c] = step], job' = job,
         step \in OnObject => pc[c] \in OnObject, step \in Copying => pc[c] \in Copying,
         step \in Administering => pc[c] \in Administering
  PROVE  JobInv'
BY DEF TypeInv, TypeOK, JobInv

LEMMA AnsweringJob ==
  ASSUME TypeInv, NEW c \in Callers, Answer(c)
  PROVE  JobInv'
BY DEF TypeInv, TypeOK, JobInv, Answer, OnObject, Creating, Completing, Copying, Deleting,
       Editing, Administering

(* The writes of a transaction keep the tables typed.                      *)
LEMMA BucketWrite ==
  ASSUME TypeInv, NEW c \in Callers, pc[c] \in HoldsBucket,
         NEW row \in BucketRow, WriteBucket(c, row)
  PROVE  bucket' \in [Buckets -> BucketRow]
<1>1. job[c].bucket \in Buckets /\ seenBucket[c] \in BucketRow
  BY JobsInHand
<1>2. seenBucket[c].version + 1 \in Nat
  BY <1>1 DEF BucketRow
<1>3. [row EXCEPT !.version = seenBucket[c].version + 1] \in BucketRow
  BY <1>2 DEF BucketRow
<1> QED
  BY <1>1, <1>3 DEF TypeInv, TypeOK, WriteBucket

LEMMA ObjectWrite ==
  ASSUME TypeInv, NEW c \in Callers, pc[c] \in OnObject,
         NEW status \in {"Available", "Failed", "Deleted"}, WriteObject(c, status)
  PROVE  object' \in [Objects -> ObjectRow]
<1>1. job[c].object \in Objects
  BY JobsInHand
<1> QED
  BY <1>1 DEF TypeInv, TypeOK, WriteObject, ObjectRow

LEMMA SessionWrite ==
  ASSUME TypeInv, NEW c \in Callers, pc[c] \in OnObject,
         NEW status \in {"Completed", "Failed", "Expired"}, WriteSession(c, status)
  PROVE  session' \in [Objects -> SessionRow]
<1>1. job[c].object \in Objects
  BY JobsInHand
<1> QED
  BY <1>1 DEF TypeInv, TypeOK, WriteSession, SessionRow

LEMMA ObjectInsert ==
  ASSUME TypeInv, NEW o \in Objects, NEW status \in {"Pending", "Available"},
         InsertObject(o, status)
  PROVE  object' \in [Objects -> ObjectRow]
BY DEF TypeInv, TypeOK, InsertObject, ObjectRow

(* Every step keeps the types.                                             *)
LEMMA TypeOKStep == TypeInv /\ [Next]_vars => TypeOK'
<1> SUFFICES ASSUME TypeInv, [Next]_vars PROVE TypeOK'
  OBVIOUS
<1> USE MaxCallsType DEF TypeInv, TypeOK, Step, Creating, Completing, Copying, Deleting, Editing,
        Administering, OnObject, tables, store, requests, history, Goto, Answer,
        Proceed, Begin, RemoveBytes
<1>1. ASSUME NEW b \in Buckets, CreateBucket(b) PROVE TypeOK'
  <2>1. PICK q \in Quotas : bucket' = [bucket EXCEPT ![b] =
                               [NoBucket EXCEPT !.status = "Active", !.quota = q, !.version = 1]]
    BY <1>1 DEF CreateBucket
  <2>2. q \in Nat /\ bucket[b] \in BucketRow
    BY QuotasType
  <2>3. bucket' \in [Buckets -> BucketRow]
    BY <2>1, <2>2, RowEdits
  <2> QED
    BY <1>1, <2>3 DEF CreateBucket
<1>2. ASSUME NEW o \in Objects, Put(o) PROVE TypeOK'
  BY <1>2 DEF Put
<1>3. ASSUME NEW o \in Objects, Expire(o) PROVE TypeOK'
  BY <1>3 DEF Expire
<1>4. ASSUME NEW c \in Callers, NEW b \in Buckets, BeginUpdateBucket(c, b) PROVE TypeOK'
  <2>1. \A q \in Quotas : [NoJob EXCEPT !.bucket = b, !.quota = q] \in Job
    BY BucketJobs, QuotasType
  <2> HIDE DEF TypeInv, TypeOK, Begin
  <2> QED
    BY <1>4, <2>1, Beginning DEF BeginUpdateBucket
<1>5. ASSUME NEW c \in Callers, NEW b \in Buckets, BeginArchiveBucket(c, b)
       PROVE  TypeOK'
  <2>1. [NoJob EXCEPT !.bucket = b] \in Job
    BY BucketJobs
  <2> HIDE DEF TypeInv, TypeOK, Begin
  <2> QED
    BY <1>5, <2>1, Beginning DEF BeginArchiveBucket
<1>6. ASSUME NEW c \in Callers, NEW b \in Buckets, BeginRestoreBucket(c, b)
       PROVE  TypeOK'
  <2>1. [NoJob EXCEPT !.bucket = b] \in Job
    BY BucketJobs
  <2> HIDE DEF TypeInv, TypeOK, Begin
  <2> QED
    BY <1>6, <2>1, Beginning DEF BeginRestoreBucket
<1>7. ASSUME NEW c \in Callers, NEW o \in Objects, BeginCreateUpload(c, o) PROVE TypeOK'
  <2>1. ObjectJob(o) \in Job /\ BucketOf[o] \in Buckets
    BY ObjectJobs, BucketOfType
  <2> HIDE DEF TypeInv, TypeOK, Begin
  <2> QED
    BY <1>7, <2>1, Beginning DEF BeginCreateUpload
<1>8. ASSUME NEW c \in Callers, NEW o \in Objects, BeginCompleteUpload(c, o)
       PROVE  TypeOK'
  <2>1. ObjectJob(o) \in Job /\ BucketOf[o] \in Buckets
    BY ObjectJobs, BucketOfType
  <2> HIDE DEF TypeInv, TypeOK, Begin
  <2> QED
    BY <1>8, <2>1, Beginning DEF BeginCompleteUpload
<1>9. ASSUME NEW c \in Callers, NEW o \in Objects, BeginDeleteObject(c, o) PROVE TypeOK'
  <2>1. ObjectJob(o) \in Job /\ BucketOf[o] \in Buckets
    BY ObjectJobs, BucketOfType
  <2> HIDE DEF TypeInv, TypeOK, Begin
  <2> QED
    BY <1>9, <2>1, Beginning DEF BeginDeleteObject
<1>10. ASSUME NEW c \in Callers, NEW o \in Objects, BeginUpdateMetadata(c, o)
       PROVE  TypeOK'
  <2>1. ObjectJob(o) \in Job /\ BucketOf[o] \in Buckets
    BY ObjectJobs, BucketOfType
  <2> HIDE DEF TypeInv, TypeOK, Begin
  <2> QED
    BY <1>10, <2>1, Beginning DEF BeginUpdateMetadata
<1>11. ASSUME NEW c \in Callers, NEW source \in Objects, NEW o \in Objects,
       BeginCopyObject(c, source, o)
       PROVE  TypeOK'
  <2>1. CopyJob(source, o) \in Job
    BY CopyJobs
  <2>2. pc' \in [Callers -> Step] /\ job' \in [Callers -> Job]
    BY <1>11, <2>1 DEF BeginCopyObject
  <2>3. calls' \in 0..MaxCalls
    <3>1. calls < MaxCalls /\ calls' = calls + 1
      BY <1>11 DEF BeginCopyObject
    <3>2. calls \in 0..MaxCalls
      OBVIOUS
    <3> HIDE DEF TypeInv, TypeOK
    <3> QED
      BY <3>1, <3>2, MaxCallsType
  <2> QED
    BY <1>11, <2>2, <2>3 DEF BeginCopyObject
<1>12. ASSUME NEW c \in Callers, CommitUpdateBucket(c) PROVE TypeOK'
  <2>1. [seenBucket[c] EXCEPT !.quota = job[c].quota] \in BucketRow
    BY JobsInHand, RowEdits
  <2>2. bucket' \in [Buckets -> BucketRow]
    BY <1>12, <2>1, BucketWrite DEF CommitUpdateBucket, HoldsBucket
  <2> QED
    BY <1>12, <2>2, EmptyRecords DEF CommitUpdateBucket
<1>13. ASSUME NEW c \in Callers, ListForArchive(c) PROVE TypeOK'
  BY <1>13, EmptyRecords, JobsInHand DEF ListForArchive
<1>14. ASSUME NEW c \in Callers, CommitArchiveBucket(c) PROVE TypeOK'
  <2>1. [seenBucket[c] EXCEPT !.status = "Archived"] \in BucketRow
    BY JobsInHand, RowEdits
  <2>2. bucket' \in [Buckets -> BucketRow]
    BY <1>14, <2>1, BucketWrite DEF CommitArchiveBucket, HoldsBucket
  <2> QED
    BY <1>14, <2>2, EmptyRecords DEF CommitArchiveBucket
<1>15. ASSUME NEW c \in Callers, CommitRestoreBucket(c) PROVE TypeOK'
  <2>1. [seenBucket[c] EXCEPT !.status = "Active"] \in BucketRow
    BY JobsInHand, RowEdits
  <2>2. bucket' \in [Buckets -> BucketRow]
    BY <1>15, <2>1, BucketWrite DEF CommitRestoreBucket, HoldsBucket
  <2> QED
    BY <1>15, <2>2, EmptyRecords DEF CommitRestoreBucket
<1>16. ASSUME NEW c \in Callers, CheckUploadKey(c) PROVE TypeOK'
  BY <1>16, EmptyRecords, JobsInHand, SMTT(30) DEF CheckUploadKey
<1>17. ASSUME NEW c \in Callers, CommitCreateUpload(c) PROVE TypeOK'
  <2> DEFINE o == job[c].object
  <2>1. o \in Objects /\ Reserving(seenBucket[c], o) \in BucketRow
    BY <1>17, JobsInHand, CountersAreNatural DEF CommitCreateUpload
  <2>2. bucket' \in [Buckets -> BucketRow] /\ object' \in [Objects -> ObjectRow]
    BY <1>17, <2>1, BucketWrite, ObjectInsert DEF CommitCreateUpload, HoldsBucket
  <2>3. session' \in [Objects -> SessionRow]
    <3>1. [status |-> "Pending", version |-> 1] \in SessionRow
      BY DEF SessionRow
    <3> QED
      BY <1>17, <2>1, <3>1 DEF CommitCreateUpload
  <2>4. live' \subseteq Objects
    BY <1>17, <2>1 DEF CommitCreateUpload
  <2> HIDE DEF Answer
  <2> QED
    BY <1>17, <2>2, <2>3, <2>4, Answering DEF CommitCreateUpload
<1>18. ASSUME NEW c \in Callers, ReadUploadSession(c) PROVE TypeOK'
  <2>1. session[job[c].object] \in SessionRow
    BY <1>18, JobsInHand DEF ReadUploadSession
  <2> HIDE DEF Answer
  <2> QED
    BY <1>18, <2>1, Answering DEF ReadUploadSession
<1>19. ASSUME NEW c \in Callers, ReadUploadObject(c) PROVE TypeOK'
  <2>1. object[job[c].object] \in ObjectRow
    BY <1>19, JobsInHand DEF ReadUploadObject
  <2> QED
    BY <1>19, <2>1, EmptyRecords DEF ReadUploadObject
<1>20. ASSUME NEW c \in Callers, InspectBytes(c) PROVE TypeOK'
  BY <1>20, EmptyRecords, JobsInHand DEF InspectBytes
<1>21. ASSUME NEW c \in Callers, DiscardUpload(c) PROVE TypeOK'
  BY <1>21, EmptyRecords, JobsInHand DEF DiscardUpload
<1>22. ASSUME NEW c \in Callers, CommitUpload(c) PROVE TypeOK'
  <2> DEFINE o == job[c].object
  <2>1. /\ o \in Objects
        /\ HoldsReserved(seenBucket[c], o) => Fulfilling(seenBucket[c], o) \in BucketRow
    BY <1>22, JobsInHand, CountersAreNatural DEF CommitUpload
  <2>2. bucket' \in [Buckets -> BucketRow]
    BY <1>22, <2>1, BucketWrite DEF CommitUpload, HoldsBucket
  <2>3. object' \in [Objects -> ObjectRow] /\ session' \in [Objects -> SessionRow]
    BY <1>22, <2>1, ObjectWrite, SessionWrite DEF CommitUpload
  <2> QED
    BY <1>22, <2>2, <2>3, EmptyRecords DEF CommitUpload
<1>23. ASSUME NEW c \in Callers, FailUpload(c) PROVE TypeOK'
  <2> DEFINE o == job[c].object
  <2>1. o \in Objects /\ Releasing(seenBucket[c], o) \in BucketRow
    BY <1>23, JobsInHand, CountersAreNatural DEF FailUpload
  <2>2. bucket' \in [Buckets -> BucketRow]
    BY <1>23, <2>1, BucketWrite DEF FailUpload, HoldsBucket
  <2>3. object' \in [Objects -> ObjectRow]
    BY <1>23, <2>1, ObjectWrite DEF FailUpload
  <2>4. session' \in [Objects -> SessionRow]
    BY <1>23, <2>1, SessionWrite DEF FailUpload
  <2> QED
    BY <1>23, <2>2, <2>3, <2>4, EmptyRecords DEF FailUpload
<1>24. ASSUME NEW c \in Callers, ReadCopyTarget(c) PROVE TypeOK'
  <2>1. bucket[job[c].bucket] \in BucketRow
    BY <1>24, JobsInHand, BucketOfType DEF JobInv, ReadCopyTarget
  <2> HIDE DEF Answer
  <2> QED
    BY <1>24, <2>1, Answering DEF ReadCopyTarget
<1>25. ASSUME NEW c \in Callers, CheckCopyKey(c) PROVE TypeOK'
  BY <1>25, EmptyRecords, JobsInHand DEF CheckCopyKey
<1>26. ASSUME NEW c \in Callers, CopyBytes(c) PROVE TypeOK'
  <2>1. bytes[job[c].source] \in {"none", "good", "bad"}
    BY <1>26, JobsInHand DEF CopyBytes
  <2> HIDE DEF Answer
  <2> QED
    BY <1>26, <2>1, Answering DEF CopyBytes
<1>27. ASSUME NEW c \in Callers, CommitCopyObject(c) PROVE TypeOK'
  <2> DEFINE o == job[c].object
  <2>1. o \in Objects /\ Adding(seenBucket[c], o) \in BucketRow
    BY <1>27, JobsInHand, CountersAreNatural DEF CommitCopyObject
  <2>2. bucket' \in [Buckets -> BucketRow] /\ object' \in [Objects -> ObjectRow]
    BY <1>27, <2>1, BucketWrite, ObjectInsert DEF CommitCopyObject, HoldsBucket
  <2> QED
    BY <1>27, <2>2, EmptyRecords DEF CommitCopyObject
<1>28. ASSUME NEW c \in Callers, DiscardCopy(c) PROVE TypeOK'
  BY <1>28, EmptyRecords, JobsInHand DEF DiscardCopy
<1>29. ASSUME NEW c \in Callers, ReadAvailableObject(c) PROVE TypeOK'
  <2>1. object[job[c].object] \in ObjectRow
    BY <1>29, JobsInHand DEF ReadAvailableObject
  <2> QED
    BY <1>29, <2>1, EmptyRecords DEF ReadAvailableObject
<1>30. ASSUME NEW c \in Callers, DeleteBytes(c) PROVE TypeOK'
  BY <1>30, EmptyRecords, JobsInHand DEF DeleteBytes
<1>31. ASSUME NEW c \in Callers, CommitDeleteObject(c) PROVE TypeOK'
  <2> DEFINE o == job[c].object
  <2>1. /\ o \in Objects
        /\ HoldsUsed(seenBucket[c], o) => Removing(seenBucket[c], o) \in BucketRow
    BY <1>31, JobsInHand, CountersAreNatural DEF CommitDeleteObject
  <2>2. bucket' \in [Buckets -> BucketRow] /\ object' \in [Objects -> ObjectRow]
    BY <1>31, <2>1, BucketWrite, ObjectWrite DEF CommitDeleteObject, HoldsBucket
  <2> QED
    BY <1>31, <2>2, EmptyRecords DEF CommitDeleteObject
<1>32. ASSUME NEW c \in Callers, CommitMetadata(c) PROVE TypeOK'
  <2>1. object' \in [Objects -> ObjectRow]
    BY <1>32, ObjectWrite DEF CommitMetadata
  <2> QED
    BY <1>32, <2>1, EmptyRecords DEF CommitMetadata
<1>33. ASSUME NEW c \in Callers, Abandon(c) PROVE TypeOK'
  BY <1>33, EmptyRecords, JobsInHand DEF Abandon
<1>34. CASE UNCHANGED vars
  BY <1>34 DEF vars
<1> QED
  BY <1>1, <1>2, <1>3, <1>4, <1>5, <1>6, <1>7, <1>8, <1>9, <1>10, <1>11, <1>12, <1>13,
     <1>14, <1>15, <1>16, <1>17, <1>18, <1>19, <1>20, <1>21, <1>22, <1>23, <1>24, <1>25,
     <1>26, <1>27, <1>28, <1>29, <1>30, <1>31, <1>32, <1>33, <1>34 DEF Next,
     BeginRequest, RequestStep

(* A request's job fits its step.                                          *)
LEMMA JobStep == TypeInv /\ [Next]_vars => JobInv'
<1> SUFFICES ASSUME TypeInv, [Next]_vars PROVE JobInv'
  OBVIOUS
<1> USE DEF TypeInv, TypeOK, JobInv, Step, Creating, Completing, Copying, Deleting,
        Editing, Administering, OnObject, tables, store, requests, history, Goto,
        Answer, Proceed, Begin
<1>1. ASSUME NEW b \in Buckets, CreateBucket(b) PROVE JobInv'
  BY <1>1 DEF CreateBucket
<1>2. ASSUME NEW o \in Objects, Put(o) \/ Expire(o)
       PROVE  JobInv'
  BY <1>2 DEF Put, Expire
<1>3. ASSUME NEW c \in Callers, NEW b \in Buckets, BeginUpdateBucket(c, b) PROVE JobInv'
  <2>1. PICK q \in Quotas :
          /\ job' = [job EXCEPT ![c] = [NoJob EXCEPT !.bucket = b, !.quota = q]]
          /\ pc' = [pc EXCEPT ![c] = "update_commit"]
    BY <1>3 DEF BeginUpdateBucket
  <2>2. [NoJob EXCEPT !.bucket = b, !.quota = q].bucket = b
    BY BucketJobs, QuotasType
  <2> QED
    BY <2>1, <2>2
<1>4. ASSUME NEW c \in Callers, NEW b \in Buckets, BeginArchiveBucket(c, b)
       PROVE  JobInv'
  <2>1. [NoJob EXCEPT !.bucket = b].bucket = b
    BY BucketJobs
  <2> QED
    BY <1>4, <2>1 DEF BeginArchiveBucket
<1>5. ASSUME NEW c \in Callers, NEW b \in Buckets, BeginRestoreBucket(c, b)
       PROVE  JobInv'
  <2>1. [NoJob EXCEPT !.bucket = b].bucket = b
    BY BucketJobs
  <2> QED
    BY <1>5, <2>1 DEF BeginRestoreBucket
<1>6. ASSUME NEW c \in Callers, NEW o \in Objects, BeginCreateUpload(c, o) PROVE JobInv'
  <2>1. ObjectJob(o).object = o /\ ObjectJob(o).bucket = BucketOf[o]
    BY ObjectJobs
  <2> QED
    BY <1>6, <2>1 DEF BeginCreateUpload
<1>7. ASSUME NEW c \in Callers, NEW o \in Objects, BeginCompleteUpload(c, o)
       PROVE  JobInv'
  <2>1. ObjectJob(o).object = o /\ ObjectJob(o).bucket = BucketOf[o]
    BY ObjectJobs
  <2> QED
    BY <1>7, <2>1 DEF BeginCompleteUpload
<1>8. ASSUME NEW c \in Callers, NEW o \in Objects, BeginDeleteObject(c, o) PROVE JobInv'
  <2>1. ObjectJob(o).object = o /\ ObjectJob(o).bucket = BucketOf[o]
    BY ObjectJobs
  <2> QED
    BY <1>8, <2>1 DEF BeginDeleteObject
<1>9. ASSUME NEW c \in Callers, NEW o \in Objects, BeginUpdateMetadata(c, o)
       PROVE  JobInv'
  <2>1. ObjectJob(o).object = o /\ ObjectJob(o).bucket = BucketOf[o]
    BY ObjectJobs
  <2> QED
    BY <1>9, <2>1 DEF BeginUpdateMetadata
<1>10. ASSUME NEW c \in Callers, NEW source \in Objects, NEW o \in Objects,
       BeginCopyObject(c, source, o)
       PROVE  JobInv'
  <2>1. /\ CopyJob(source, o).object = o /\ CopyJob(source, o).source = source
        /\ CopyJob(source, o).bucket = BucketOf[o]
    <3> HIDE DEF TypeInv, TypeOK, JobInv, Step, Creating, Completing, Copying, Deleting
    <3> QED
      BY CopyJobs
  <2> QED
    BY <1>10, <2>1 DEF BeginCopyObject
<1>11. ASSUME NEW c \in Callers, CommitUpdateBucket(c) PROVE JobInv'
  <2> HIDE DEF TypeInv, TypeOK, JobInv, Answer
  <2> QED
    BY <1>11, GoingOn, AnsweringJob DEF CommitUpdateBucket
<1>12. ASSUME NEW c \in Callers, ListForArchive(c) PROVE JobInv'
  <2> HIDE DEF TypeInv, TypeOK, JobInv, Answer
  <2> QED
    BY <1>12, GoingOn, AnsweringJob DEF ListForArchive
<1>13. ASSUME NEW c \in Callers, CommitArchiveBucket(c) PROVE JobInv'
  <2> HIDE DEF TypeInv, TypeOK, JobInv, Answer
  <2> QED
    BY <1>13, GoingOn, AnsweringJob DEF CommitArchiveBucket
<1>14. ASSUME NEW c \in Callers, CommitRestoreBucket(c) PROVE JobInv'
  <2> HIDE DEF TypeInv, TypeOK, JobInv, Answer
  <2> QED
    BY <1>14, GoingOn, AnsweringJob DEF CommitRestoreBucket
<1>15. ASSUME NEW c \in Callers, CheckUploadKey(c) PROVE JobInv'
  <2> HIDE DEF TypeInv, TypeOK, JobInv, Answer
  <2> QED
    BY <1>15, GoingOn, AnsweringJob DEF CheckUploadKey
<1>16. ASSUME NEW c \in Callers, CommitCreateUpload(c) PROVE JobInv'
  <2> HIDE DEF TypeInv, TypeOK, JobInv, Answer
  <2> QED
    BY <1>16, GoingOn, AnsweringJob DEF CommitCreateUpload
<1>17. ASSUME NEW c \in Callers, ReadUploadSession(c) PROVE JobInv'
  <2> HIDE DEF TypeInv, TypeOK, JobInv, Answer
  <2> QED
    BY <1>17, GoingOn, AnsweringJob DEF ReadUploadSession
<1>18. ASSUME NEW c \in Callers, ReadUploadObject(c) PROVE JobInv'
  <2> HIDE DEF TypeInv, TypeOK, JobInv, Answer
  <2> QED
    BY <1>18, GoingOn, AnsweringJob DEF ReadUploadObject
<1>19. ASSUME NEW c \in Callers, InspectBytes(c) PROVE JobInv'
  <2> HIDE DEF TypeInv, TypeOK, JobInv, Answer
  <2> QED
    BY <1>19, GoingOn, AnsweringJob DEF InspectBytes
<1>20. ASSUME NEW c \in Callers, DiscardUpload(c) PROVE JobInv'
  <2> HIDE DEF TypeInv, TypeOK, JobInv, Answer
  <2> QED
    BY <1>20, GoingOn, AnsweringJob DEF DiscardUpload
<1>21. ASSUME NEW c \in Callers, CommitUpload(c) PROVE JobInv'
  <2> HIDE DEF TypeInv, TypeOK, JobInv, Answer
  <2> QED
    BY <1>21, GoingOn, AnsweringJob DEF CommitUpload
<1>22. ASSUME NEW c \in Callers, FailUpload(c) PROVE JobInv'
  <2> HIDE DEF TypeInv, TypeOK, JobInv, Answer
  <2> QED
    BY <1>22, GoingOn, AnsweringJob DEF FailUpload
<1>23. ASSUME NEW c \in Callers, ReadCopyTarget(c) PROVE JobInv'
  <2> HIDE DEF TypeInv, TypeOK, JobInv, Answer
  <2> QED
    BY <1>23, GoingOn, AnsweringJob DEF ReadCopyTarget
<1>24. ASSUME NEW c \in Callers, CheckCopyKey(c) PROVE JobInv'
  <2> HIDE DEF TypeInv, TypeOK, JobInv, Answer
  <2> QED
    BY <1>24, GoingOn, AnsweringJob DEF CheckCopyKey
<1>25. ASSUME NEW c \in Callers, CopyBytes(c) PROVE JobInv'
  <2> HIDE DEF TypeInv, TypeOK, JobInv, Answer
  <2> QED
    BY <1>25, GoingOn, AnsweringJob DEF CopyBytes
<1>26. ASSUME NEW c \in Callers, CommitCopyObject(c) PROVE JobInv'
  <2> HIDE DEF TypeInv, TypeOK, JobInv, Answer
  <2> QED
    BY <1>26, GoingOn, AnsweringJob DEF CommitCopyObject
<1>27. ASSUME NEW c \in Callers, DiscardCopy(c) PROVE JobInv'
  <2> HIDE DEF TypeInv, TypeOK, JobInv, Answer
  <2> QED
    BY <1>27, GoingOn, AnsweringJob DEF DiscardCopy
<1>28. ASSUME NEW c \in Callers, ReadAvailableObject(c) PROVE JobInv'
  <2> HIDE DEF TypeInv, TypeOK, JobInv, Answer
  <2> QED
    BY <1>28, GoingOn, AnsweringJob DEF ReadAvailableObject
<1>29. ASSUME NEW c \in Callers, DeleteBytes(c) PROVE JobInv'
  <2> HIDE DEF TypeInv, TypeOK, JobInv, Answer
  <2> QED
    BY <1>29, GoingOn, AnsweringJob DEF DeleteBytes
<1>30. ASSUME NEW c \in Callers, CommitDeleteObject(c) PROVE JobInv'
  <2> HIDE DEF TypeInv, TypeOK, JobInv, Answer
  <2> QED
    BY <1>30, GoingOn, AnsweringJob DEF CommitDeleteObject
<1>31. ASSUME NEW c \in Callers, CommitMetadata(c) PROVE JobInv'
  <2> HIDE DEF TypeInv, TypeOK, JobInv, Answer
  <2> QED
    BY <1>31, GoingOn, AnsweringJob DEF CommitMetadata
<1>32. ASSUME NEW c \in Callers, Abandon(c) PROVE JobInv'
  <2> HIDE DEF TypeInv, TypeOK, JobInv, Answer
  <2> QED
    BY <1>32, GoingOn, AnsweringJob DEF Abandon
<1>33. CASE UNCHANGED vars
  BY <1>33 DEF vars
<1> QED
  BY <1>1, <1>2, <1>3, <1>4, <1>5, <1>6, <1>7, <1>8, <1>9, <1>10, <1>11, <1>12, <1>13,
     <1>14, <1>15, <1>16, <1>17, <1>18, <1>19, <1>20, <1>21, <1>22, <1>23, <1>24, <1>25,
     <1>26, <1>27, <1>28, <1>29, <1>30, <1>31, <1>32, <1>33 DEF Next, BeginRequest,
     RequestStep

LEMMA TypeStep == TypeInv /\ [Next]_vars => TypeInv'
BY TypeOKStep, JobStep DEF TypeInv

-----------------------------------------------------------------------------
(* Bytes, counted one by one.                                              *)

Units(S) == UNION {{o} \X (1 .. SizeOf[o]) : o \in S}

(* The ledger counts as this module does.                                  *)
LEMMA LedgerCounts == \A S : Ledger!Cardinality(S) = Cardinality(S)
BY Zenon DEF Ledger!Cardinality, Cardinality

LEMMA BytesAreUnits ==
  ASSUME NEW b, NEW statuses
  PROVE  Ledger!Bytes(b, statuses) = Cardinality(Units(In(b, statuses)))
<1>1. Ledger!In(b, statuses) = In(b, statuses)
  BY DEF Ledger!In, In
<1>2. Ledger!Bytes(b, statuses) = Ledger!Cardinality(Units(In(b, statuses)))
  BY <1>1 DEF Ledger!Bytes, Units
<1> QED
  BY <1>2, LedgerCounts

(* The bytes of one object.                                                *)
LEMMA UnitsOfOne ==
  ASSUME NEW o \in Objects
  PROVE  /\ IsFiniteSet({o} \X (1 .. SizeOf[o]))
         /\ Cardinality({o} \X (1 .. SizeOf[o])) = SizeOf[o]
<1>1. SizeOf[o] \in Nat \ {0}
  BY SizeOfType
<1>2. IsFiniteSet(1 .. SizeOf[o]) /\ Cardinality(1 .. SizeOf[o]) = SizeOf[o]
  BY <1>1, FS_Interval
<1>3. IsFiniteSet({o}) /\ Cardinality({o}) = 1
  BY FS_Singleton
<1>4. /\ IsFiniteSet({o} \X (1 .. SizeOf[o]))
      /\ Cardinality({o} \X (1 .. SizeOf[o])) = Cardinality({o}) * Cardinality(1 .. SizeOf[o])
  BY <1>2, <1>3, FS_Product
<1>5. 1 * SizeOf[o] = SizeOf[o]
  BY <1>1
<1> QED
  BY <1>2, <1>3, <1>4, <1>5

LEMMA UnitsAreFinite ==
  ASSUME NEW S \in SUBSET Objects
  PROVE  IsFiniteSet(Units(S)) /\ Cardinality(Units(S)) \in Nat
<1> DEFINE f == [o \in S |-> {o} \X (1 .. SizeOf[o])]
           T == {{o} \X (1 .. SizeOf[o]) : o \in S}
<1>1. IsFiniteSet(S)
  BY ObjectsAreFinite, FS_Subset
<1>2. f \in Surjection(S, T)
  BY DEF Surjection
<1>3. IsFiniteSet(T)
  <2> HIDE DEF f, T
  <2> QED
    BY <1>1, <1>2, FS_Surjection
<1>4. \A U \in T : IsFiniteSet(U)
  BY UnitsOfOne
<1>5. IsFiniteSet(UNION T)
  <2> HIDE DEF T
  <2> QED
    BY <1>3, <1>4, FS_UNION
<1> QED
  BY <1>5, FS_CardinalityType DEF Units

(* Sets of objects that have none in common do not share bytes.            *)
LEMMA UnitsOfBoth ==
  ASSUME NEW S \in SUBSET Objects, NEW T \in SUBSET Objects, S \cap T = {}
  PROVE  Cardinality(Units(S \cup T)) = Cardinality(Units(S)) + Cardinality(Units(T))
<1>1. Units(S \cup T) = Units(S) \cup Units(T) /\ Units(S) \cap Units(T) = {}
  BY DEF Units
<1>2. Cardinality(Units(S) \cup Units(T)) =
        Cardinality(Units(S)) + Cardinality(Units(T)) - Cardinality(Units(S) \cap Units(T))
  BY UnitsAreFinite, FS_Union
<1>3. Cardinality(Units(S)) \in Nat /\ Cardinality(Units(T)) \in Nat
  BY UnitsAreFinite
<1>4. Cardinality(Units(S) \cap Units(T)) = 0
  BY <1>1, FS_EmptySet
<1>5. Cardinality(Units(S) \cup Units(T)) = Cardinality(Units(S)) + Cardinality(Units(T))
  BY <1>2, <1>3, <1>4
<1> QED
  BY <1>1, <1>5

LEMMA UnitsAdd ==
  ASSUME NEW S \in SUBSET Objects, NEW o \in Objects, o \notin S
  PROVE  Cardinality(Units(S \cup {o})) = Cardinality(Units(S)) + SizeOf[o]
<1>1. Units({o}) = {o} \X (1 .. SizeOf[o])
  BY DEF Units
<1>2. {o} \in SUBSET Objects /\ S \cap {o} = {}
  OBVIOUS
<1> QED
  BY <1>1, <1>2, UnitsOfBoth, UnitsOfOne

LEMMA UnitsRemove ==
  ASSUME NEW S \in SUBSET Objects, NEW o \in S
  PROVE  /\ Cardinality(Units(S \ {o})) = Cardinality(Units(S)) - SizeOf[o]
         /\ Cardinality(Units(S)) >= SizeOf[o]
<1>1. (S \ {o}) \cup {o} = S /\ S \ {o} \in SUBSET Objects /\ o \in Objects /\ o \notin S \ {o}
  OBVIOUS
<1>2. Cardinality(Units((S \ {o}) \cup {o})) = Cardinality(Units(S \ {o})) + SizeOf[o]
  BY <1>1, UnitsAdd
<1>3. Cardinality(Units(S \ {o})) \in Nat /\ SizeOf[o] \in Nat
  BY <1>1, UnitsAreFinite, SizeOfType
<1>4. Cardinality(Units(S)) = Cardinality(Units(S \ {o})) + SizeOf[o]
  BY <1>1, <1>2
<1> QED
  BY <1>3, <1>4

-----------------------------------------------------------------------------
(* What a step does to the tables: a transaction on current rows.          *)

LEMMA IInvInit == Init => IInv
<1> SUFFICES ASSUME Init PROVE IInv
  OBVIOUS
<1>1. TypeInv
  BY TypeInit
<1>2. BucketCopies /\ ObjectCopies /\ SessionCopies /\ IdsAreOwned
  BY DEF Init, BucketCopies, ObjectCopies, SessionCopies, IdsAreOwned, NoBucket, NoRow,
         HoldsBucket, HoldsObject, HoldsSession, HoldsPending, Creating, Copying
<1>3. QuotaChecked /\ QuotaRespected
  BY DEF Init, QuotaChecked, QuotaRespected, Allocating, Allocated, NoBucket
<1>4. SessionMatchesObject /\ EmptinessChecked /\ ArchivedIsEmpty
  BY DEF Init, SessionMatchesObject, EmptinessChecked, ArchivedIsEmpty, NoBucket, NoRow
<1>5. BytesChecked /\ DeletedMeansNoBytes /\ StrayBytesAreOfCopies
  BY DEF Init, BytesChecked, DeletedMeansNoBytes, StrayBytesAreOfCopies, NoRow
<1>6. CountIsExact
  <2> SUFFICES ASSUME NEW b \in Buckets PROVE bucket[b].count = Cardinality(In(b, {"Available"}))
    BY DEF CountIsExact
  <2>1. In(b, {"Available"}) = {}
    BY DEF Init, In, NoRow
  <2>2. bucket[b].count = 0
    BY DEF Init, NoBucket
  <2> QED
    BY <2>1, <2>2, FS_EmptySet
<1>7. QuotaIsSet
  BY DEF Init, QuotaIsSet, NoBucket
<1>8. CountersMatchObjects
  <2> SUFFICES ASSUME NEW b \in Buckets
               PROVE  /\ bucket[b].reserved = Cardinality(Units(In(b, {"Pending"})))
                      /\ bucket[b].used = Cardinality(Units(In(b, {"Available"})))
    BY BytesAreUnits DEF CountersMatchObjects
  <2>1. In(b, {"Available"}) = {} /\ In(b, {"Pending"}) = {}
    BY DEF Init, In, NoRow
  <2>2. bucket[b].reserved = 0 /\ bucket[b].used = 0
    BY DEF Init, NoBucket
  <2>3. Units({}) = {}
    BY DEF Units
  <2> QED
    BY <2>1, <2>2, <2>3, FS_EmptySet
<1> QED
  BY <1>1, <1>2, <1>3, <1>4, <1>5, <1>6, <1>7, <1>8 DEF IInv

(* The row of bucket b becomes the given one, and no other row changes.    *)
RowBecomes(b, status, quota, used, reserved, count) ==
  /\ bucket'[b].status = status /\ bucket'[b].quota = quota /\ bucket'[b].used = used
  /\ bucket'[b].reserved = reserved /\ bucket'[b].count = count
  /\ bucket'[b].version = bucket[b].version + 1
  /\ \A d \in Buckets \ {b} : bucket'[d] = bucket[d]

ObjectBecomes(o, status) ==
  /\ object'[o].status = status /\ object'[o].version = object[o].version + 1
  /\ \A p \in Objects \ {o} : object'[p] = object[p]

SessionBecomes(o, status) ==
  /\ session'[o].status = status /\ session'[o].version = session[o].version + 1
  /\ \A p \in Objects \ {o} : session'[p] = session[p]

Creates(b) ==
  /\ bucket[b].status = "absent" /\ bucket[b].version = 0
  /\ \E q \in Nat \ {0} : RowBecomes(b, "Active", q, 0, 0, 0)
  /\ UNCHANGED <<object, session>>

Administers(b) ==
  LET row == bucket[b] IN
  /\ \/ /\ row.status = "Active"
        /\ \E q \in Nat \ {0} : q >= Allocated(row)
                          /\ RowBecomes(b, "Active", q, row.used, row.reserved, row.count)
     \/ /\ row.status = "Active" /\ In(b, {"Pending", "Available"}) = {}
        /\ RowBecomes(b, "Archived", row.quota, row.used, row.reserved, row.count)
     \/ /\ row.status = "Archived"
        /\ RowBecomes(b, "Active", row.quota, row.used, row.reserved, row.count)
  /\ UNCHANGED <<object, session>>

Uploads(o) ==
  LET row == bucket[BucketOf[o]] IN
  /\ row.status = "Active" /\ Fits(row, o)
  /\ object[o].status = "absent"
  /\ RowBecomes(BucketOf[o], "Active", row.quota, row.used, row.reserved + SizeOf[o], row.count)
  /\ ObjectBecomes(o, "Pending") /\ SessionBecomes(o, "Pending")

Copies(o) ==
  LET row == bucket[BucketOf[o]] IN
  /\ row.status = "Active" /\ Fits(row, o)
  /\ object[o].status = "absent"
  /\ RowBecomes(BucketOf[o], "Active", row.quota, row.used + SizeOf[o], row.reserved, row.count + 1)
  /\ ObjectBecomes(o, "Available") /\ UNCHANGED session

Fulfils(o) ==
  LET row == bucket[BucketOf[o]] IN
  /\ row.status = "Active" /\ HoldsReserved(row, o)
  /\ object[o].status = "Pending" /\ session[o].status = "Pending"
  /\ RowBecomes(BucketOf[o], "Active", row.quota, row.used + SizeOf[o],
                row.reserved - SizeOf[o], row.count + 1)
  /\ ObjectBecomes(o, "Available") /\ SessionBecomes(o, "Completed")

Fails(o) ==
  LET row == bucket[BucketOf[o]] IN
  /\ row.status = "Active"
  /\ object[o].status = "Pending" /\ session[o].status = "Pending"
  /\ \E r \in Nat : /\ r <= row.reserved
                    /\ HoldsReserved(row, o) => r = row.reserved - SizeOf[o]
                    /\ RowBecomes(BucketOf[o], "Active", row.quota, row.used, r, row.count)
  /\ ObjectBecomes(o, "Failed")
  /\ SessionBecomes(o, "Failed") \/ SessionBecomes(o, "Expired")

Deletes(o) ==
  LET row == bucket[BucketOf[o]] IN
  /\ row.status = "Active" /\ HoldsUsed(row, o)
  /\ object[o].status = "Available"
  /\ RowBecomes(BucketOf[o], "Active", row.quota, row.used - SizeOf[o], row.reserved, row.count - 1)
  /\ ObjectBecomes(o, "Deleted") /\ UNCHANGED session

Edits(o) ==
  /\ object[o].status = "Available"
  /\ ObjectBecomes(o, "Available") /\ UNCHANGED <<bucket, session>>

Transaction ==
  \/ UNCHANGED tables
  \/ \E b \in Buckets : Creates(b) \/ Administers(b)
  \/ \E o \in Objects : Uploads(o) \/ Copies(o) \/ Fulfils(o) \/ Fails(o) \/ Deletes(o) \/ Edits(o)

(* What WriteBucket, WriteObject, WriteSession and InsertObject write.     *)
LEMMA BucketWritten ==
  ASSUME TypeInv, NEW c \in Callers, pc[c] \in HoldsBucket, BucketUnchanged(c),
         NEW row \in BucketRow, WriteBucket(c, row)
  PROVE  RowBecomes(job[c].bucket, row.status, row.quota, row.used, row.reserved, row.count)
<1>1. job[c].bucket \in Buckets
  BY JobsInHand
<1>2. bucket'[job[c].bucket] = [row EXCEPT !.version = bucket[job[c].bucket].version + 1]
  BY <1>1 DEF TypeInv, TypeOK, WriteBucket, BucketUnchanged
<1>3. \A d \in Buckets \ {job[c].bucket} : bucket'[d] = bucket[d]
  BY <1>1 DEF TypeInv, TypeOK, WriteBucket
<1> QED
  BY <1>2, <1>3 DEF RowBecomes, BucketRow

LEMMA ObjectWritten ==
  ASSUME TypeInv, NEW c \in Callers, pc[c] \in OnObject, ObjectUnchanged(c),
         NEW status, WriteObject(c, status)
  PROVE  ObjectBecomes(job[c].object, status)
<1>1. job[c].object \in Objects
  BY JobsInHand
<1> QED
  BY <1>1 DEF TypeInv, TypeOK, WriteObject, ObjectUnchanged, ObjectBecomes

LEMMA SessionWritten ==
  ASSUME TypeInv, NEW c \in Callers, pc[c] \in OnObject, SessionUnchanged(c),
         NEW status, WriteSession(c, status)
  PROVE  SessionBecomes(job[c].object, status)
<1>1. job[c].object \in Objects
  BY JobsInHand
<1> QED
  BY <1>1 DEF TypeInv, TypeOK, WriteSession, SessionUnchanged, SessionBecomes

LEMMA ObjectInserted ==
  ASSUME IInv, NEW o \in Objects, KeyIsFree(o), NEW status, InsertObject(o, status)
  PROVE  object[o].status = "absent" /\ ObjectBecomes(o, status)
<1>1. object[o].status = "absent" /\ object[o].version = 0
  BY DEF IInv, ObjectCopies, KeyIsFree
<1> QED
  BY <1>1 DEF IInv, TypeInv, TypeOK, InsertObject, ObjectBecomes

(* Fields of the rows that transactions write.                             *)
LEMMA CounterFields ==
  ASSUME NEW row \in BucketRow, NEW o \in Objects
  PROVE  /\ \A r \in {Reserving(row, o), Releasing(row, o), Fulfilling(row, o), Adding(row, o),
                      Removing(row, o)} : r.status = row.status /\ r.quota = row.quota
         /\ Reserving(row, o).used = row.used /\ Reserving(row, o).count = row.count
         /\ Reserving(row, o).reserved = row.reserved + SizeOf[o]
         /\ Releasing(row, o).used = row.used /\ Releasing(row, o).count = row.count
         /\ Releasing(row, o).reserved <= row.reserved
         /\ HoldsReserved(row, o) => Releasing(row, o).reserved = row.reserved - SizeOf[o]
         /\ Fulfilling(row, o).used = row.used + SizeOf[o]
         /\ Fulfilling(row, o).reserved = row.reserved - SizeOf[o]
         /\ Fulfilling(row, o).count = row.count + 1
         /\ Adding(row, o).used = row.used + SizeOf[o] /\ Adding(row, o).reserved = row.reserved
         /\ Adding(row, o).count = row.count + 1
         /\ Removing(row, o).used = row.used - SizeOf[o] /\ Removing(row, o).reserved = row.reserved
         /\ Removing(row, o).count = row.count - 1
BY SizeOfType DEF BucketRow, Reserving, Releasing, Fulfilling, Adding, Removing, HoldsReserved

(* Every step writes nothing, or is a transaction on the rows as they are.   *)
LEMMA StepsAreTransactions == IInv /\ [Next]_vars => Transaction
<1> SUFFICES ASSUME IInv, [Next]_vars PROVE Transaction
  OBVIOUS
<1> USE DEF IInv, IInv, Transaction
<1>1. ASSUME NEW b \in Buckets, CreateBucket(b) PROVE Transaction
  <2>1. PICK q \in Quotas : bucket' = [bucket EXCEPT ![b] =
                               [NoBucket EXCEPT !.status = "Active", !.quota = q, !.version = 1]]
    BY <1>1 DEF CreateBucket
  <2>2. q \in Nat \ {0} /\ bucket[b].status = "absent" /\ bucket[b].version = 0
    BY <1>1, QuotasType DEF CreateBucket, BucketCopies
  <2>3. RowBecomes(b, "Active", q, 0, 0, 0)
    <3>1. bucket'[b] = [NoBucket EXCEPT !.status = "Active", !.quota = q, !.version = 1]
          /\ \A d \in Buckets \ {b} : bucket'[d] = bucket[d]
      BY <2>1 DEF TypeInv, TypeOK
    <3>2. PICK new : new = [NoBucket EXCEPT !.status = "Active", !.quota = q, !.version = 1]
      OBVIOUS
    <3>3. /\ new.status = "Active" /\ new.quota = q /\ new.used = 0 /\ new.reserved = 0
          /\ new.count = 0 /\ new.version = 1
      BY <2>2, <3>2 DEF NoBucket
    <3>4. bucket'[b] = new /\ \A d \in Buckets \ {b} : bucket'[d] = bucket[d]
      BY <3>1, <3>2
    <3> QED
      BY <2>2, <3>3, <3>4 DEF RowBecomes
  <2> QED
    BY <1>1, <2>2, <2>3 DEF CreateBucket, Creates
<1>2. ASSUME NEW o \in Objects, Put(o) PROVE Transaction
  BY <1>2 DEF Put
<1>3. ASSUME NEW o \in Objects, Expire(o) PROVE Transaction
  BY <1>3 DEF Expire, tables
<1>4. ASSUME NEW c \in Callers, NEW b \in Buckets, BeginUpdateBucket(c, b)
       PROVE  Transaction
  BY <1>4 DEF BeginUpdateBucket, Begin, tables
<1>5. ASSUME NEW c \in Callers, NEW b \in Buckets, BeginArchiveBucket(c, b)
       PROVE  Transaction
  BY <1>5 DEF BeginArchiveBucket, Begin, tables
<1>6. ASSUME NEW c \in Callers, NEW b \in Buckets, BeginRestoreBucket(c, b)
       PROVE  Transaction
  BY <1>6 DEF BeginRestoreBucket, Begin, tables
<1>7. ASSUME NEW c \in Callers, NEW o \in Objects, BeginCreateUpload(c, o)
       PROVE  Transaction
  BY <1>7 DEF BeginCreateUpload, Begin, tables
<1>8. ASSUME NEW c \in Callers, NEW o \in Objects, BeginCompleteUpload(c, o)
       PROVE  Transaction
  BY <1>8 DEF BeginCompleteUpload, Begin, tables
<1>9. ASSUME NEW c \in Callers, NEW o \in Objects, BeginDeleteObject(c, o)
       PROVE  Transaction
  BY <1>9 DEF BeginDeleteObject, Begin, tables
<1>10. ASSUME NEW c \in Callers, NEW o \in Objects, BeginUpdateMetadata(c, o)
       PROVE  Transaction
  BY <1>10 DEF BeginUpdateMetadata, Begin, tables
<1>11. ASSUME NEW c \in Callers, NEW source \in Objects, NEW o \in Objects,
       BeginCopyObject(c, source, o)
       PROVE  Transaction
  BY <1>11 DEF BeginCopyObject, tables
<1>12. ASSUME NEW c \in Callers, CommitUpdateBucket(c) PROVE Transaction
  <2> DEFINE b == job[c].bucket
             row == seenBucket[c]
  <2>1. b \in Buckets /\ row \in BucketRow
    BY <1>12, JobsInHand DEF CommitUpdateBucket, HoldsBucket, Step, Administering
  <2>2. SUFFICES ASSUME BucketUnchanged(c) PROVE Transaction
    BY <1>12 DEF CommitUpdateBucket, tables
  <2>3. row = bucket[b] /\ row.status = "Active"
    BY <1>12, <2>2 DEF CommitUpdateBucket, BucketCopies, HoldsBucket, Step, Administering
  <2>4. job[c].quota \in Nat \ {0} /\ job[c].quota >= Allocated(row)
    BY <1>12, JobsInHand DEF CommitUpdateBucket, QuotaChecked
  <2>5. RowBecomes(b, row.status, job[c].quota, row.used, row.reserved, row.count)
    <3> DEFINE new == [row EXCEPT !.quota = job[c].quota]
    <3>1. /\ new \in BucketRow /\ new.status = row.status /\ new.quota = job[c].quota
          /\ new.used = row.used /\ new.reserved = row.reserved /\ new.count = row.count
      BY <2>1, <2>4 DEF BucketRow
    <3>2. WriteBucket(c, new)
      BY <1>12, <2>2 DEF CommitUpdateBucket
    <3>3. pc[c] \in HoldsBucket
      BY <1>12 DEF CommitUpdateBucket, HoldsBucket, Step, Administering
    <3> HIDE DEF new
    <3>4. RowBecomes(b, new.status, new.quota, new.used, new.reserved, new.count)
      BY <2>2, <3>1, <3>2, <3>3, BucketWritten
    <3> QED
      BY <3>1, <3>4
  <2> QED
    BY <1>12, <2>1, <2>3, <2>4, <2>5 DEF CommitUpdateBucket, Administers
<1>13. ASSUME NEW c \in Callers, ListForArchive(c) PROVE Transaction
  BY <1>13 DEF ListForArchive
<1>14. ASSUME NEW c \in Callers, CommitArchiveBucket(c) PROVE Transaction
  <2> DEFINE b == job[c].bucket
             row == seenBucket[c]
  <2>1. b \in Buckets /\ row \in BucketRow
    BY <1>14, JobsInHand DEF CommitArchiveBucket, HoldsBucket, Step, Administering
  <2>2. SUFFICES ASSUME BucketUnchanged(c) PROVE Transaction
    BY <1>14 DEF CommitArchiveBucket, tables
  <2>3. row = bucket[b] /\ row.status = "Active"
    BY <1>14, <2>2 DEF CommitArchiveBucket, BucketCopies, HoldsBucket, Step, Administering
  <2>4. In(b, {"Pending", "Available"}) = {}
    BY <1>14, <2>2 DEF CommitArchiveBucket, EmptinessChecked, In
  <2>5. RowBecomes(b, "Archived", row.quota, row.used, row.reserved, row.count)
    <3> DEFINE new == [row EXCEPT !.status = "Archived"]
    <3>1. /\ new \in BucketRow /\ new.status = "Archived" /\ new.quota = row.quota
          /\ new.used = row.used /\ new.reserved = row.reserved /\ new.count = row.count
      BY <2>1 DEF BucketRow
    <3>2. WriteBucket(c, new)
      BY <1>14, <2>2 DEF CommitArchiveBucket
    <3>3. pc[c] \in HoldsBucket
      BY <1>14 DEF CommitArchiveBucket, HoldsBucket, Step, Administering
    <3> HIDE DEF new
    <3>4. RowBecomes(b, new.status, new.quota, new.used, new.reserved, new.count)
      BY <2>2, <3>1, <3>2, <3>3, BucketWritten
    <3> QED
      BY <3>1, <3>4
  <2> QED
    BY <1>14, <2>1, <2>3, <2>4, <2>5 DEF CommitArchiveBucket, Administers
<1>15. ASSUME NEW c \in Callers, CommitRestoreBucket(c) PROVE Transaction
  <2> DEFINE b == job[c].bucket
             row == seenBucket[c]
  <2>1. b \in Buckets /\ row \in BucketRow
    BY <1>15, JobsInHand DEF CommitRestoreBucket, HoldsBucket, Step, Administering
  <2>2. SUFFICES ASSUME BucketUnchanged(c) PROVE Transaction
    BY <1>15 DEF CommitRestoreBucket, tables
  <2>3. row = bucket[b] /\ row.status = "Archived"
    BY <1>15, <2>2 DEF CommitRestoreBucket, BucketCopies, HoldsBucket, Step, Administering
  <2>4. TRUE
    OBVIOUS
  <2>5. RowBecomes(b, "Active", row.quota, row.used, row.reserved, row.count)
    <3> DEFINE new == [row EXCEPT !.status = "Active"]
    <3>1. /\ new \in BucketRow /\ new.status = "Active" /\ new.quota = row.quota
          /\ new.used = row.used /\ new.reserved = row.reserved /\ new.count = row.count
      BY <2>1 DEF BucketRow
    <3>2. WriteBucket(c, new)
      BY <1>15, <2>2 DEF CommitRestoreBucket
    <3>3. pc[c] \in HoldsBucket
      BY <1>15 DEF CommitRestoreBucket, HoldsBucket, Step, Administering
    <3> HIDE DEF new
    <3>4. RowBecomes(b, new.status, new.quota, new.used, new.reserved, new.count)
      BY <2>2, <3>1, <3>2, <3>3, BucketWritten
    <3> QED
      BY <3>1, <3>4
  <2> QED
    BY <1>15, <2>1, <2>3, <2>4, <2>5 DEF CommitRestoreBucket, Administers
<1>16. ASSUME NEW c \in Callers, CheckUploadKey(c) PROVE Transaction
  BY <1>16 DEF CheckUploadKey
<1>17. ASSUME NEW c \in Callers, CommitCreateUpload(c) PROVE Transaction
  <2> DEFINE o == job[c].object
             row == seenBucket[c]
             new == Reserving(row, o)
  <2>1. /\ o \in Objects /\ row \in BucketRow /\ job[c].bucket = BucketOf[o]
        /\ pc[c] \in OnObject /\ pc[c] \in HoldsBucket
    BY <1>17, JobsInHand DEF CommitCreateUpload, TypeInv, JobInv, OnObject, HoldsBucket, Step, Creating
  <2>2. SUFFICES ASSUME BucketUnchanged(c), KeyIsFree(job[c].object) PROVE Transaction
    BY <1>17 DEF CommitCreateUpload, tables
  <2>3. row = bucket[BucketOf[o]] /\ row.status = "Active"
    BY <1>17, <2>1, <2>2 DEF CommitCreateUpload, BucketCopies
  <2>4. Fits(row, o)
    BY <1>17 DEF CommitCreateUpload, QuotaChecked, Allocating
  <2>5. new \in BucketRow
    BY <2>1, <2>2, CountersAreNatural
  <2>6. WriteBucket(c, new)
    BY <1>17, <2>2 DEF CommitCreateUpload
  <2>7. RowBecomes(BucketOf[o], new.status, new.quota, new.used, new.reserved, new.count)
    <3> HIDE DEF new
    <3> QED
      BY <2>1, <2>2, <2>5, <2>6, BucketWritten
  <2>8. object[o].status = "absent" /\ ObjectBecomes(o, "Pending")
    BY <1>17, <2>1, <2>2, ObjectInserted DEF CommitCreateUpload
  <2>9. SessionBecomes(o, "Pending")
    <3>1. session[o].status = "absent" /\ session[o].version = 0
      BY <2>1, <2>8 DEF SessionMatchesObject, SessionCopies, TypeInv, TypeOK, SessionRow
    <3>2. session \in [Objects -> SessionRow]
      BY DEF TypeInv, TypeOK
    <3>3. session' = [session EXCEPT ![o] = [status |-> "Pending", version |-> 1]]
      BY <1>17, <2>2 DEF CommitCreateUpload
    <3> QED
      BY <2>1, <3>1, <3>2, <3>3 DEF SessionBecomes
  <2>10. RowBecomes(BucketOf[o], "Active", row.quota, row.used, row.reserved + SizeOf[o], row.count)
    BY <2>1, <2>3, <2>5, <2>7, CounterFields
  <2> QED
    <3> HIDE DEF o, row, new
    <3>1. Uploads(o)
      BY <2>1, <2>2, <2>3, <2>4, <2>8, <2>9, <2>10 DEF Uploads, o, row
    <3> QED
      BY <2>1, <3>1
<1>18. ASSUME NEW c \in Callers, ReadUploadSession(c) PROVE Transaction
  BY <1>18 DEF ReadUploadSession
<1>19. ASSUME NEW c \in Callers, ReadUploadObject(c) PROVE Transaction
  BY <1>19 DEF ReadUploadObject
<1>20. ASSUME NEW c \in Callers, InspectBytes(c) PROVE Transaction
  BY <1>20 DEF InspectBytes
<1>21. ASSUME NEW c \in Callers, DiscardUpload(c) PROVE Transaction
  BY <1>21 DEF DiscardUpload
<1>22. ASSUME NEW c \in Callers, CommitUpload(c) PROVE Transaction
  <2> DEFINE o == job[c].object
             row == seenBucket[c]
             new == Fulfilling(row, o)
  <2>1. /\ o \in Objects /\ row \in BucketRow /\ job[c].bucket = BucketOf[o]
        /\ pc[c] \in OnObject /\ pc[c] \in HoldsBucket
    BY <1>22, JobsInHand DEF CommitUpload, TypeInv, JobInv, OnObject, HoldsBucket, Step, Completing
  <2>2. SUFFICES ASSUME BucketUnchanged(c), ObjectUnchanged(c), SessionUnchanged(c),
                   HoldsReserved(seenBucket[c], job[c].object) PROVE Transaction
    BY <1>22 DEF CommitUpload, tables
  <2>3. row = bucket[BucketOf[o]] /\ row.status = "Active"
    BY <1>22, <2>1, <2>2 DEF CommitUpload, BucketCopies
  <2>4. object[o].status = "Pending" /\ session[o].status = "Pending"
    BY <1>22, <2>2 DEF CommitUpload, ObjectCopies, SessionCopies, HoldsObject, HoldsSession, HoldsPending
  <2>5. new \in BucketRow
    BY <2>1, <2>2, CountersAreNatural
  <2>6. WriteBucket(c, new)
    BY <1>22, <2>2 DEF CommitUpload
  <2>7. RowBecomes(BucketOf[o], new.status, new.quota, new.used, new.reserved, new.count)
    <3> HIDE DEF new
    <3> QED
      BY <2>1, <2>2, <2>5, <2>6, BucketWritten
  <2>8. ObjectBecomes(o, "Available")
    BY <1>22, <2>1, <2>2, ObjectWritten DEF CommitUpload
  <2>9. SessionBecomes(o, "Completed")
    BY <1>22, <2>1, <2>2, SessionWritten DEF CommitUpload
  <2>10. RowBecomes(BucketOf[o], "Active", row.quota, row.used + SizeOf[o], row.reserved - SizeOf[o], row.count + 1)
    BY <2>1, <2>3, <2>5, <2>7, CounterFields
  <2> QED
    <3> HIDE DEF o, row, new
    <3>1. Fulfils(o)
      BY <2>1, <2>2, <2>3, <2>4, <2>8, <2>9, <2>10 DEF Fulfils, o, row
    <3> QED
      BY <2>1, <3>1
<1>23. ASSUME NEW c \in Callers, FailUpload(c) PROVE Transaction
  <2> DEFINE o == job[c].object
             row == seenBucket[c]
             new == Releasing(row, o)
  <2>1. /\ o \in Objects /\ row \in BucketRow /\ job[c].bucket = BucketOf[o]
        /\ pc[c] \in OnObject /\ pc[c] \in HoldsBucket
    BY <1>23, JobsInHand DEF FailUpload, TypeInv, JobInv, OnObject, HoldsBucket, Step, Completing
  <2>2. SUFFICES ASSUME BucketUnchanged(c), ObjectUnchanged(c), SessionUnchanged(c) PROVE Transaction
    BY <1>23 DEF FailUpload, tables
  <2>3. row = bucket[BucketOf[o]] /\ row.status = "Active"
    BY <1>23, <2>1, <2>2 DEF FailUpload, BucketCopies
  <2>4. object[o].status = "Pending" /\ session[o].status = "Pending"
    BY <1>23, <2>2 DEF FailUpload, ObjectCopies, SessionCopies, HoldsObject, HoldsSession, HoldsPending
  <2>5. new \in BucketRow
    BY <2>1, <2>2, CountersAreNatural
  <2>6. WriteBucket(c, new)
    BY <1>23, <2>2 DEF FailUpload
  <2>7. RowBecomes(BucketOf[o], new.status, new.quota, new.used, new.reserved, new.count)
    <3> HIDE DEF new
    <3> QED
      BY <2>1, <2>2, <2>5, <2>6, BucketWritten
  <2>8. ObjectBecomes(o, "Failed")
    BY <1>23, <2>1, <2>2, ObjectWritten DEF FailUpload
  <2>9. SessionBecomes(o, "Failed") \/ SessionBecomes(o, "Expired")
    BY <1>23, <2>1, <2>2, SessionWritten DEF FailUpload
  <2>10. \E r \in Nat :
            /\ r <= row.reserved
            /\ HoldsReserved(row, o) => r = row.reserved - SizeOf[o]
            /\ RowBecomes(BucketOf[o], "Active", row.quota, row.used, r, row.count)
    <3>1. /\ new.status = row.status /\ new.quota = row.quota /\ new.used = row.used
          /\ new.count = row.count /\ new.reserved <= row.reserved
          /\ HoldsReserved(row, o) => new.reserved = row.reserved - SizeOf[o]
      BY <2>1, CounterFields
    <3>2. new.reserved \in Nat
      BY <2>5 DEF BucketRow
    <3>3. RowBecomes(BucketOf[o], "Active", row.quota, row.used, new.reserved, row.count)
      BY <2>3, <2>7, <3>1
    <3> HIDE DEF new
    <3> QED
      BY <3>1, <3>2, <3>3
  <2> QED
    <3> HIDE DEF o, row, new
    <3>1. Fails(o)
      BY <2>1, <2>2, <2>3, <2>4, <2>8, <2>9, <2>10 DEF Fails, o, row
    <3> QED
      BY <2>1, <3>1
<1>24. ASSUME NEW c \in Callers, ReadCopyTarget(c) PROVE Transaction
  BY <1>24 DEF ReadCopyTarget
<1>25. ASSUME NEW c \in Callers, CheckCopyKey(c) PROVE Transaction
  BY <1>25 DEF CheckCopyKey
<1>26. ASSUME NEW c \in Callers, CopyBytes(c) PROVE Transaction
  BY <1>26 DEF CopyBytes
<1>27. ASSUME NEW c \in Callers, CommitCopyObject(c) PROVE Transaction
  <2> DEFINE o == job[c].object
             row == seenBucket[c]
             new == Adding(row, o)
  <2>1. /\ o \in Objects /\ row \in BucketRow /\ job[c].bucket = BucketOf[o]
        /\ pc[c] \in OnObject /\ pc[c] \in HoldsBucket
    BY <1>27, JobsInHand DEF CommitCopyObject, TypeInv, JobInv, OnObject, HoldsBucket, Step, Copying
  <2>2. SUFFICES ASSUME BucketUnchanged(c), KeyIsFree(job[c].object) PROVE Transaction
    BY <1>27 DEF CommitCopyObject, tables
  <2>3. row = bucket[BucketOf[o]] /\ row.status = "Active"
    BY <1>27, <2>1, <2>2 DEF CommitCopyObject, BucketCopies
  <2>4. Fits(row, o)
    BY <1>27 DEF CommitCopyObject, QuotaChecked, Allocating
  <2>5. new \in BucketRow
    BY <2>1, <2>2, CountersAreNatural
  <2>6. WriteBucket(c, new)
    BY <1>27, <2>2 DEF CommitCopyObject
  <2>7. RowBecomes(BucketOf[o], new.status, new.quota, new.used, new.reserved, new.count)
    <3> HIDE DEF new
    <3> QED
      BY <2>1, <2>2, <2>5, <2>6, BucketWritten
  <2>8. object[o].status = "absent" /\ ObjectBecomes(o, "Available")
    BY <1>27, <2>1, <2>2, ObjectInserted DEF CommitCopyObject
  <2>9. UNCHANGED session
    BY <1>27 DEF CommitCopyObject
  <2>10. RowBecomes(BucketOf[o], "Active", row.quota, row.used + SizeOf[o], row.reserved, row.count + 1)
    BY <2>1, <2>3, <2>5, <2>7, CounterFields
  <2> QED
    <3> HIDE DEF o, row, new
    <3>1. Copies(o)
      BY <2>1, <2>2, <2>3, <2>4, <2>8, <2>9, <2>10 DEF Copies, o, row
    <3> QED
      BY <2>1, <3>1
<1>28. ASSUME NEW c \in Callers, DiscardCopy(c) PROVE Transaction
  BY <1>28 DEF DiscardCopy
<1>29. ASSUME NEW c \in Callers, ReadAvailableObject(c) PROVE Transaction
  BY <1>29 DEF ReadAvailableObject
<1>30. ASSUME NEW c \in Callers, DeleteBytes(c) PROVE Transaction
  BY <1>30 DEF DeleteBytes
<1>31. ASSUME NEW c \in Callers, CommitDeleteObject(c) PROVE Transaction
  <2> DEFINE o == job[c].object
             row == seenBucket[c]
             new == Removing(row, o)
  <2>1. /\ o \in Objects /\ row \in BucketRow /\ job[c].bucket = BucketOf[o]
        /\ pc[c] \in OnObject /\ pc[c] \in HoldsBucket
    BY <1>31, JobsInHand DEF CommitDeleteObject, TypeInv, JobInv, OnObject, HoldsBucket, Step, Deleting
  <2>2. SUFFICES ASSUME BucketUnchanged(c), ObjectUnchanged(c),
                   HoldsUsed(seenBucket[c], job[c].object) PROVE Transaction
    BY <1>31 DEF CommitDeleteObject, tables
  <2>3. row = bucket[BucketOf[o]] /\ row.status = "Active"
    BY <1>31, <2>1, <2>2 DEF CommitDeleteObject, BucketCopies
  <2>4. object[o].status = "Available"
    BY <1>31, <2>2 DEF CommitDeleteObject, ObjectCopies, HoldsObject, HoldsPending
  <2>5. new \in BucketRow
    BY <2>1, <2>2, CountersAreNatural
  <2>6. WriteBucket(c, new)
    BY <1>31, <2>2 DEF CommitDeleteObject
  <2>7. RowBecomes(BucketOf[o], new.status, new.quota, new.used, new.reserved, new.count)
    <3> HIDE DEF new
    <3> QED
      BY <2>1, <2>2, <2>5, <2>6, BucketWritten
  <2>8. ObjectBecomes(o, "Deleted")
    BY <1>31, <2>1, <2>2, ObjectWritten DEF CommitDeleteObject
  <2>9. UNCHANGED session
    BY <1>31 DEF CommitDeleteObject
  <2>10. RowBecomes(BucketOf[o], "Active", row.quota, row.used - SizeOf[o], row.reserved, row.count - 1)
    BY <2>1, <2>3, <2>5, <2>7, CounterFields
  <2> QED
    <3> HIDE DEF o, row, new
    <3>1. Deletes(o)
      BY <2>1, <2>2, <2>3, <2>4, <2>8, <2>9, <2>10 DEF Deletes, o, row
    <3> QED
      BY <2>1, <3>1
<1>32. ASSUME NEW c \in Callers, CommitMetadata(c) PROVE Transaction
  <2> DEFINE o == job[c].object
  <2>1. o \in Objects /\ pc[c] \in OnObject
    BY <1>32, JobsInHand DEF CommitMetadata, OnObject, Editing
  <2>2. SUFFICES ASSUME ObjectUnchanged(c) PROVE Transaction
    BY <1>32 DEF CommitMetadata, tables
  <2>3. object[o].status = "Available"
    BY <1>32, <2>2 DEF CommitMetadata, ObjectCopies, HoldsObject, HoldsPending
  <2>4. ObjectBecomes(o, "Available") /\ UNCHANGED <<bucket, session>>
    BY <1>32, <2>1, <2>2, ObjectWritten DEF CommitMetadata
  <2> QED
    BY <2>1, <2>3, <2>4 DEF Edits
<1>33. ASSUME NEW c \in Callers, Abandon(c) PROVE Transaction
  BY <1>33 DEF Abandon
<1>34. CASE UNCHANGED vars
  BY <1>34 DEF vars
<1> QED
  BY <1>1, <1>2, <1>3, <1>4, <1>5, <1>6, <1>7, <1>8, <1>9, <1>10, <1>11, <1>12, <1>13,
     <1>14, <1>15, <1>16, <1>17, <1>18, <1>19, <1>20, <1>21, <1>22, <1>23, <1>24, <1>25,
     <1>26, <1>27, <1>28, <1>29, <1>30, <1>31, <1>32, <1>33, <1>34 DEF Next,
     BeginRequest, RequestStep

-----------------------------------------------------------------------------
(* What transactions do to the rows others look at.                        *)

(* The transaction that changed the row of a bucket is about that bucket.  *)
LEMMA BucketsChange ==
  ASSUME Transaction, NEW b \in Buckets, bucket'[b] # bucket[b]
  PROVE  \/ Creates(b) \/ Administers(b)
         \/ \E o \in Objects :
              BucketOf[o] = b /\ (Uploads(o) \/ Copies(o) \/ Fulfils(o) \/ Fails(o) \/ Deletes(o))
<1>1. ASSUME NEW d \in Buckets, Creates(d) PROVE d = b
  BY <1>1 DEF Creates, RowBecomes
<1>2. ASSUME NEW d \in Buckets, Administers(d) PROVE d = b
  BY <1>2 DEF Administers, RowBecomes
<1>3. ASSUME NEW o \in Objects, Uploads(o) \/ Copies(o) \/ Fulfils(o) \/ Fails(o) \/ Deletes(o)
      PROVE  BucketOf[o] = b
  BY <1>3 DEF Uploads, Copies, Fulfils, Fails, Deletes, RowBecomes
<1> QED
  BY <1>1, <1>2, <1>3 DEF Transaction, tables, Edits

(* A row that changes gets the next version, and no row disappears.        *)
LEMMA VersionsGrow ==
  ASSUME IInv, Transaction
  PROVE  /\ \A b \in Buckets :
              \/ bucket'[b] = bucket[b]
              \/ bucket'[b].version = bucket[b].version + 1 /\ bucket'[b].status # "absent"
         /\ \A o \in Objects :
              \/ object'[o] = object[o]
              \/ object'[o].version = object[o].version + 1 /\ object'[o].status # "absent"
         /\ \A o \in Objects :
              \/ session'[o] = session[o]
              \/ session'[o].version = session[o].version + 1 /\ session'[o].status # "absent"
<1>1. ASSUME NEW b \in Buckets
      PROVE  \/ bucket'[b] = bucket[b]
             \/ bucket'[b].version = bucket[b].version + 1 /\ bucket'[b].status # "absent"
  <2>1. ASSUME Creates(b) \/ Administers(b)
        PROVE  bucket'[b].version = bucket[b].version + 1 /\ bucket'[b].status # "absent"
    BY <2>1 DEF Creates, Administers, RowBecomes
  <2>2. ASSUME NEW o \in Objects, BucketOf[o] = b,
               Uploads(o) \/ Copies(o) \/ Fulfils(o) \/ Fails(o) \/ Deletes(o)
        PROVE  bucket'[b].version = bucket[b].version + 1 /\ bucket'[b].status # "absent"
    BY <2>2 DEF Uploads, Copies, Fulfils, Fails, Deletes, RowBecomes
  <2> QED
    BY <2>1, <2>2, BucketsChange
<1>2. ASSUME NEW o \in Objects
      PROVE  \/ object'[o] = object[o]
             \/ object'[o].version = object[o].version + 1 /\ object'[o].status # "absent"
  BY DEF Transaction, tables, Creates, Administers, Uploads, Copies, Fulfils, Fails, Deletes, Edits,
         ObjectBecomes
<1>3. ASSUME NEW o \in Objects
      PROVE  \/ session'[o] = session[o]
             \/ session'[o].version = session[o].version + 1 /\ session'[o].status # "absent"
  BY DEF Transaction, tables, Creates, Administers, Uploads, Copies, Fulfils, Fails, Deletes, Edits,
         SessionBecomes
<1> QED
  BY <1>1, <1>2, <1>3

(* The status of an object changes together with the version of its bucket,*)
(* which is active before and after.                                       *)
LEMMA StatusMovesWithBucket ==
  ASSUME IInv, Transaction, NEW o \in Objects, object'[o].status # object[o].status
  PROVE  /\ bucket'[BucketOf[o]].version = bucket[BucketOf[o]].version + 1
         /\ bucket[BucketOf[o]].status = "Active" /\ bucket'[BucketOf[o]].status = "Active"
<1>1. BucketOf[o] \in Buckets
  BY BucketOfType
<1>2. PICK p \in Objects : Uploads(p) \/ Copies(p) \/ Fulfils(p) \/ Fails(p) \/ Deletes(p) \/ Edits(p)
  BY DEF Transaction, tables, Creates, Administers
<1>3. p = o
  BY <1>2 DEF Uploads, Copies, Fulfils, Fails, Deletes, Edits, ObjectBecomes
<1>4. ~Edits(o)
  BY DEF Edits, ObjectBecomes
<1> QED
  BY <1>1, <1>2, <1>3, <1>4 DEF Uploads, Copies, Fulfils, Fails, Deletes, RowBecomes

(* Used and reserved bytes stay within the quota.                          *)
LEMMA QuotaStep == IInv /\ Transaction => QuotaRespected'
<1> SUFFICES ASSUME IInv, Transaction, NEW b \in Buckets
             PROVE  bucket'[b].used + bucket'[b].reserved <= bucket'[b].quota
  BY DEF QuotaRespected, Allocated
<1>1. /\ bucket[b] \in BucketRow
      /\ bucket[b].used + bucket[b].reserved <= bucket[b].quota
  BY DEF IInv, TypeInv, TypeOK, QuotaRespected, Allocated
<1>2. /\ bucket[b].used \in Nat /\ bucket[b].reserved \in Nat /\ bucket[b].quota \in Nat
      /\ \A o \in Objects : SizeOf[o] \in Nat
  BY <1>1, SizeOfType DEF BucketRow
<1>3. CASE bucket'[b] = bucket[b]
  BY <1>1, <1>3
<1>4. CASE Creates(b)
  BY <1>4 DEF Creates, RowBecomes
<1>5. CASE Administers(b)
  <2>1. \E q \in Nat : q >= bucket[b].used + bucket[b].reserved /\ bucket'[b].quota = q
                      /\ bucket'[b].used = bucket[b].used /\ bucket'[b].reserved = bucket[b].reserved
    BY <1>1, <1>2, <1>5 DEF Administers, RowBecomes, Allocated
  <2> QED
    BY <1>2, <2>1
<1>6. ASSUME NEW o \in Objects, BucketOf[o] = b, Uploads(o) \/ Copies(o)
      PROVE  bucket'[b].used + bucket'[b].reserved <= bucket'[b].quota
  BY <1>1, <1>2, <1>6 DEF Uploads, Copies, RowBecomes, Allocated, Fits
<1>7. ASSUME NEW o \in Objects, BucketOf[o] = b, Fulfils(o)
      PROVE  bucket'[b].used + bucket'[b].reserved <= bucket'[b].quota
  BY <1>1, <1>2, <1>7 DEF Fulfils, RowBecomes
<1>8. ASSUME NEW o \in Objects, BucketOf[o] = b, Fails(o)
      PROVE  bucket'[b].used + bucket'[b].reserved <= bucket'[b].quota
  BY <1>1, <1>2, <1>8 DEF Fails, RowBecomes
<1>9. ASSUME NEW o \in Objects, BucketOf[o] = b, Deletes(o)
      PROVE  bucket'[b].used + bucket'[b].reserved <= bucket'[b].quota
  BY <1>1, <1>2, <1>9 DEF Deletes, RowBecomes
<1> QED
  BY <1>3, <1>4, <1>5, <1>6, <1>7, <1>8, <1>9, BucketsChange

(* A session and its object change in the same transaction.                *)
LEMMA SessionStep == IInv /\ Transaction => SessionMatchesObject'
<1> SUFFICES ASSUME IInv, Transaction PROVE SessionMatchesObject'
  OBVIOUS
<1> USE DEF IInv, SessionMatchesObject
<1>1. CASE UNCHANGED <<object, session>>
  BY <1>1
<1>2. ASSUME NEW o \in Objects, Uploads(o) PROVE SessionMatchesObject'
  BY <1>2 DEF Uploads, ObjectBecomes, SessionBecomes
<1>3. ASSUME NEW o \in Objects, Copies(o) PROVE SessionMatchesObject'
  <2>1. session[o].status = "absent"
    BY <1>3 DEF Copies, TypeInv, TypeOK, SessionRow
  <2> QED
    BY <1>3, <2>1 DEF Copies, ObjectBecomes
<1>4. ASSUME NEW o \in Objects, Fulfils(o) PROVE SessionMatchesObject'
  BY <1>4 DEF Fulfils, ObjectBecomes, SessionBecomes
<1>5. ASSUME NEW o \in Objects, Fails(o) PROVE SessionMatchesObject'
  BY <1>5 DEF Fails, ObjectBecomes, SessionBecomes
<1>6. ASSUME NEW o \in Objects, Deletes(o) PROVE SessionMatchesObject'
  BY <1>6 DEF Deletes, ObjectBecomes, TypeInv, TypeOK, SessionRow
<1>7. ASSUME NEW o \in Objects, Edits(o) PROVE SessionMatchesObject'
  BY <1>7 DEF Edits, ObjectBecomes
<1> QED
  BY <1>1, <1>2, <1>3, <1>4, <1>5, <1>6, <1>7 DEF Transaction, tables, Creates, Administers

(* The counter moves with the set of available objects.                    *)
LEMMA CountStep == IInv /\ TypeInv' /\ Transaction => CountIsExact'
<1> SUFFICES ASSUME IInv, TypeInv', Transaction, NEW b \in Buckets
             PROVE  bucket'[b].count = Cardinality(In(b, {"Available"})')
  BY DEF CountIsExact
<1> DEFINE A == In(b, {"Available"})
           new == In(b, {"Available"})'
<1>1. IsFiniteSet(A)
  <2>1. A \in SUBSET Objects
    BY DEF In
  <2> HIDE DEF A
  <2> QED
    BY <2>1, FS_Subset, ObjectsAreFinite
<1>2. bucket[b].count = Cardinality(A) /\ bucket[b].count \in Nat
  BY DEF IInv, CountIsExact, TypeInv, TypeOK, BucketRow
<1>3. CASE bucket'[b].count = bucket[b].count /\ new = A
  <2> HIDE DEF A, new
  <2> QED
    BY <1>2, <1>3 DEF new
<1>4. ASSUME NEW o \in Objects, o \notin A, new = A \cup {o}, bucket'[b].count = bucket[b].count + 1
      PROVE  bucket'[b].count = Cardinality(new)
  <2> HIDE DEF A, new
  <2> QED
    BY <1>1, <1>2, <1>4, FS_AddElement
<1>5. ASSUME NEW o \in A, new = A \ {o}, bucket'[b].count = bucket[b].count - 1
      PROVE  bucket'[b].count = Cardinality(new)
  <2> HIDE DEF A, new
  <2> QED
    BY <1>1, <1>2, <1>5, FS_RemoveElement
<1>6. ASSUME UNCHANGED tables \/ (\E d \in Buckets : Creates(d) \/ Administers(d))
      PROVE  bucket'[b].count = bucket[b].count /\ new = A
  <2>1. CASE UNCHANGED tables
    BY <2>1 DEF tables, In
  <2>2. ASSUME NEW d \in Buckets, Administers(d) PROVE bucket'[b].count = bucket[b].count /\ new = A
    BY <2>2 DEF Administers, RowBecomes, In
  <2>3. ASSUME NEW d \in Buckets, Creates(d) PROVE bucket'[b].count = bucket[b].count /\ new = A
    <3>1. bucket[d].count = 0
      BY <2>3 DEF Creates, IInv, BucketCopies
    <3> QED
      BY <2>3, <3>1 DEF Creates, RowBecomes, In
  <2> QED
    BY <1>6, <2>1, <2>2, <2>3
<1>7. ASSUME NEW o \in Objects,
             \/ BucketOf[o] # b /\ (Uploads(o) \/ Copies(o) \/ Fulfils(o) \/ Fails(o) \/ Deletes(o))
             \/ Edits(o)
      PROVE  bucket'[b].count = bucket[b].count /\ new = A
  BY <1>7 DEF Uploads, Copies, Fulfils, Fails, Deletes, Edits, RowBecomes, ObjectBecomes, In
<1>8. ASSUME NEW o \in Objects, BucketOf[o] = b, Uploads(o) \/ Fails(o)
      PROVE  bucket'[b].count = bucket[b].count /\ new = A
  BY <1>8 DEF Uploads, Fails, RowBecomes, ObjectBecomes, In
<1>9. ASSUME NEW o \in Objects, BucketOf[o] = b, Copies(o) \/ Fulfils(o)
      PROVE  bucket'[b].count = bucket[b].count + 1 /\ o \notin A /\ new = A \cup {o}
  BY <1>9 DEF Copies, Fulfils, RowBecomes, ObjectBecomes, In
<1>10. ASSUME NEW o \in Objects, BucketOf[o] = b, Deletes(o)
       PROVE  bucket'[b].count = bucket[b].count - 1 /\ o \in A /\ new = A \ {o}
  BY <1>10 DEF Deletes, RowBecomes, ObjectBecomes, In
<1> HIDE DEF A, new
<1> QED
  BY <1>3, <1>4, <1>5, <1>6, <1>7, <1>8, <1>9, <1>10 DEF Transaction, new

(* A bucket is created with a quota, and the quota that replaces it is one.*)
LEMMA QuotaIsSetStep == IInv /\ TypeInv' /\ Transaction => QuotaIsSet'
<1> SUFFICES ASSUME IInv, TypeInv', Transaction, NEW b \in Buckets
             PROVE  IF bucket'[b].status = "absent" THEN bucket'[b].quota = 0
                                                    ELSE bucket'[b].quota > 0
  BY DEF QuotaIsSet
<1>1. IF bucket[b].status = "absent" THEN bucket[b].quota = 0 ELSE bucket[b].quota > 0
  BY DEF IInv, QuotaIsSet
<1>2. CASE bucket'[b] = bucket[b]
  BY <1>1, <1>2
<1>3. CASE Creates(b)
  BY <1>3 DEF Creates, RowBecomes
<1>4. CASE Administers(b)
  BY <1>1, <1>4 DEF Administers, RowBecomes
<1>5. ASSUME NEW o \in Objects, BucketOf[o] = b,
             Uploads(o) \/ Copies(o) \/ Fulfils(o) \/ Fails(o) \/ Deletes(o)
      PROVE  bucket'[b].status # "absent" /\ bucket'[b].quota > 0
  BY <1>1, <1>5 DEF Uploads, Copies, Fulfils, Fails, Deletes, RowBecomes
<1> QED
  BY <1>2, <1>3, <1>4, <1>5, BucketsChange

(* The bytes move with the sets of pending and of available objects.       *)
LEMMA CountersStep == IInv /\ TypeInv' /\ Transaction => CountersMatchObjects'
<1> SUFFICES ASSUME IInv, TypeInv', Transaction, NEW b \in Buckets
             PROVE  /\ bucket'[b].reserved = Cardinality(Units(In(b, {"Pending"})'))
                    /\ bucket'[b].used = Cardinality(Units(In(b, {"Available"})'))
  <2>1. ASSUME NEW d, NEW statuses
        PROVE  Ledger!Bytes(d, statuses)' = Cardinality(Units(In(d, statuses)'))
    <3>1. Ledger!In(d, statuses)' = In(d, statuses)'
      BY DEF Ledger!In, In
    <3>2. Ledger!Bytes(d, statuses)' = Ledger!Cardinality(Units(In(d, statuses)'))
      BY <3>1 DEF Ledger!Bytes, Units
    <3> QED
      BY <3>2, LedgerCounts
  <2> QED
    BY <2>1 DEF CountersMatchObjects
<1> DEFINE P == In(b, {"Pending"})
           A == In(b, {"Available"})
           newP == In(b, {"Pending"})'
           newA == In(b, {"Available"})'
           row == bucket[b]
           new == bucket'[b]
<1>1. P \in SUBSET Objects /\ A \in SUBSET Objects
  BY DEF In
<1>2. row.reserved = Cardinality(Units(P)) /\ row.used = Cardinality(Units(A))
  BY BytesAreUnits DEF IInv, CountersMatchObjects
<1>3. /\ row.reserved \in Nat /\ row.used \in Nat /\ new.reserved \in Nat /\ new.used \in Nat
      /\ \A o \in Objects : SizeOf[o] \in Nat
  BY SizeOfType DEF IInv, TypeInv, TypeOK, BucketRow
<1>4. CASE new.reserved = row.reserved /\ new.used = row.used /\ newP = P /\ newA = A
  <2> HIDE DEF P, A, newP, newA
  <2> QED
    BY <1>2, <1>4 DEF newP, newA
<1>5. ASSUME NEW o \in Objects, o \notin P, newP = P \cup {o}, newA = A,
             new.reserved = row.reserved + SizeOf[o], new.used = row.used
      PROVE  new.reserved = Cardinality(Units(newP)) /\ new.used = Cardinality(Units(newA))
  <2> HIDE DEF P, A, newP, newA, row, new
  <2> QED
    BY <1>1, <1>2, <1>5, UnitsAdd
<1>6. ASSUME NEW o \in Objects, o \notin A, newA = A \cup {o}, newP = P,
             new.reserved = row.reserved, new.used = row.used + SizeOf[o]
      PROVE  new.reserved = Cardinality(Units(newP)) /\ new.used = Cardinality(Units(newA))
  <2> HIDE DEF P, A, newP, newA, row, new
  <2> QED
    BY <1>1, <1>2, <1>6, UnitsAdd
<1>7. ASSUME NEW o \in P, o \notin A, newA = A \cup {o}, newP = P \ {o},
             new.reserved = row.reserved - SizeOf[o], new.used = row.used + SizeOf[o]
      PROVE  new.reserved = Cardinality(Units(newP)) /\ new.used = Cardinality(Units(newA))
  <2> HIDE DEF P, A, newP, newA, row, new
  <2> QED
    BY <1>1, <1>2, <1>7, UnitsAdd, UnitsRemove
<1>8. ASSUME NEW o \in P, newA = A, newP = P \ {o}, new.used = row.used,
             row.reserved >= SizeOf[o] => new.reserved = row.reserved - SizeOf[o]
      PROVE  new.reserved = Cardinality(Units(newP)) /\ new.used = Cardinality(Units(newA))
  <2> HIDE DEF P, A, newP, newA, row, new
  <2> QED
    BY <1>1, <1>2, <1>8, UnitsRemove
<1>9. ASSUME NEW o \in A, newA = A \ {o}, newP = P,
             new.reserved = row.reserved, new.used = row.used - SizeOf[o]
      PROVE  new.reserved = Cardinality(Units(newP)) /\ new.used = Cardinality(Units(newA))
  <2> HIDE DEF P, A, newP, newA, row, new
  <2> QED
    BY <1>1, <1>2, <1>9, UnitsRemove
<1>10. ASSUME UNCHANGED tables \/ (\E d \in Buckets : Creates(d) \/ Administers(d))
       PROVE  new.reserved = row.reserved /\ new.used = row.used /\ newP = P /\ newA = A
  <2>1. CASE UNCHANGED tables
    BY <2>1 DEF tables, In
  <2>2. ASSUME NEW d \in Buckets, Administers(d)
        PROVE  new.reserved = row.reserved /\ new.used = row.used /\ newP = P /\ newA = A
    BY <2>2 DEF Administers, RowBecomes, In
  <2>3. ASSUME NEW d \in Buckets, Creates(d)
        PROVE  new.reserved = row.reserved /\ new.used = row.used /\ newP = P /\ newA = A
    <3>1. bucket[d].used = 0 /\ bucket[d].reserved = 0
      BY <2>3 DEF Creates, IInv, BucketCopies
    <3> QED
      BY <2>3, <3>1 DEF Creates, RowBecomes, In
  <2> QED
    BY <1>10, <2>1, <2>2, <2>3
<1>11. ASSUME NEW o \in Objects,
              \/ BucketOf[o] # b /\ (Uploads(o) \/ Copies(o) \/ Fulfils(o) \/ Fails(o) \/ Deletes(o))
              \/ Edits(o)
       PROVE  new.reserved = row.reserved /\ new.used = row.used /\ newP = P /\ newA = A
  BY <1>11 DEF Uploads, Copies, Fulfils, Fails, Deletes, Edits, RowBecomes, ObjectBecomes, In
<1>12. ASSUME NEW o \in Objects, BucketOf[o] = b, Uploads(o)
       PROVE  /\ o \notin P /\ newP = P \cup {o} /\ newA = A
              /\ new.reserved = row.reserved + SizeOf[o] /\ new.used = row.used
  BY <1>12 DEF Uploads, RowBecomes, ObjectBecomes, In
<1>13. ASSUME NEW o \in Objects, BucketOf[o] = b, Copies(o)
       PROVE  /\ o \notin A /\ newA = A \cup {o} /\ newP = P
              /\ new.reserved = row.reserved /\ new.used = row.used + SizeOf[o]
  BY <1>13 DEF Copies, RowBecomes, ObjectBecomes, In
<1>14. ASSUME NEW o \in Objects, BucketOf[o] = b, Fulfils(o)
       PROVE  /\ o \in P /\ o \notin A /\ newA = A \cup {o} /\ newP = P \ {o}
              /\ new.reserved = row.reserved - SizeOf[o] /\ new.used = row.used + SizeOf[o]
  BY <1>14 DEF Fulfils, RowBecomes, ObjectBecomes, In
<1>15. ASSUME NEW o \in Objects, BucketOf[o] = b, Fails(o)
       PROVE  /\ o \in P /\ newA = A /\ newP = P \ {o} /\ new.used = row.used
              /\ row.reserved >= SizeOf[o] => new.reserved = row.reserved - SizeOf[o]
  BY <1>15 DEF Fails, RowBecomes, ObjectBecomes, In, HoldsReserved
<1>16. ASSUME NEW o \in Objects, BucketOf[o] = b, Deletes(o)
       PROVE  /\ o \in A /\ newA = A \ {o} /\ newP = P
              /\ new.reserved = row.reserved /\ new.used = row.used - SizeOf[o]
  BY <1>16 DEF Deletes, RowBecomes, ObjectBecomes, In
<1> HIDE DEF P, A, newP, newA, row, new
<1>17. new.reserved = Cardinality(Units(newP)) /\ new.used = Cardinality(Units(newA))
  BY <1>4, <1>5, <1>6, <1>7, <1>8, <1>9, <1>10, <1>11, <1>12, <1>13, <1>14, <1>15, <1>16
     DEF Transaction, newP, newA, new
<1> QED
  BY <1>17 DEF newP, newA, new

(* No object appears in an archived bucket, and a bucket that becomes      *)
(* archived has none.                                                      *)
LEMMA ArchivedStep == IInv /\ Transaction => ArchivedIsEmpty'
<1> SUFFICES ASSUME IInv, Transaction, NEW b \in Buckets, bucket'[b].status = "Archived",
                    NEW o \in Objects, BucketOf[o] = b, object'[o].status \in {"Pending", "Available"}
             PROVE  FALSE
  BY DEF ArchivedIsEmpty, In
<1>1. object'[o].status = object[o].status
  BY StatusMovesWithBucket
<1>2. bucket[b].status # "Archived"
  BY <1>1 DEF IInv, ArchivedIsEmpty, In
<1>3. bucket'[b] # bucket[b]
  BY <1>2
<1>4. Administers(b)
  <2>1. ~Creates(b)
    BY DEF Creates, RowBecomes
  <2>2. ASSUME NEW p \in Objects, BucketOf[p] = b,
               Uploads(p) \/ Copies(p) \/ Fulfils(p) \/ Fails(p) \/ Deletes(p)
        PROVE  FALSE
    BY <2>2 DEF Uploads, Copies, Fulfils, Fails, Deletes, RowBecomes
  <2> QED
    BY <1>3, <2>1, <2>2, BucketsChange
<1>5. In(b, {"Pending", "Available"}) = {}
  BY <1>2, <1>4 DEF Administers, RowBecomes
<1> QED
  BY <1>1, <1>5 DEF In

-----------------------------------------------------------------------------
(* What a step does to the requests: one of them moves, and its copies of  *)
(* rows are taken in steps that write nothing.                             *)

Unmoved(d) ==
  /\ pc'[d] = pc[d] /\ job'[d] = job[d]
  /\ seenBucket'[d] = seenBucket[d] /\ seenObject'[d] = seenObject[d]
  /\ seenSession'[d] = seenSession[d]

Starts(d) ==
  LET row == bucket[job'[d].bucket] IN
  /\ UNCHANGED tables
  /\ pc'[d] \in {"update_commit", "archive_list", "restore_commit", "create_key",
                 "complete_session", "delete_object", "metadata_object", "copy_target"}
  /\ pc'[d] # "copy_target" =>
       /\ seenBucket'[d] = row
       /\ row.status = IF pc'[d] = "restore_commit" THEN "Archived" ELSE "Active"
  /\ pc'[d] = "update_commit" => job'[d].quota >= Allocated(row) /\ job'[d].quota > 0
  /\ pc'[d] = "create_key" => Fits(row, job'[d].object)
  /\ pc'[d] \in {"create_key", "copy_target"} => IsFresh(job'[d].object)

GoesOn(d) ==
  /\ UNCHANGED tables /\ job'[d] = job[d]
  /\ seenBucket'[d] = seenBucket[d] /\ seenObject'[d] = seenObject[d]
  /\ seenSession'[d] = seenSession[d]
  /\ \/ pc[d] = "archive_list" /\ pc'[d] = "archive_commit" /\ IsEmpty(d)
     \/ pc[d] = "create_key" /\ pc'[d] = "create_commit"
     \/ pc[d] = "complete_inspect" /\ pc'[d] \in {"complete_commit", "complete_discard"}
     \/ pc[d] = "complete_discard" /\ pc'[d] = "complete_fail"
     \/ pc[d] = "copy_key" /\ pc'[d] = "copy_bytes"
     \/ pc[d] = "copy_bytes" /\ pc'[d] = "copy_commit"
     \/ pc[d] = "copy_commit" /\ pc'[d] = "copy_discard"
     \/ /\ pc[d] = "delete_bytes" /\ pc'[d] = "delete_commit"
        /\ bytes'[job[d].object] = "none"

ReadsBucket(d) ==
  LET row == bucket[job[d].bucket] IN
  /\ UNCHANGED tables /\ job'[d] = job[d]
  /\ pc[d] = "copy_target" /\ pc'[d] = "copy_key"
  /\ seenBucket'[d] = row /\ row.status = "Active" /\ Fits(row, job[d].object)

ReadsSession(d) ==
  LET row == session[job[d].object] IN
  /\ UNCHANGED tables /\ job'[d] = job[d] /\ seenBucket'[d] = seenBucket[d]
  /\ pc[d] = "complete_session" /\ pc'[d] = "complete_object"
  /\ seenSession'[d] = row /\ row.status # "absent"

ReadsObject(d) ==
  LET row == object[job[d].object] IN
  /\ UNCHANGED tables /\ job'[d] = job[d]
  /\ seenBucket'[d] = seenBucket[d] /\ seenSession'[d] = seenSession[d]
  /\ seenObject'[d] = row
  /\ \/ /\ pc[d] = "complete_object" /\ pc'[d] \in {"complete_inspect", "complete_expire"}
        /\ row.status = "Pending" /\ seenSession[d].status = "Pending"
     \/ /\ pc[d] = "delete_object" /\ pc'[d] = "delete_bytes" /\ row.status = "Available"
     \/ /\ pc[d] = "metadata_object" /\ pc'[d] = "metadata_commit" /\ row.status = "Available"

Moves(d) ==
  \/ pc'[d] = "idle"
  \/ Starts(d) \/ GoesOn(d) \/ ReadsBucket(d) \/ ReadsSession(d) \/ ReadsObject(d)

OneMoves ==
  \/ \A d \in Callers : Unmoved(d)
  \/ \E c \in Callers : Moves(c) /\ \A d \in Callers \ {c} : Unmoved(d)

(* A request that is answered is idle, and the others are where they were. *)
LEMMA AnswerMoves ==
  ASSUME TypeInv, NEW c \in Callers, Answer(c)
  PROVE  OneMoves
<1>1. pc'[c] = "idle" /\ \A d \in Callers \ {c} : Unmoved(d)
  BY DEF TypeInv, TypeOK, Answer, Unmoved
<1> QED
  BY <1>1 DEF OneMoves, Moves

(* A request that begins has read its bucket.                              *)
LEMMA BeginMoves ==
  ASSUME TypeInv, NEW c \in Callers, NEW j, NEW b \in Buckets, NEW step,
         Goto(c, step), job' = [job EXCEPT ![c] = j], seenBucket' = [seenBucket EXCEPT ![c] = bucket[b]],
         seenObject' = seenObject, seenSession' = seenSession
  PROVE  /\ pc'[c] = step /\ job'[c] = j /\ seenBucket'[c] = bucket[b]
         /\ \A d \in Callers \ {c} : Unmoved(d)
BY DEF TypeInv, TypeOK, Goto, Unmoved

(* A request that goes on keeps its copies.                                *)
LEMMA GotoMoves ==
  ASSUME TypeInv, NEW c \in Callers, NEW step, Goto(c, step),
         UNCHANGED <<job, seenBucket, seenObject, seenSession>>
  PROVE  /\ pc'[c] = step /\ job'[c] = job[c] /\ seenBucket'[c] = seenBucket[c]
         /\ seenObject'[c] = seenObject[c] /\ seenSession'[c] = seenSession[c]
         /\ \A d \in Callers \ {c} : Unmoved(d)
BY DEF TypeInv, TypeOK, Goto, Unmoved

(* Every step moves one request, or none.                                  *)
LEMMA StepsMoveOne == TypeInv /\ [Next]_vars => OneMoves
<1> SUFFICES ASSUME TypeInv, [Next]_vars PROVE OneMoves
  OBVIOUS
<1> USE DEF OneMoves
<1>1. ASSUME NEW b \in Buckets, CreateBucket(b) PROVE OneMoves
  BY <1>1 DEF CreateBucket, requests, Unmoved
<1>2. ASSUME NEW o \in Objects, Put(o) PROVE OneMoves
  BY <1>2 DEF Put, requests, Unmoved
<1>3. ASSUME NEW o \in Objects, Expire(o) PROVE OneMoves
  BY <1>3 DEF Expire, requests, Unmoved
<1>4. ASSUME NEW c \in Callers, NEW b \in Buckets, BeginUpdateBucket(c, b)
       PROVE  OneMoves
  <2>1. PICK q \in Quotas : Begin(c, [NoJob EXCEPT !.bucket = b, !.quota = q], b,
          IsActive(bucket[b]) /\ q >= Allocated(bucket[b]), "update_commit")
    BY <1>4 DEF BeginUpdateBucket
  <2> DEFINE j == [NoJob EXCEPT !.bucket = b, !.quota = q]
  <2>2. j.bucket = b /\ j.quota = q /\ q > 0
    BY QuotasType DEF NoJob
  <2> HIDE DEF j
  <2>3. /\ pc'[c] = "update_commit" /\ job'[c] = j /\ seenBucket'[c] = bucket[b]
        /\ UNCHANGED tables /\ IsActive(bucket[b]) /\ q >= Allocated(bucket[b])
        /\ \A d \in Callers \ {c} : Unmoved(d)
    <3>1. /\ Goto(c, "update_commit") /\ job' = [job EXCEPT ![c] = j]
          /\ seenBucket' = [seenBucket EXCEPT ![c] = bucket[b]]
          /\ seenObject' = seenObject /\ seenSession' = seenSession
      BY <2>1 DEF Begin, j
    <3>2. UNCHANGED tables /\ IsActive(bucket[b]) /\ q >= Allocated(bucket[b])
      BY <2>1 DEF Begin
    <3> QED
      BY <3>1, <3>2, BeginMoves
  <2>4. Starts(c)
    BY <2>2, <2>3 DEF Starts, IsActive
  <2> QED
    BY <2>3, <2>4 DEF Moves
<1>5. ASSUME NEW c \in Callers, NEW b \in Buckets, BeginArchiveBucket(c, b)
       PROVE  OneMoves
  <2> DEFINE j == [NoJob EXCEPT !.bucket = b]
  <2>2. j.bucket = b
    BY DEF NoJob
  <2> HIDE DEF j
  <2>3. /\ pc'[c] = "archive_list" /\ job'[c] = j /\ seenBucket'[c] = bucket[b]
        /\ UNCHANGED tables /\ IsActive(bucket[b])
        /\ \A d \in Callers \ {c} : Unmoved(d)
    <3>1. /\ Goto(c, "archive_list") /\ job' = [job EXCEPT ![c] = j]
          /\ seenBucket' = [seenBucket EXCEPT ![c] = bucket[b]]
          /\ seenObject' = seenObject /\ seenSession' = seenSession
      BY <1>5 DEF BeginArchiveBucket, Begin, j
    <3>2. UNCHANGED tables /\ IsActive(bucket[b])
      BY <1>5 DEF BeginArchiveBucket, Begin
    <3> QED
      BY <3>1, <3>2, BeginMoves
  <2>4. Starts(c)
    BY <2>2, <2>3 DEF Starts, IsActive
  <2> QED
    BY <2>3, <2>4 DEF Moves
<1>6. ASSUME NEW c \in Callers, NEW b \in Buckets, BeginRestoreBucket(c, b)
       PROVE  OneMoves
  <2> DEFINE j == [NoJob EXCEPT !.bucket = b]
  <2>2. j.bucket = b
    BY DEF NoJob
  <2> HIDE DEF j
  <2>3. /\ pc'[c] = "restore_commit" /\ job'[c] = j /\ seenBucket'[c] = bucket[b]
        /\ UNCHANGED tables /\ bucket[b].status = "Archived"
        /\ \A d \in Callers \ {c} : Unmoved(d)
    BY <1>6, <2>2, BeginMoves DEF Begin, j, BeginRestoreBucket
  <2>4. Starts(c)
    BY <2>2, <2>3 DEF Starts, IsActive
  <2> QED
    BY <2>3, <2>4 DEF Moves
<1>7. ASSUME NEW c \in Callers, NEW o \in Objects, BeginCreateUpload(c, o)
       PROVE  OneMoves
  <2>1. BucketOf[o] \in Buckets
    BY BucketOfType
  <2>2. ObjectJob(o).bucket = BucketOf[o] /\ ObjectJob(o).object = o
    BY DEF ObjectJob, NoJob
  <2>3. /\ pc'[c] = "create_key" /\ job'[c] = ObjectJob(o) /\ seenBucket'[c] = bucket[BucketOf[o]]
        /\ UNCHANGED tables /\ IsActive(bucket[BucketOf[o]]) /\ Fits(bucket[BucketOf[o]], o)
        /\ \A d \in Callers \ {c} : Unmoved(d)
    <3>1. /\ Goto(c, "create_key") /\ job' = [job EXCEPT ![c] = ObjectJob(o)]
          /\ seenBucket' = [seenBucket EXCEPT ![c] = bucket[BucketOf[o]]]
          /\ seenObject' = seenObject /\ seenSession' = seenSession
      BY <1>7 DEF Begin, BeginCreateUpload
    <3>2. UNCHANGED tables /\ IsActive(bucket[BucketOf[o]]) /\ Fits(bucket[BucketOf[o]], o)
      BY <1>7 DEF Begin, BeginCreateUpload
    <3> HIDE DEF OneMoves
    <3> QED
      BY <2>1, <3>1, <3>2, BeginMoves
  <2>4. Starts(c)
    BY <1>7, <2>2, <2>3 DEF Starts, IsActive, BeginCreateUpload
  <2> QED
    BY <2>3, <2>4 DEF Moves
<1>8. ASSUME NEW c \in Callers, NEW o \in Objects, BeginCompleteUpload(c, o)
       PROVE  OneMoves
  <2>1. BucketOf[o] \in Buckets
    BY BucketOfType
  <2>2. ObjectJob(o).bucket = BucketOf[o] /\ ObjectJob(o).object = o
    BY DEF ObjectJob, NoJob
  <2>3. /\ pc'[c] = "complete_session" /\ job'[c] = ObjectJob(o) /\ seenBucket'[c] = bucket[BucketOf[o]]
        /\ UNCHANGED tables /\ IsActive(bucket[BucketOf[o]])
        /\ \A d \in Callers \ {c} : Unmoved(d)
    <3>1. /\ Goto(c, "complete_session") /\ job' = [job EXCEPT ![c] = ObjectJob(o)]
          /\ seenBucket' = [seenBucket EXCEPT ![c] = bucket[BucketOf[o]]]
          /\ seenObject' = seenObject /\ seenSession' = seenSession
      BY <1>8 DEF Begin, BeginCompleteUpload
    <3>2. UNCHANGED tables /\ IsActive(bucket[BucketOf[o]])
      BY <1>8 DEF Begin, BeginCompleteUpload
    <3> HIDE DEF OneMoves
    <3> QED
      BY <2>1, <3>1, <3>2, BeginMoves
  <2>4. Starts(c)
    BY <2>2, <2>3 DEF Starts, IsActive
  <2> QED
    BY <2>3, <2>4 DEF Moves
<1>9. ASSUME NEW c \in Callers, NEW o \in Objects, BeginDeleteObject(c, o)
       PROVE  OneMoves
  <2>1. BucketOf[o] \in Buckets
    BY BucketOfType
  <2>2. ObjectJob(o).bucket = BucketOf[o] /\ ObjectJob(o).object = o
    BY DEF ObjectJob, NoJob
  <2>3. /\ pc'[c] = "delete_object" /\ job'[c] = ObjectJob(o) /\ seenBucket'[c] = bucket[BucketOf[o]]
        /\ UNCHANGED tables /\ IsActive(bucket[BucketOf[o]])
        /\ \A d \in Callers \ {c} : Unmoved(d)
    <3>1. /\ Goto(c, "delete_object") /\ job' = [job EXCEPT ![c] = ObjectJob(o)]
          /\ seenBucket' = [seenBucket EXCEPT ![c] = bucket[BucketOf[o]]]
          /\ seenObject' = seenObject /\ seenSession' = seenSession
      BY <1>9 DEF Begin, BeginDeleteObject
    <3>2. UNCHANGED tables /\ IsActive(bucket[BucketOf[o]])
      BY <1>9 DEF Begin, BeginDeleteObject
    <3> HIDE DEF OneMoves
    <3> QED
      BY <2>1, <3>1, <3>2, BeginMoves
  <2>4. Starts(c)
    BY <2>2, <2>3 DEF Starts, IsActive
  <2> QED
    BY <2>3, <2>4 DEF Moves
<1>10. ASSUME NEW c \in Callers, NEW o \in Objects, BeginUpdateMetadata(c, o)
       PROVE  OneMoves
  <2>1. BucketOf[o] \in Buckets
    BY BucketOfType
  <2>2. ObjectJob(o).bucket = BucketOf[o] /\ ObjectJob(o).object = o
    BY DEF ObjectJob, NoJob
  <2>3. /\ pc'[c] = "metadata_object" /\ job'[c] = ObjectJob(o) /\ seenBucket'[c] = bucket[BucketOf[o]]
        /\ UNCHANGED tables /\ IsActive(bucket[BucketOf[o]])
        /\ \A d \in Callers \ {c} : Unmoved(d)
    <3>1. /\ Goto(c, "metadata_object") /\ job' = [job EXCEPT ![c] = ObjectJob(o)]
          /\ seenBucket' = [seenBucket EXCEPT ![c] = bucket[BucketOf[o]]]
          /\ seenObject' = seenObject /\ seenSession' = seenSession
      BY <1>10 DEF Begin, BeginUpdateMetadata
    <3>2. UNCHANGED tables /\ IsActive(bucket[BucketOf[o]])
      BY <1>10 DEF Begin, BeginUpdateMetadata
    <3> HIDE DEF OneMoves
    <3> QED
      BY <2>1, <3>1, <3>2, BeginMoves
  <2>4. Starts(c)
    BY <2>2, <2>3 DEF Starts, IsActive
  <2> QED
    BY <2>3, <2>4 DEF Moves
<1>11. ASSUME NEW c \in Callers, NEW source \in Objects, NEW o \in Objects,
       BeginCopyObject(c, source, o)
       PROVE  OneMoves
  <2>1. CopyJob(source, o).object = o
    BY DEF CopyJob, ObjectJob, NoJob
  <2>2. /\ pc'[c] = "copy_target" /\ job'[c] = CopyJob(source, o) /\ UNCHANGED tables
        /\ IsFresh(o) /\ \A d \in Callers \ {c} : Unmoved(d)
    BY <1>11 DEF BeginCopyObject, Goto, TypeInv, TypeOK, Unmoved
  <2>3. Starts(c)
    BY <2>1, <2>2 DEF Starts
  <2> QED
    BY <2>2, <2>3 DEF Moves
<1>12. ASSUME NEW c \in Callers, CommitUpdateBucket(c) PROVE OneMoves
  BY <1>12, AnswerMoves DEF CommitUpdateBucket, OneMoves
<1>13. ASSUME NEW c \in Callers, ListForArchive(c) PROVE OneMoves
  <2>1. CASE Answer(c)
    BY <2>1, AnswerMoves DEF OneMoves
  <2>2. CASE ~Answer(c)
    <3>1. GoesOn(c) /\ \A d \in Callers \ {c} : Unmoved(d)
      BY <1>13, <2>2, GotoMoves DEF ListForArchive, Proceed, GoesOn, tables
    <3> QED
      BY <3>1 DEF Moves
  <2> QED
    BY <2>1, <2>2
<1>14. ASSUME NEW c \in Callers, CommitArchiveBucket(c) PROVE OneMoves
  BY <1>14, AnswerMoves DEF CommitArchiveBucket, OneMoves
<1>15. ASSUME NEW c \in Callers, CommitRestoreBucket(c) PROVE OneMoves
  BY <1>15, AnswerMoves DEF CommitRestoreBucket, OneMoves
<1>16. ASSUME NEW c \in Callers, CheckUploadKey(c) PROVE OneMoves
  <2>1. CASE Answer(c)
    BY <2>1, AnswerMoves DEF OneMoves
  <2>2. CASE ~Answer(c)
    <3>1. GoesOn(c) /\ \A d \in Callers \ {c} : Unmoved(d)
      BY <1>16, <2>2, GotoMoves DEF CheckUploadKey, Proceed, GoesOn, tables
    <3> QED
      BY <3>1 DEF Moves
  <2> QED
    BY <2>1, <2>2
<1>17. ASSUME NEW c \in Callers, CommitCreateUpload(c) PROVE OneMoves
  BY <1>17, AnswerMoves DEF CommitCreateUpload, OneMoves
<1>18. ASSUME NEW c \in Callers, ReadUploadSession(c) PROVE OneMoves
  <2>1. CASE Answer(c)
    BY <2>1, AnswerMoves DEF OneMoves
  <2>2. CASE ~Answer(c)
    <3>1. ReadsSession(c) /\ \A d \in Callers \ {c} : Unmoved(d)
      BY <1>18, <2>2 DEF ReadUploadSession, Goto, ReadsSession, Unmoved, IsActive, tables, TypeInv, TypeOK
    <3> QED
      BY <3>1 DEF Moves
  <2> QED
    BY <2>1, <2>2
<1>19. ASSUME NEW c \in Callers, ReadUploadObject(c) PROVE OneMoves
  <2>1. CASE Answer(c)
    BY <2>1, AnswerMoves DEF OneMoves
  <2>2. CASE ~Answer(c)
    <3>1. ReadsObject(c) /\ \A d \in Callers \ {c} : Unmoved(d)
      BY <1>19, <2>2 DEF ReadUploadObject, Goto, ReadsObject, Unmoved, IsActive, tables, TypeInv, TypeOK
    <3> QED
      BY <3>1 DEF Moves
  <2> QED
    BY <2>1, <2>2
<1>20. ASSUME NEW c \in Callers, InspectBytes(c) PROVE OneMoves
  <2>1. CASE Answer(c)
    BY <2>1, AnswerMoves DEF OneMoves
  <2>2. CASE ~Answer(c)
    <3>1. GoesOn(c) /\ \A d \in Callers \ {c} : Unmoved(d)
      BY <1>20, <2>2, GotoMoves DEF InspectBytes, Proceed, GoesOn, tables
    <3> QED
      BY <3>1 DEF Moves
  <2> QED
    BY <2>1, <2>2
<1>21. ASSUME NEW c \in Callers, DiscardUpload(c) PROVE OneMoves
  <2>1. CASE Answer(c)
    BY <2>1, AnswerMoves DEF OneMoves
  <2>2. CASE ~Answer(c)
    <3>1. GoesOn(c) /\ \A d \in Callers \ {c} : Unmoved(d)
      BY <1>21, <2>2, GotoMoves DEF DiscardUpload, Proceed, GoesOn, tables
    <3> QED
      BY <3>1 DEF Moves
  <2> QED
    BY <2>1, <2>2
<1>22. ASSUME NEW c \in Callers, CommitUpload(c) PROVE OneMoves
  BY <1>22, AnswerMoves DEF CommitUpload, OneMoves
<1>23. ASSUME NEW c \in Callers, FailUpload(c) PROVE OneMoves
  BY <1>23, AnswerMoves DEF FailUpload, OneMoves
<1>24. ASSUME NEW c \in Callers, ReadCopyTarget(c) PROVE OneMoves
  <2>1. CASE Answer(c)
    BY <2>1, AnswerMoves DEF OneMoves
  <2>2. CASE ~Answer(c)
    <3>1. ReadsBucket(c) /\ \A d \in Callers \ {c} : Unmoved(d)
      BY <1>24, <2>2 DEF ReadCopyTarget, Goto, ReadsBucket, Unmoved, IsActive, tables, TypeInv, TypeOK
    <3> QED
      BY <3>1 DEF Moves
  <2> QED
    BY <2>1, <2>2
<1>25. ASSUME NEW c \in Callers, CheckCopyKey(c) PROVE OneMoves
  <2>1. CASE Answer(c)
    BY <2>1, AnswerMoves DEF OneMoves
  <2>2. CASE ~Answer(c)
    <3>1. GoesOn(c) /\ \A d \in Callers \ {c} : Unmoved(d)
      BY <1>25, <2>2, GotoMoves DEF CheckCopyKey, Proceed, GoesOn, tables
    <3> QED
      BY <3>1 DEF Moves
  <2> QED
    BY <2>1, <2>2
<1>26. ASSUME NEW c \in Callers, CopyBytes(c) PROVE OneMoves
  <2>1. CASE Answer(c)
    BY <2>1, AnswerMoves DEF OneMoves
  <2>2. CASE ~Answer(c)
    <3>1. GoesOn(c) /\ \A d \in Callers \ {c} : Unmoved(d)
      BY <1>26, <2>2, GotoMoves DEF CopyBytes, Proceed, GoesOn, tables
    <3> QED
      BY <3>1 DEF Moves
  <2> QED
    BY <2>1, <2>2
<1>27. ASSUME NEW c \in Callers, CommitCopyObject(c) PROVE OneMoves
  <2>1. CASE Answer(c)
    BY <2>1, AnswerMoves DEF OneMoves
  <2>2. CASE ~Answer(c)
    <3>1. GoesOn(c) /\ \A d \in Callers \ {c} : Unmoved(d)
      BY <1>27, <2>2, GotoMoves DEF CommitCopyObject, Proceed, GoesOn, tables
    <3> QED
      BY <3>1 DEF Moves
  <2> QED
    BY <2>1, <2>2
<1>28. ASSUME NEW c \in Callers, DiscardCopy(c) PROVE OneMoves
  BY <1>28, AnswerMoves DEF DiscardCopy, OneMoves
<1>29. ASSUME NEW c \in Callers, ReadAvailableObject(c) PROVE OneMoves
  <2>1. CASE Answer(c)
    BY <2>1, AnswerMoves DEF OneMoves
  <2>2. CASE ~Answer(c)
    <3>1. ReadsObject(c) /\ \A d \in Callers \ {c} : Unmoved(d)
      BY <1>29, <2>2 DEF ReadAvailableObject, Goto, ReadsObject, Unmoved, IsActive, tables, TypeInv, TypeOK
    <3> QED
      BY <3>1 DEF Moves
  <2> QED
    BY <2>1, <2>2
<1>30. ASSUME NEW c \in Callers, DeleteBytes(c) PROVE OneMoves
  <2>1. bytes'[job[c].object] = "none"
    BY <1>30, JobsInHand DEF DeleteBytes, RemoveBytes, OnObject, Deleting, TypeInv, TypeOK
  <2>2. GoesOn(c) /\ \A d \in Callers \ {c} : Unmoved(d)
    BY <1>30, <2>1, GotoMoves DEF DeleteBytes, GoesOn, tables
  <2> QED
    BY <2>2 DEF Moves
<1>31. ASSUME NEW c \in Callers, CommitDeleteObject(c) PROVE OneMoves
  BY <1>31, AnswerMoves DEF CommitDeleteObject, OneMoves
<1>32. ASSUME NEW c \in Callers, CommitMetadata(c) PROVE OneMoves
  BY <1>32, AnswerMoves DEF CommitMetadata, OneMoves
<1>33. ASSUME NEW c \in Callers, Abandon(c) PROVE OneMoves
  BY <1>33, AnswerMoves DEF Abandon, OneMoves
<1>34. CASE UNCHANGED vars
  BY <1>34 DEF vars, requests, Unmoved
<1> QED
  BY <1>1, <1>2, <1>3, <1>4, <1>5, <1>6, <1>7, <1>8, <1>9, <1>10, <1>11, <1>12, <1>13,
     <1>14, <1>15, <1>16, <1>17, <1>18, <1>19, <1>20, <1>21, <1>22, <1>23, <1>24, <1>25,
     <1>26, <1>27, <1>28, <1>29, <1>30, <1>31, <1>32, <1>33, <1>34 DEF Next,
     BeginRequest, RequestStep

-----------------------------------------------------------------------------
(* Copies of rows, and what was checked on them.                           *)

(* A row at the version that was read, or an earlier one, has not changed. *)
LEMMA SameVersion ==
  ASSUME NEW seen \in Nat, NEW old \in Nat, NEW new, seen <= old, new = old \/ new = old + 1
  PROVE  seen <= new /\ (new = seen => old = seen /\ new = old /\ new # old + 1)
OBVIOUS

(* A number is not above itself.                                           *)
LEMMA NotAbove == ASSUME NEW x, NEW y \in Nat, x = y PROVE x <= y
OBVIOUS

(* A copy of a bucket row is the current row as long as its version is.    *)
LEMMA BucketCopiesStep == IInv /\ TypeInv' /\ Transaction /\ OneMoves => BucketCopies'
<1> SUFFICES ASSUME IInv, TypeInv', Transaction, OneMoves PROVE BucketCopies'
  OBVIOUS
<1>1. ASSUME NEW b \in Buckets, bucket'[b].status = "absent"
      PROVE  /\ bucket'[b].version = 0 /\ bucket'[b].count = 0
             /\ bucket'[b].used = 0 /\ bucket'[b].reserved = 0
  <2>1. bucket'[b] = bucket[b]
    BY <1>1, VersionsGrow
  <2> QED
    BY <1>1, <2>1 DEF IInv, BucketCopies
<1>2. ASSUME NEW d \in Callers, pc'[d] \in HoldsBucket
      PROVE  /\ seenBucket'[d].status = IF pc'[d] = "restore_commit" THEN "Archived" ELSE "Active"
             /\ seenBucket'[d].version <= bucket'[job'[d].bucket].version
             /\ bucket'[job'[d].bucket].version = seenBucket'[d].version
                  => seenBucket'[d] = bucket'[job'[d].bucket]
  <2>0. bucket'[job'[d].bucket] \in BucketRow /\ bucket'[job'[d].bucket].version \in Nat
    <3>1. job'[d].bucket \in Buckets
      BY <1>2, BucketOfType
         DEF TypeInv, JobInv, HoldsBucket, OnObject, Step
    <3> QED
      BY <3>1 DEF TypeInv, TypeOK, BucketRow
  <2>1. CASE Unmoved(d)
    <3>1. job[d].bucket \in Buckets /\ pc[d] \in HoldsBucket
      BY <1>2, <2>1, JobsInHand DEF Unmoved, IInv
    <3>2. /\ seenBucket[d].status = IF pc[d] = "restore_commit" THEN "Archived" ELSE "Active"
          /\ seenBucket[d].version <= bucket[job[d].bucket].version
          /\ bucket[job[d].bucket].version = seenBucket[d].version
               => seenBucket[d] = bucket[job[d].bucket]
      BY <3>1 DEF IInv, BucketCopies, BucketUnchanged
    <3>3. seenBucket[d].version \in Nat /\ bucket[job[d].bucket].version \in Nat
      BY <3>1 DEF IInv, TypeInv, TypeOK, BucketRow
    <3>4. /\ \/ bucket'[job[d].bucket] = bucket[job[d].bucket]
             \/ bucket'[job[d].bucket].version = bucket[job[d].bucket].version + 1
          /\ \/ bucket'[job[d].bucket].version = bucket[job[d].bucket].version
             \/ bucket'[job[d].bucket].version = bucket[job[d].bucket].version + 1
      BY <3>1, VersionsGrow
    <3>5. /\ pc'[d] = pc[d] /\ job'[d].bucket = job[d].bucket /\ seenBucket'[d] = seenBucket[d]
      BY <2>1 DEF Unmoved
    <3>6. /\ seenBucket[d].version <= bucket'[job[d].bucket].version
          /\ bucket'[job[d].bucket].version = seenBucket[d].version
               => /\ bucket[job[d].bucket].version = seenBucket[d].version
                  /\ bucket'[job[d].bucket].version # bucket[job[d].bucket].version + 1
      BY <3>2, <3>3, <3>4, SameVersion
    <3> QED
      BY <3>2, <3>4, <3>5, <3>6, Zenon
  <2>2. CASE Starts(d)
    <3>1. bucket' = bucket
      BY <2>2 DEF Starts, tables
    <3>2. /\ seenBucket'[d] = bucket[job'[d].bucket]
          /\ seenBucket'[d].status = IF pc'[d] = "restore_commit" THEN "Archived" ELSE "Active"
      BY <1>2, <2>2 DEF Starts, HoldsBucket
    <3> QED
      BY <2>0, <3>1, <3>2, NotAbove, Zenon
  <2>3. CASE ReadsBucket(d)
    <3>1. bucket' = bucket
      BY <2>3 DEF ReadsBucket, tables
    <3>2. /\ seenBucket'[d] = bucket[job'[d].bucket] /\ seenBucket'[d].status = "Active"
          /\ pc'[d] = "copy_key"
      BY <2>3 DEF ReadsBucket
    <3>3. pc'[d] # "restore_commit"
      BY <3>2
    <3> QED
      BY <2>0, <3>1, <3>2, <3>3, NotAbove, Zenon
  <2>4. CASE GoesOn(d) \/ ReadsSession(d) \/ ReadsObject(d)
    <3>1. /\ UNCHANGED tables /\ job'[d] = job[d] /\ seenBucket'[d] = seenBucket[d]
          /\ pc[d] \in HoldsBucket /\ pc[d] # "restore_commit" /\ pc'[d] # "restore_commit"
      BY <2>4 DEF GoesOn, ReadsSession, ReadsObject, HoldsBucket, Step, Administering, Creating,
                  Completing, Copying, Deleting, Editing
    <3> QED
      BY <3>1 DEF IInv, BucketCopies, BucketUnchanged, tables
  <2>5. pc'[d] # "idle"
    BY <1>2 DEF HoldsBucket
  <2> QED
    BY <2>1, <2>2, <2>3, <2>4, <2>5 DEF OneMoves, Moves
<1> QED
  BY <1>1, <1>2 DEF BucketCopies, BucketUnchanged

(* A copy of an object row is the current row as long as its version is.         *)
LEMMA ObjectCopiesStep == IInv /\ TypeInv' /\ Transaction /\ OneMoves => ObjectCopies'
<1> SUFFICES ASSUME IInv, TypeInv', Transaction, OneMoves PROVE ObjectCopies'
  OBVIOUS
<1>1. ASSUME NEW o \in Objects, object'[o].status = "absent" PROVE object'[o].version = 0
  <2>1. object'[o] = object[o]
    BY <1>1, VersionsGrow
  <2> QED
    BY <1>1, <2>1 DEF IInv, ObjectCopies
<1>2. ASSUME NEW d \in Callers, pc'[d] \in HoldsObject
      PROVE  /\ seenObject'[d].status = IF pc'[d] \in HoldsPending THEN "Pending" ELSE "Available"
             /\ seenObject'[d].version <= object'[job'[d].object].version
             /\ object'[job'[d].object].version = seenObject'[d].version
                  => seenObject'[d] = object'[job'[d].object]
  <2>0. object'[job'[d].object].version \in Nat
    <3>1. job'[d].object \in Objects
      BY <1>2 DEF TypeInv, JobInv, HoldsObject, HoldsSession, HoldsPending, OnObject, Completing, Deleting, Editing
    <3> QED
      BY <3>1 DEF TypeInv, TypeOK, ObjectRow
  <2>1. CASE Unmoved(d)
    <3>1. job[d].object \in Objects /\ pc[d] \in HoldsObject
      BY <1>2, <2>1
         DEF Unmoved, IInv, TypeInv, JobInv, HoldsObject, HoldsSession, HoldsPending, OnObject, Completing, Deleting, Editing
    <3>2. /\ seenObject[d].status = IF pc[d] \in HoldsPending THEN "Pending" ELSE "Available"
          /\ seenObject[d].version <= object[job[d].object].version
          /\ object[job[d].object].version = seenObject[d].version
               => seenObject[d] = object[job[d].object]
      BY <3>1 DEF IInv, ObjectCopies, ObjectUnchanged
    <3>3. seenObject[d].version \in Nat /\ object[job[d].object].version \in Nat
      BY <3>1 DEF IInv, TypeInv, TypeOK, ObjectRow
    <3>4. \/ object'[job[d].object] = object[job[d].object]
          \/ object'[job[d].object].version = object[job[d].object].version + 1
      BY <3>1, VersionsGrow
    <3> QED
      BY <2>1, <3>2, <3>3, <3>4 DEF Unmoved
  <2>2. ~Starts(d) /\ ~ReadsBucket(d)
    BY <1>2 DEF Starts, ReadsBucket, HoldsObject, HoldsSession, HoldsPending
  <2>3. CASE ReadsObject(d)
    <3>1. object' = object /\ seenObject'[d] = object[job'[d].object]
      BY <2>3 DEF ReadsObject, tables
    <3>2. seenObject'[d].status = IF pc'[d] \in HoldsPending THEN "Pending" ELSE "Available"
      BY <1>2, <2>3 DEF ReadsObject, HoldsObject, HoldsSession, HoldsPending
    <3> QED
      BY <2>0, <3>1, <3>2
  <2>4. CASE GoesOn(d) \/ ReadsSession(d)
    <3>1. /\ UNCHANGED tables /\ job'[d] = job[d] /\ seenObject'[d] = seenObject[d]
          /\ pc[d] \in HoldsObject
      BY <1>2, <2>4 DEF GoesOn, ReadsSession, HoldsObject, HoldsSession, HoldsPending
    <3>2. pc'[d] \in HoldsPending <=> pc[d] \in HoldsPending
      BY <1>2, <2>4 DEF GoesOn, ReadsSession, HoldsObject, HoldsSession, HoldsPending
    <3>3. /\ seenObject[d].status = IF pc[d] \in HoldsPending THEN "Pending" ELSE "Available"
          /\ seenObject[d].version <= object[job[d].object].version
          /\ object[job[d].object].version = seenObject[d].version
               => seenObject[d] = object[job[d].object]
      BY <3>1 DEF IInv, ObjectCopies, ObjectUnchanged
    <3>4. object' = object
      BY <3>1 DEF tables
    <3> QED
      BY <3>1, <3>2, <3>3, <3>4
  <2>5. pc'[d] # "idle"
    BY <1>2 DEF HoldsObject, HoldsSession, HoldsPending
  <2> QED
    BY <2>1, <2>2, <2>3, <2>4, <2>5 DEF OneMoves, Moves
<1> QED
  BY <1>1, <1>2 DEF ObjectCopies, ObjectUnchanged

(* A copy of a session row is the current row as long as its version is.         *)
LEMMA SessionCopiesStep == IInv /\ TypeInv' /\ Transaction /\ OneMoves => SessionCopies'
<1> SUFFICES ASSUME IInv, TypeInv', Transaction, OneMoves PROVE SessionCopies'
  OBVIOUS
<1>1. ASSUME NEW o \in Objects, session'[o].status = "absent" PROVE session'[o].version = 0
  <2>1. session'[o] = session[o]
    BY <1>1, VersionsGrow
  <2> QED
    BY <1>1, <2>1 DEF IInv, SessionCopies
<1>2. ASSUME NEW d \in Callers, pc'[d] \in HoldsSession
      PROVE  /\ seenSession'[d].status # "absent"
             /\ (pc'[d] \in HoldsPending => seenSession'[d].status = "Pending")
             /\ seenSession'[d].version <= session'[job'[d].object].version
             /\ session'[job'[d].object].version = seenSession'[d].version
                  => seenSession'[d] = session'[job'[d].object]
  <2>0. session'[job'[d].object].version \in Nat
    <3>1. job'[d].object \in Objects
      BY <1>2 DEF TypeInv, JobInv, HoldsObject, HoldsSession, HoldsPending, OnObject, Completing, Deleting, Editing
    <3> QED
      BY <3>1 DEF TypeInv, TypeOK, SessionRow
  <2>1. CASE Unmoved(d)
    <3>1. job[d].object \in Objects /\ pc[d] \in HoldsSession
      BY <1>2, <2>1
         DEF Unmoved, IInv, TypeInv, JobInv, HoldsObject, HoldsSession, HoldsPending, OnObject, Completing, Deleting, Editing
    <3>2. /\ seenSession[d].status # "absent"
          /\ (pc[d] \in HoldsPending => seenSession[d].status = "Pending")
          /\ seenSession[d].version <= session[job[d].object].version
          /\ session[job[d].object].version = seenSession[d].version
               => seenSession[d] = session[job[d].object]
      BY <3>1 DEF IInv, SessionCopies, SessionUnchanged
    <3>3. seenSession[d].version \in Nat /\ session[job[d].object].version \in Nat
      BY <3>1 DEF IInv, TypeInv, TypeOK, SessionRow
    <3>4. \/ session'[job[d].object] = session[job[d].object]
          \/ session'[job[d].object].version = session[job[d].object].version + 1
      BY <3>1, VersionsGrow
    <3> QED
      BY <2>1, <3>2, <3>3, <3>4 DEF Unmoved
  <2>2. ~Starts(d) /\ ~ReadsBucket(d)
    BY <1>2 DEF Starts, ReadsBucket, HoldsObject, HoldsSession, HoldsPending
  <2>3. CASE ReadsSession(d)
    <3>1. session' = session /\ seenSession'[d] = session[job'[d].object]
      BY <2>3 DEF ReadsSession, tables
    <3>2. seenSession'[d].status # "absent" /\ pc'[d] \notin HoldsPending
      BY <1>2, <2>3 DEF ReadsSession, HoldsObject, HoldsSession, HoldsPending
    <3> QED
      BY <2>0, <3>1, <3>2
  <2>4. CASE GoesOn(d) \/ ReadsObject(d)
    <3>1. /\ UNCHANGED tables /\ job'[d] = job[d] /\ seenSession'[d] = seenSession[d]
          /\ pc[d] \in HoldsSession
      BY <1>2, <2>4 DEF GoesOn, ReadsObject, HoldsObject, HoldsSession, HoldsPending
    <3>2. (pc'[d] \in HoldsPending /\ pc[d] \notin HoldsPending) => seenSession[d].status = "Pending"
      BY <1>2, <2>4 DEF GoesOn, ReadsObject, HoldsObject, HoldsSession, HoldsPending
    <3>3. /\ seenSession[d].status # "absent"
          /\ (pc[d] \in HoldsPending => seenSession[d].status = "Pending")
          /\ seenSession[d].version <= session[job[d].object].version
          /\ session[job[d].object].version = seenSession[d].version
               => seenSession[d] = session[job[d].object]
      BY <3>1 DEF IInv, SessionCopies, SessionUnchanged
    <3>4. session' = session
      BY <3>1 DEF tables
    <3> QED
      BY <3>1, <3>2, <3>3, <3>4
  <2>5. pc'[d] # "idle"
    BY <1>2 DEF HoldsObject, HoldsSession, HoldsPending
  <2> QED
    BY <2>1, <2>2, <2>3, <2>4, <2>5 DEF OneMoves, Moves
<1> QED
  BY <1>1, <1>2 DEF SessionCopies, SessionUnchanged

(* A request's quota check is about its own copy, which nobody changes.    *)
LEMMA QuotaCheckedStep == IInv /\ OneMoves => QuotaChecked'
<1> SUFFICES ASSUME IInv, OneMoves, NEW d \in Callers
             PROVE  /\ pc'[d] \in Allocating => Fits(seenBucket'[d], job'[d].object)
                    /\ pc'[d] = "update_commit" =>
                         job'[d].quota >= Allocated(seenBucket'[d]) /\ job'[d].quota > 0
  BY DEF QuotaChecked, Fits, Allocated
<1>1. CASE Unmoved(d)
  BY <1>1 DEF Unmoved, IInv, QuotaChecked
<1>2. CASE pc'[d] = "idle"
  BY <1>2 DEF Allocating
<1>3. CASE Starts(d)
  BY <1>3 DEF Starts, Allocating
<1>4. CASE GoesOn(d)
  BY <1>4 DEF GoesOn, Allocating, IInv, QuotaChecked
<1>5. CASE ReadsBucket(d)
  BY <1>5 DEF ReadsBucket, Allocating
<1>6. CASE ReadsSession(d) \/ ReadsObject(d)
  BY <1>6 DEF ReadsSession, ReadsObject, Allocating
<1> QED
  BY <1>1, <1>2, <1>3, <1>4, <1>5, <1>6 DEF OneMoves, Moves

(* Whatever enters the bucket after the emptiness check changes its row.   *)
LEMMA EmptinessStep == IInv /\ TypeInv' /\ Transaction /\ OneMoves => EmptinessChecked'
<1> SUFFICES ASSUME IInv, TypeInv', Transaction, OneMoves,
                    NEW d \in Callers, pc'[d] = "archive_commit",
                    bucket'[job'[d].bucket].version = seenBucket'[d].version,
                    NEW o \in Objects, BucketOf[o] = job'[d].bucket
             PROVE  object'[o].status \notin {"Pending", "Available"}
  BY DEF EmptinessChecked, BucketUnchanged
<1>1. CASE Unmoved(d)
  <2> DEFINE b == job[d].bucket
  <2>1. b \in Buckets /\ pc[d] = "archive_commit"
    BY <1>1, BucketOfType DEF Unmoved
  <2>2. seenBucket[d].version <= bucket[b].version
    BY <2>1 DEF IInv, BucketCopies, HoldsBucket, Step, Administering
  <2>3. /\ seenBucket[d].version \in Nat /\ bucket[b].version \in Nat
        /\ bucket'[b].version = seenBucket[d].version
    BY <1>1, <2>1 DEF Unmoved, IInv, TypeInv, TypeOK, BucketRow
  <2>4. bucket'[b].version = bucket[b].version \/ bucket'[b].version = bucket[b].version + 1
    BY <2>1, VersionsGrow
  <2> HIDE DEF b
  <2>5. bucket'[b].version = bucket[b].version /\ bucket'[b].version # bucket[b].version + 1
    BY <2>2, <2>3, <2>4, SameVersion
  <2>6. object'[o].status = object[o].status
    BY <1>1, <2>5, StatusMovesWithBucket DEF Unmoved, b
  <2>7. BucketUnchanged(d)
    BY <2>3, <2>5 DEF BucketUnchanged, b
  <2> QED
    BY <1>1, <2>1, <2>6, <2>7 DEF Unmoved, IInv, EmptinessChecked, b
<1>2. CASE GoesOn(d)
  BY <1>2 DEF GoesOn, IsEmpty, tables
<1>3. ~Starts(d) /\ ~ReadsBucket(d) /\ ~ReadsSession(d) /\ ~ReadsObject(d)
  BY DEF Starts, ReadsBucket, ReadsSession, ReadsObject
<1> QED
  BY <1>1, <1>2, <1>3 DEF OneMoves, Moves

-----------------------------------------------------------------------------
(* Who makes objects appear and disappear, and what becomes of bytes.      *)

AppearsForOwner ==
  \A o \in Objects : object[o].status = "absent" /\ object'[o].status # "absent" =>
    \E c \in Callers : pc[c] \in {"create_commit", "copy_commit"} /\ job[c].object = o /\ pc'[c] = "idle"

DeletedForRequest ==
  \A o \in Objects : object'[o].status = "Deleted" /\ object[o].status # "Deleted" =>
    /\ \E c \in Callers : pc[c] = "delete_commit" /\ job[c].object = o /\ ObjectUnchanged(c)
    /\ UNCHANGED <<bytes, latePut>>

(* Objects appear for the request that owns their id, and are deleted by one *)
(* that has removed the bytes.                                             *)
LEMMA ObjectsChangeForRequests == IInv /\ [Next]_vars => AppearsForOwner /\ DeletedForRequest
<1> SUFFICES ASSUME IInv, [Next]_vars PROVE AppearsForOwner /\ DeletedForRequest
  OBVIOUS
<1> USE DEF IInv, IInv, AppearsForOwner, DeletedForRequest
<1>1. ASSUME NEW b \in Buckets, CreateBucket(b)
       PROVE  AppearsForOwner /\ DeletedForRequest
  BY <1>1 DEF CreateBucket, tables
<1>2. ASSUME NEW o \in Objects, Put(o) PROVE AppearsForOwner /\ DeletedForRequest
  BY <1>2 DEF Put, tables
<1>3. ASSUME NEW o \in Objects, Expire(o) PROVE AppearsForOwner /\ DeletedForRequest
  BY <1>3 DEF Expire, tables
<1>4. ASSUME NEW c \in Callers, NEW b \in Buckets, BeginUpdateBucket(c, b)
       PROVE  AppearsForOwner /\ DeletedForRequest
  BY <1>4 DEF BeginUpdateBucket, Begin, tables
<1>5. ASSUME NEW c \in Callers, NEW b \in Buckets, BeginArchiveBucket(c, b)
       PROVE  AppearsForOwner /\ DeletedForRequest
  BY <1>5 DEF BeginArchiveBucket, Begin, tables
<1>6. ASSUME NEW c \in Callers, NEW b \in Buckets, BeginRestoreBucket(c, b)
       PROVE  AppearsForOwner /\ DeletedForRequest
  BY <1>6 DEF BeginRestoreBucket, Begin, tables
<1>7. ASSUME NEW c \in Callers, NEW o \in Objects, BeginCreateUpload(c, o)
       PROVE  AppearsForOwner /\ DeletedForRequest
  BY <1>7 DEF BeginCreateUpload, Begin, tables
<1>8. ASSUME NEW c \in Callers, NEW o \in Objects, BeginCompleteUpload(c, o)
       PROVE  AppearsForOwner /\ DeletedForRequest
  BY <1>8 DEF BeginCompleteUpload, Begin, tables
<1>9. ASSUME NEW c \in Callers, NEW o \in Objects, BeginDeleteObject(c, o)
       PROVE  AppearsForOwner /\ DeletedForRequest
  BY <1>9 DEF BeginDeleteObject, Begin, tables
<1>10. ASSUME NEW c \in Callers, NEW o \in Objects, BeginUpdateMetadata(c, o)
       PROVE  AppearsForOwner /\ DeletedForRequest
  BY <1>10 DEF BeginUpdateMetadata, Begin, tables
<1>11. ASSUME NEW c \in Callers, NEW source \in Objects, NEW o \in Objects,
       BeginCopyObject(c, source, o)
       PROVE  AppearsForOwner /\ DeletedForRequest
  BY <1>11 DEF BeginCopyObject, tables
<1>12. ASSUME NEW c \in Callers, CommitUpdateBucket(c)
       PROVE  AppearsForOwner /\ DeletedForRequest
  BY <1>12 DEF CommitUpdateBucket, tables
<1>13. ASSUME NEW c \in Callers, ListForArchive(c)
       PROVE  AppearsForOwner /\ DeletedForRequest
  BY <1>13 DEF ListForArchive, tables
<1>14. ASSUME NEW c \in Callers, CommitArchiveBucket(c)
       PROVE  AppearsForOwner /\ DeletedForRequest
  BY <1>14 DEF CommitArchiveBucket, tables
<1>15. ASSUME NEW c \in Callers, CommitRestoreBucket(c)
       PROVE  AppearsForOwner /\ DeletedForRequest
  BY <1>15 DEF CommitRestoreBucket, tables
<1>16. ASSUME NEW c \in Callers, CheckUploadKey(c)
       PROVE  AppearsForOwner /\ DeletedForRequest
  BY <1>16 DEF CheckUploadKey, tables
<1>17. ASSUME NEW c \in Callers, CommitCreateUpload(c)
       PROVE  AppearsForOwner /\ DeletedForRequest
  <2>1. pc[c] \in {"create_commit", "copy_commit"} /\ job[c].object \in Objects
    BY <1>17, JobsInHand DEF CommitCreateUpload, OnObject, Creating, Copying
  <2>2. CASE UNCHANGED object
    BY <2>2
  <2>3. CASE ~UNCHANGED object
    <3>1. Answer(c) /\ \E status \in {"Pending", "Available"} : InsertObject(job[c].object, status)
      BY <1>17, <2>3 DEF CommitCreateUpload, tables
    <3>2. pc'[c] = "idle"
      BY <3>1 DEF Answer, IInv, TypeInv, TypeOK
    <3> QED
      BY <2>1, <3>1, <3>2 DEF InsertObject, IInv, TypeInv, TypeOK
  <2> QED
    BY <2>2, <2>3
<1>18. ASSUME NEW c \in Callers, ReadUploadSession(c)
       PROVE  AppearsForOwner /\ DeletedForRequest
  BY <1>18 DEF ReadUploadSession, tables
<1>19. ASSUME NEW c \in Callers, ReadUploadObject(c)
       PROVE  AppearsForOwner /\ DeletedForRequest
  BY <1>19 DEF ReadUploadObject, tables
<1>20. ASSUME NEW c \in Callers, InspectBytes(c)
       PROVE  AppearsForOwner /\ DeletedForRequest
  BY <1>20 DEF InspectBytes, tables
<1>21. ASSUME NEW c \in Callers, DiscardUpload(c)
       PROVE  AppearsForOwner /\ DeletedForRequest
  BY <1>21 DEF DiscardUpload, tables
<1>22. ASSUME NEW c \in Callers, CommitUpload(c)
       PROVE  AppearsForOwner /\ DeletedForRequest
  <2>1. job[c].object \in Objects
    BY <1>22, JobsInHand DEF CommitUpload, OnObject, Completing, Deleting, Editing
  <2>2. CASE UNCHANGED object
    BY <2>2
  <2>3. CASE ~UNCHANGED object
    <3>1. WriteObject(c, "Available") /\ ObjectUnchanged(c)
      BY <1>22, <2>3 DEF CommitUpload, tables
    <3>2. object[job[c].object].status # "absent"
      BY <1>22, <3>1 DEF CommitUpload, ObjectCopies, HoldsObject, HoldsPending
    <3> QED
      BY <1>22, <2>1, <3>1, <3>2 DEF WriteObject, TypeInv, TypeOK, CommitUpload
  <2> QED
    BY <2>2, <2>3
<1>23. ASSUME NEW c \in Callers, FailUpload(c)
       PROVE  AppearsForOwner /\ DeletedForRequest
  <2>1. job[c].object \in Objects
    BY <1>23, JobsInHand DEF FailUpload, OnObject, Completing, Deleting, Editing
  <2>2. CASE UNCHANGED object
    BY <2>2
  <2>3. CASE ~UNCHANGED object
    <3>1. WriteObject(c, "Failed") /\ ObjectUnchanged(c)
      BY <1>23, <2>3 DEF FailUpload, tables
    <3>2. object[job[c].object].status # "absent"
      BY <1>23, <3>1 DEF FailUpload, ObjectCopies, HoldsObject, HoldsPending
    <3> QED
      BY <1>23, <2>1, <3>1, <3>2 DEF WriteObject, TypeInv, TypeOK, FailUpload
  <2> QED
    BY <2>2, <2>3
<1>24. ASSUME NEW c \in Callers, ReadCopyTarget(c)
       PROVE  AppearsForOwner /\ DeletedForRequest
  BY <1>24 DEF ReadCopyTarget, tables
<1>25. ASSUME NEW c \in Callers, CheckCopyKey(c)
       PROVE  AppearsForOwner /\ DeletedForRequest
  BY <1>25 DEF CheckCopyKey, tables
<1>26. ASSUME NEW c \in Callers, CopyBytes(c) PROVE AppearsForOwner /\ DeletedForRequest
  BY <1>26 DEF CopyBytes, tables
<1>27. ASSUME NEW c \in Callers, CommitCopyObject(c)
       PROVE  AppearsForOwner /\ DeletedForRequest
  <2>1. pc[c] \in {"create_commit", "copy_commit"} /\ job[c].object \in Objects
    BY <1>27, JobsInHand DEF CommitCopyObject, OnObject, Creating, Copying
  <2>2. CASE UNCHANGED object
    BY <2>2
  <2>3. CASE ~UNCHANGED object
    <3>1. Answer(c) /\ \E status \in {"Pending", "Available"} : InsertObject(job[c].object, status)
      BY <1>27, <2>3 DEF CommitCopyObject, tables
    <3>2. pc'[c] = "idle"
      BY <3>1 DEF Answer, IInv, TypeInv, TypeOK
    <3> QED
      BY <2>1, <3>1, <3>2 DEF InsertObject, IInv, TypeInv, TypeOK
  <2> QED
    BY <2>2, <2>3
<1>28. ASSUME NEW c \in Callers, DiscardCopy(c)
       PROVE  AppearsForOwner /\ DeletedForRequest
  BY <1>28 DEF DiscardCopy, tables
<1>29. ASSUME NEW c \in Callers, ReadAvailableObject(c)
       PROVE  AppearsForOwner /\ DeletedForRequest
  BY <1>29 DEF ReadAvailableObject, tables
<1>30. ASSUME NEW c \in Callers, DeleteBytes(c)
       PROVE  AppearsForOwner /\ DeletedForRequest
  BY <1>30 DEF DeleteBytes, tables
<1>31. ASSUME NEW c \in Callers, CommitDeleteObject(c)
       PROVE  AppearsForOwner /\ DeletedForRequest
  <2>1. job[c].object \in Objects
    BY <1>31, JobsInHand DEF CommitDeleteObject, OnObject, Completing, Deleting, Editing
  <2>2. CASE UNCHANGED object
    BY <2>2
  <2>3. CASE ~UNCHANGED object
    <3>1. WriteObject(c, "Deleted") /\ ObjectUnchanged(c) /\ UNCHANGED <<bytes, latePut>>
      BY <1>31, <2>3 DEF CommitDeleteObject, tables, store, history
    <3>2. object[job[c].object].status # "absent"
      BY <1>31, <3>1 DEF CommitDeleteObject, ObjectCopies, HoldsObject, HoldsPending
    <3> QED
      BY <1>31, <2>1, <3>1, <3>2 DEF WriteObject, TypeInv, TypeOK, CommitDeleteObject
  <2> QED
    BY <2>2, <2>3
<1>32. ASSUME NEW c \in Callers, CommitMetadata(c)
       PROVE  AppearsForOwner /\ DeletedForRequest
  <2>1. job[c].object \in Objects
    BY <1>32, JobsInHand DEF CommitMetadata, OnObject, Completing, Deleting, Editing
  <2>2. CASE UNCHANGED object
    BY <2>2
  <2>3. CASE ~UNCHANGED object
    <3>1. WriteObject(c, "Available") /\ ObjectUnchanged(c)
      BY <1>32, <2>3 DEF CommitMetadata, tables
    <3>2. object[job[c].object].status # "absent"
      BY <1>32, <3>1 DEF CommitMetadata, ObjectCopies, HoldsObject, HoldsPending
    <3> QED
      BY <1>32, <2>1, <3>1, <3>2 DEF WriteObject, TypeInv, TypeOK, CommitMetadata
  <2> QED
    BY <2>2, <2>3
<1>33. ASSUME NEW c \in Callers, Abandon(c) PROVE AppearsForOwner /\ DeletedForRequest
  BY <1>33 DEF Abandon, tables
<1>34. CASE UNCHANGED vars
  BY <1>34 DEF vars, tables
<1> QED
  BY <1>1, <1>2, <1>3, <1>4, <1>5, <1>6, <1>7, <1>8, <1>9, <1>10, <1>11, <1>12, <1>13,
     <1>14, <1>15, <1>16, <1>17, <1>18, <1>19, <1>20, <1>21, <1>22, <1>23, <1>24, <1>25,
     <1>26, <1>27, <1>28, <1>29, <1>30, <1>31, <1>32, <1>33, <1>34 DEF Next,
     BeginRequest, RequestStep

BytesStep ==
  \/ UNCHANGED <<bytes, latePut>>
  \/ \E o \in Objects : Put(o)
  \/ \E c \in Callers : DiscardUpload(c) \/ DeleteBytes(c) \/ DiscardCopy(c) \/ CopyBytes(c)

(* Bytes are written by clients, copies and removals only.                  *)
LEMMA StepsTouchBytes == TypeInv /\ [Next]_vars => BytesStep
<1> SUFFICES ASSUME TypeInv, [Next]_vars PROVE BytesStep
  OBVIOUS
<1> USE DEF BytesStep
<1>1. ASSUME NEW b \in Buckets, CreateBucket(b) PROVE BytesStep
  BY <1>1 DEF CreateBucket, store, history
<1>2. ASSUME NEW o \in Objects, Put(o) PROVE BytesStep
  BY <1>2
<1>3. ASSUME NEW o \in Objects, Expire(o) PROVE BytesStep
  BY <1>3 DEF Expire, history
<1>4. ASSUME NEW c \in Callers, NEW b \in Buckets, BeginUpdateBucket(c, b)
       PROVE  BytesStep
  BY <1>4 DEF BeginUpdateBucket, Begin, store
<1>5. ASSUME NEW c \in Callers, NEW b \in Buckets, BeginArchiveBucket(c, b)
       PROVE  BytesStep
  BY <1>5 DEF BeginArchiveBucket, Begin, store
<1>6. ASSUME NEW c \in Callers, NEW b \in Buckets, BeginRestoreBucket(c, b)
       PROVE  BytesStep
  BY <1>6 DEF BeginRestoreBucket, Begin, store
<1>7. ASSUME NEW c \in Callers, NEW o \in Objects, BeginCreateUpload(c, o)
       PROVE  BytesStep
  BY <1>7 DEF BeginCreateUpload, Begin, store
<1>8. ASSUME NEW c \in Callers, NEW o \in Objects, BeginCompleteUpload(c, o)
       PROVE  BytesStep
  BY <1>8 DEF BeginCompleteUpload, Begin, store
<1>9. ASSUME NEW c \in Callers, NEW o \in Objects, BeginDeleteObject(c, o)
       PROVE  BytesStep
  BY <1>9 DEF BeginDeleteObject, Begin, store
<1>10. ASSUME NEW c \in Callers, NEW o \in Objects, BeginUpdateMetadata(c, o)
       PROVE  BytesStep
  BY <1>10 DEF BeginUpdateMetadata, Begin, store
<1>11. ASSUME NEW c \in Callers, NEW source \in Objects, NEW o \in Objects,
       BeginCopyObject(c, source, o)
       PROVE  BytesStep
  BY <1>11 DEF BeginCopyObject, store
<1>12. ASSUME NEW c \in Callers, CommitUpdateBucket(c) PROVE BytesStep
  BY <1>12 DEF CommitUpdateBucket, store, history
<1>13. ASSUME NEW c \in Callers, ListForArchive(c) PROVE BytesStep
  BY <1>13 DEF ListForArchive, store, history
<1>14. ASSUME NEW c \in Callers, CommitArchiveBucket(c) PROVE BytesStep
  BY <1>14 DEF CommitArchiveBucket, store, history
<1>15. ASSUME NEW c \in Callers, CommitRestoreBucket(c) PROVE BytesStep
  BY <1>15 DEF CommitRestoreBucket, store, history
<1>16. ASSUME NEW c \in Callers, CheckUploadKey(c) PROVE BytesStep
  BY <1>16 DEF CheckUploadKey, store, history
<1>17. ASSUME NEW c \in Callers, CommitCreateUpload(c) PROVE BytesStep
  BY <1>17 DEF CommitCreateUpload, store, history
<1>18. ASSUME NEW c \in Callers, ReadUploadSession(c) PROVE BytesStep
  BY <1>18 DEF ReadUploadSession, store, history
<1>19. ASSUME NEW c \in Callers, ReadUploadObject(c) PROVE BytesStep
  BY <1>19 DEF ReadUploadObject, store, history
<1>20. ASSUME NEW c \in Callers, InspectBytes(c) PROVE BytesStep
  BY <1>20 DEF InspectBytes, store, history
<1>21. ASSUME NEW c \in Callers, DiscardUpload(c) PROVE BytesStep
  BY <1>21
<1>22. ASSUME NEW c \in Callers, CommitUpload(c) PROVE BytesStep
  BY <1>22 DEF CommitUpload, store, history
<1>23. ASSUME NEW c \in Callers, FailUpload(c) PROVE BytesStep
  BY <1>23 DEF FailUpload, store, history
<1>24. ASSUME NEW c \in Callers, ReadCopyTarget(c) PROVE BytesStep
  BY <1>24 DEF ReadCopyTarget, store, history
<1>25. ASSUME NEW c \in Callers, CheckCopyKey(c) PROVE BytesStep
  BY <1>25 DEF CheckCopyKey, store, history
<1>26. ASSUME NEW c \in Callers, CopyBytes(c) PROVE BytesStep
  BY <1>26
<1>27. ASSUME NEW c \in Callers, CommitCopyObject(c) PROVE BytesStep
  BY <1>27 DEF CommitCopyObject, store, history
<1>28. ASSUME NEW c \in Callers, DiscardCopy(c) PROVE BytesStep
  BY <1>28
<1>29. ASSUME NEW c \in Callers, ReadAvailableObject(c) PROVE BytesStep
  BY <1>29 DEF ReadAvailableObject, store, history
<1>30. ASSUME NEW c \in Callers, DeleteBytes(c) PROVE BytesStep
  BY <1>30
<1>31. ASSUME NEW c \in Callers, CommitDeleteObject(c) PROVE BytesStep
  BY <1>31 DEF CommitDeleteObject, store, history
<1>32. ASSUME NEW c \in Callers, CommitMetadata(c) PROVE BytesStep
  BY <1>32 DEF CommitMetadata, store, history
<1>33. ASSUME NEW c \in Callers, Abandon(c) PROVE BytesStep
  BY <1>33 DEF Abandon, store, history
<1>34. CASE UNCHANGED vars
  BY <1>34 DEF vars, store, history
<1> QED
  BY <1>1, <1>2, <1>3, <1>4, <1>5, <1>6, <1>7, <1>8, <1>9, <1>10, <1>11, <1>12, <1>13,
     <1>14, <1>15, <1>16, <1>17, <1>18, <1>19, <1>20, <1>21, <1>22, <1>23, <1>24, <1>25,
     <1>26, <1>27, <1>28, <1>29, <1>30, <1>31, <1>32, <1>33, <1>34 DEF Next,
     BeginRequest, RequestStep

(* Tickets are issued for objects whose row is there.                      *)
LiveArePresent == \A o \in live' : o \in live \/ object'[o].status # "absent"

(* A ticket is issued together with the row of its object.                 *)
LEMMA TicketsAreIssued == TypeInv /\ [Next]_vars => LiveArePresent
<1> SUFFICES ASSUME TypeInv, [Next]_vars PROVE LiveArePresent
  OBVIOUS
<1> USE DEF LiveArePresent
<1>1. ASSUME NEW b \in Buckets, CreateBucket(b) PROVE LiveArePresent
  BY <1>1 DEF CreateBucket, store
<1>2. ASSUME NEW o \in Objects, Put(o) PROVE LiveArePresent
  BY <1>2 DEF Put
<1>3. ASSUME NEW o \in Objects, Expire(o) PROVE LiveArePresent
  BY <1>3 DEF Expire
<1>4. ASSUME NEW c \in Callers, NEW b \in Buckets, BeginUpdateBucket(c, b)
       PROVE  LiveArePresent
  BY <1>4 DEF BeginUpdateBucket, Begin, store
<1>5. ASSUME NEW c \in Callers, NEW b \in Buckets, BeginArchiveBucket(c, b)
       PROVE  LiveArePresent
  BY <1>5 DEF BeginArchiveBucket, Begin, store
<1>6. ASSUME NEW c \in Callers, NEW b \in Buckets, BeginRestoreBucket(c, b)
       PROVE  LiveArePresent
  BY <1>6 DEF BeginRestoreBucket, Begin, store
<1>7. ASSUME NEW c \in Callers, NEW o \in Objects, BeginCreateUpload(c, o)
       PROVE  LiveArePresent
  BY <1>7 DEF BeginCreateUpload, Begin, store
<1>8. ASSUME NEW c \in Callers, NEW o \in Objects, BeginCompleteUpload(c, o)
       PROVE  LiveArePresent
  BY <1>8 DEF BeginCompleteUpload, Begin, store
<1>9. ASSUME NEW c \in Callers, NEW o \in Objects, BeginDeleteObject(c, o)
       PROVE  LiveArePresent
  BY <1>9 DEF BeginDeleteObject, Begin, store
<1>10. ASSUME NEW c \in Callers, NEW o \in Objects, BeginUpdateMetadata(c, o)
       PROVE  LiveArePresent
  BY <1>10 DEF BeginUpdateMetadata, Begin, store
<1>11. ASSUME NEW c \in Callers, NEW source \in Objects, NEW o \in Objects,
       BeginCopyObject(c, source, o)
       PROVE  LiveArePresent
  BY <1>11 DEF BeginCopyObject, store
<1>12. ASSUME NEW c \in Callers, CommitUpdateBucket(c) PROVE LiveArePresent
  BY <1>12 DEF CommitUpdateBucket, store
<1>13. ASSUME NEW c \in Callers, ListForArchive(c) PROVE LiveArePresent
  BY <1>13 DEF ListForArchive, store
<1>14. ASSUME NEW c \in Callers, CommitArchiveBucket(c) PROVE LiveArePresent
  BY <1>14 DEF CommitArchiveBucket, store
<1>15. ASSUME NEW c \in Callers, CommitRestoreBucket(c) PROVE LiveArePresent
  BY <1>15 DEF CommitRestoreBucket, store
<1>16. ASSUME NEW c \in Callers, CheckUploadKey(c) PROVE LiveArePresent
  BY <1>16 DEF CheckUploadKey, store
<1>17. ASSUME NEW c \in Callers, CommitCreateUpload(c) PROVE LiveArePresent
  <2>1. job[c].object \in Objects
    BY <1>17, JobsInHand DEF CommitCreateUpload, OnObject, Creating
  <2> QED
    BY <1>17, <2>1 DEF CommitCreateUpload, InsertObject, TypeInv, TypeOK, tables
<1>18. ASSUME NEW c \in Callers, ReadUploadSession(c) PROVE LiveArePresent
  BY <1>18 DEF ReadUploadSession, store
<1>19. ASSUME NEW c \in Callers, ReadUploadObject(c) PROVE LiveArePresent
  BY <1>19 DEF ReadUploadObject, store
<1>20. ASSUME NEW c \in Callers, InspectBytes(c) PROVE LiveArePresent
  BY <1>20 DEF InspectBytes, store
<1>21. ASSUME NEW c \in Callers, DiscardUpload(c) PROVE LiveArePresent
  BY <1>21 DEF DiscardUpload, store
<1>22. ASSUME NEW c \in Callers, CommitUpload(c) PROVE LiveArePresent
  BY <1>22 DEF CommitUpload, store
<1>23. ASSUME NEW c \in Callers, FailUpload(c) PROVE LiveArePresent
  BY <1>23 DEF FailUpload, store
<1>24. ASSUME NEW c \in Callers, ReadCopyTarget(c) PROVE LiveArePresent
  BY <1>24 DEF ReadCopyTarget, store
<1>25. ASSUME NEW c \in Callers, CheckCopyKey(c) PROVE LiveArePresent
  BY <1>25 DEF CheckCopyKey, store
<1>26. ASSUME NEW c \in Callers, CopyBytes(c) PROVE LiveArePresent
  BY <1>26 DEF CopyBytes, store
<1>27. ASSUME NEW c \in Callers, CommitCopyObject(c) PROVE LiveArePresent
  BY <1>27 DEF CommitCopyObject, store
<1>28. ASSUME NEW c \in Callers, DiscardCopy(c) PROVE LiveArePresent
  BY <1>28 DEF DiscardCopy, store
<1>29. ASSUME NEW c \in Callers, ReadAvailableObject(c) PROVE LiveArePresent
  BY <1>29 DEF ReadAvailableObject, store
<1>30. ASSUME NEW c \in Callers, DeleteBytes(c) PROVE LiveArePresent
  BY <1>30 DEF DeleteBytes, store
<1>31. ASSUME NEW c \in Callers, CommitDeleteObject(c) PROVE LiveArePresent
  BY <1>31 DEF CommitDeleteObject, store
<1>32. ASSUME NEW c \in Callers, CommitMetadata(c) PROVE LiveArePresent
  BY <1>32 DEF CommitMetadata, store
<1>33. ASSUME NEW c \in Callers, Abandon(c) PROVE LiveArePresent
  BY <1>33 DEF Abandon, store
<1>34. CASE UNCHANGED vars
  BY <1>34 DEF vars, store
<1> QED
  BY <1>1, <1>2, <1>3, <1>4, <1>5, <1>6, <1>7, <1>8, <1>9, <1>10, <1>11, <1>12, <1>13,
     <1>14, <1>15, <1>16, <1>17, <1>18, <1>19, <1>20, <1>21, <1>22, <1>23, <1>24, <1>25,
     <1>26, <1>27, <1>28, <1>29, <1>30, <1>31, <1>32, <1>33, <1>34 DEF Next,
     BeginRequest, RequestStep

(* A copy that has written its bytes goes on, or leaves a row, or no bytes, *)
(* or was cut short.                                                       *)
WithBytes == {"copy_commit", "copy_discard"}

CopiesGoOn ==
  /\ interrupted \subseteq interrupted'
  /\ \A d \in Callers : pc[d] \in WithBytes =>
       \/ pc'[d] \in WithBytes /\ job'[d] = job[d]
       \/ job[d].object \in interrupted'
       \/ object'[job[d].object].status # "absent"
       \/ bytes'[job[d].object] = "none"

(* What becomes of a copy under way.                                       *)
LEMMA CopiesAreFollowed == TypeInv /\ [Next]_vars => CopiesGoOn
<1> SUFFICES ASSUME TypeInv, [Next]_vars PROVE CopiesGoOn
  OBVIOUS
<1> USE DEF CopiesGoOn, WithBytes, TypeInv, TypeOK
<1>1. ASSUME NEW b \in Buckets, CreateBucket(b) PROVE CopiesGoOn
  BY <1>1 DEF CreateBucket, requests, history
<1>2. ASSUME NEW o \in Objects, Put(o) PROVE CopiesGoOn
  BY <1>2 DEF Put, requests
<1>3. ASSUME NEW o \in Objects, Expire(o) PROVE CopiesGoOn
  BY <1>3 DEF Expire, requests, history
<1>4. ASSUME NEW c \in Callers, NEW b \in Buckets, BeginUpdateBucket(c, b)
       PROVE  CopiesGoOn
  BY <1>4 DEF BeginUpdateBucket, Begin, Goto
<1>5. ASSUME NEW c \in Callers, NEW b \in Buckets, BeginArchiveBucket(c, b)
       PROVE  CopiesGoOn
  BY <1>5 DEF BeginArchiveBucket, Begin, Goto
<1>6. ASSUME NEW c \in Callers, NEW b \in Buckets, BeginRestoreBucket(c, b)
       PROVE  CopiesGoOn
  BY <1>6 DEF BeginRestoreBucket, Begin, Goto
<1>7. ASSUME NEW c \in Callers, NEW o \in Objects, BeginCreateUpload(c, o)
       PROVE  CopiesGoOn
  BY <1>7 DEF BeginCreateUpload, Begin, Goto
<1>8. ASSUME NEW c \in Callers, NEW o \in Objects, BeginCompleteUpload(c, o)
       PROVE  CopiesGoOn
  BY <1>8 DEF BeginCompleteUpload, Begin, Goto
<1>9. ASSUME NEW c \in Callers, NEW o \in Objects, BeginDeleteObject(c, o)
       PROVE  CopiesGoOn
  BY <1>9 DEF BeginDeleteObject, Begin, Goto
<1>10. ASSUME NEW c \in Callers, NEW o \in Objects, BeginUpdateMetadata(c, o)
       PROVE  CopiesGoOn
  BY <1>10 DEF BeginUpdateMetadata, Begin, Goto
<1>11. ASSUME NEW c \in Callers, NEW source \in Objects, NEW o \in Objects,
       BeginCopyObject(c, source, o)
       PROVE  CopiesGoOn
  BY <1>11 DEF BeginCopyObject, Goto
<1>12. ASSUME NEW c \in Callers, CommitUpdateBucket(c) PROVE CopiesGoOn
  BY <1>12 DEF CommitUpdateBucket, Goto, Answer, Proceed, history
<1>13. ASSUME NEW c \in Callers, ListForArchive(c) PROVE CopiesGoOn
  BY <1>13 DEF ListForArchive, Goto, Answer, Proceed, history
<1>14. ASSUME NEW c \in Callers, CommitArchiveBucket(c) PROVE CopiesGoOn
  BY <1>14 DEF CommitArchiveBucket, Goto, Answer, Proceed, history
<1>15. ASSUME NEW c \in Callers, CommitRestoreBucket(c) PROVE CopiesGoOn
  BY <1>15 DEF CommitRestoreBucket, Goto, Answer, Proceed, history
<1>16. ASSUME NEW c \in Callers, CheckUploadKey(c) PROVE CopiesGoOn
  BY <1>16 DEF CheckUploadKey, Goto, Answer, Proceed, history
<1>17. ASSUME NEW c \in Callers, CommitCreateUpload(c) PROVE CopiesGoOn
  BY <1>17 DEF CommitCreateUpload, Goto, Answer, Proceed, history
<1>18. ASSUME NEW c \in Callers, ReadUploadSession(c) PROVE CopiesGoOn
  BY <1>18 DEF ReadUploadSession, Goto, Answer, Proceed, history
<1>19. ASSUME NEW c \in Callers, ReadUploadObject(c) PROVE CopiesGoOn
  BY <1>19 DEF ReadUploadObject, Goto, Answer, Proceed, history
<1>20. ASSUME NEW c \in Callers, InspectBytes(c) PROVE CopiesGoOn
  BY <1>20 DEF InspectBytes, Goto, Answer, Proceed, history
<1>21. ASSUME NEW c \in Callers, DiscardUpload(c) PROVE CopiesGoOn
  BY <1>21 DEF DiscardUpload, Goto, Answer, Proceed, history
<1>22. ASSUME NEW c \in Callers, CommitUpload(c) PROVE CopiesGoOn
  BY <1>22 DEF CommitUpload, Goto, Answer, Proceed, history
<1>23. ASSUME NEW c \in Callers, FailUpload(c) PROVE CopiesGoOn
  BY <1>23 DEF FailUpload, Goto, Answer, Proceed, history
<1>24. ASSUME NEW c \in Callers, ReadCopyTarget(c) PROVE CopiesGoOn
  BY <1>24 DEF ReadCopyTarget, Goto, Answer, Proceed, history
<1>25. ASSUME NEW c \in Callers, CheckCopyKey(c) PROVE CopiesGoOn
  BY <1>25 DEF CheckCopyKey, Goto, Answer, Proceed, history
<1>26. ASSUME NEW c \in Callers, CopyBytes(c) PROVE CopiesGoOn
  <2>1. ASSUME NEW d \in Callers, pc[d] \in WithBytes PROVE pc'[d] = pc[d] /\ job'[d] = job[d]
    BY <1>26, <2>1 DEF CopyBytes, Goto, Answer, Proceed
  <2> QED
    BY <1>26, <2>1 DEF CopyBytes, history
<1>27. ASSUME NEW c \in Callers, CommitCopyObject(c) PROVE CopiesGoOn
  <2>1. job[c].object \in Objects
    BY <1>27, JobsInHand DEF CommitCopyObject, OnObject, Copying
  <2>2. ASSUME NEW d \in Callers \ {c} PROVE pc'[d] = pc[d] /\ job'[d] = job[d]
    BY <1>27 DEF CommitCopyObject, Goto, Answer
  <2>3. interrupted' = interrupted
    BY <1>27 DEF CommitCopyObject, history
  <2>4. CASE InsertObject(job[c].object, "Available")
    BY <2>1, <2>2, <2>3, <2>4 DEF InsertObject
  <2>5. CASE ~InsertObject(job[c].object, "Available")
    <3>1. pc'[c] = "copy_discard" /\ job'[c] = job[c]
      BY <1>27, <2>5 DEF CommitCopyObject, Goto
    <3> QED
      BY <2>2, <2>3, <3>1
  <2> QED
    BY <2>4, <2>5
<1>28. ASSUME NEW c \in Callers, DiscardCopy(c) PROVE CopiesGoOn
  <2>1. job[c].object \in Objects
    BY <1>28, JobsInHand DEF DiscardCopy, OnObject, Copying
  <2> QED
    BY <1>28, <2>1 DEF DiscardCopy, RemoveBytes, Answer, history
<1>29. ASSUME NEW c \in Callers, ReadAvailableObject(c) PROVE CopiesGoOn
  BY <1>29 DEF ReadAvailableObject, Goto, Answer, Proceed, history
<1>30. ASSUME NEW c \in Callers, DeleteBytes(c) PROVE CopiesGoOn
  BY <1>30 DEF DeleteBytes, Goto, Answer, Proceed, history
<1>31. ASSUME NEW c \in Callers, CommitDeleteObject(c) PROVE CopiesGoOn
  BY <1>31 DEF CommitDeleteObject, Goto, Answer, Proceed, history
<1>32. ASSUME NEW c \in Callers, CommitMetadata(c) PROVE CopiesGoOn
  BY <1>32 DEF CommitMetadata, Goto, Answer, Proceed, history
<1>33. ASSUME NEW c \in Callers, Abandon(c) PROVE CopiesGoOn
  <2>1. ASSUME NEW d \in Callers \ {c} PROVE pc'[d] = pc[d] /\ job'[d] = job[d]
    BY <1>33 DEF Abandon, Answer
  <2>2. interrupted \subseteq interrupted' /\ (pc[c] \in WithBytes => job[c].object \in interrupted')
    BY <1>33 DEF Abandon
  <2> QED
    BY <2>1, <2>2
<1>34. CASE UNCHANGED vars
  BY <1>34 DEF vars, requests, history
<1> QED
  BY <1>1, <1>2, <1>3, <1>4, <1>5, <1>6, <1>7, <1>8, <1>9, <1>10, <1>11, <1>12, <1>13,
     <1>14, <1>15, <1>16, <1>17, <1>18, <1>19, <1>20, <1>21, <1>22, <1>23, <1>24, <1>25,
     <1>26, <1>27, <1>28, <1>29, <1>30, <1>31, <1>32, <1>33, <1>34 DEF Next,
     BeginRequest, RequestStep

-----------------------------------------------------------------------------
(* Ids and bytes.                                                          *)

(* A fresh id is given to one request, and its row is that request's.      *)
LEMMA IdsStep == IInv /\ TypeInv' /\ Transaction /\ OneMoves /\ AppearsForOwner => IdsAreOwned'
<1> SUFFICES ASSUME IInv, TypeInv', Transaction, OneMoves, AppearsForOwner,
                    NEW d \in Callers, pc'[d] \in Creating \cup Copying
             PROVE  /\ object'[job'[d].object].status = "absent"
                    /\ \A e \in Callers :
                         pc'[e] \in Creating \cup Copying /\ job'[e].object = job'[d].object => e = d
  BY DEF IdsAreOwned
<1> DEFINE Naming == Creating \cup Copying
<1>1. ASSUME NEW e \in Callers, pc'[e] \in Naming
      PROVE  \/ Unmoved(e) /\ pc[e] \in Naming
             \/ UNCHANGED tables /\ job'[e] = job[e] /\ pc[e] \in Naming
             \/ UNCHANGED tables /\ IsFresh(job'[e].object)
  <2>1. pc'[e] # "idle" /\ ~ReadsSession(e) /\ ~ReadsObject(e)
    BY <1>1 DEF ReadsSession, ReadsObject, Creating, Copying
  <2>2. CASE Unmoved(e)
    BY <1>1, <2>2 DEF Unmoved
  <2>3. CASE Starts(e)
    BY <1>1, <2>3 DEF Starts, Creating, Copying
  <2>4. CASE GoesOn(e) \/ ReadsBucket(e)
    BY <1>1, <2>4 DEF GoesOn, ReadsBucket, Creating, Copying
  <2> QED
    BY <2>1, <2>2, <2>3, <2>4 DEF OneMoves, Moves
<1>2. object'[job'[d].object].status = "absent"
  <2>1. CASE Unmoved(d) /\ pc[d] \in Naming
    <3>1. job[d].object \in Objects /\ object[job[d].object].status = "absent"
      BY <2>1 DEF IInv, TypeInv, JobInv, IdsAreOwned, OnObject
    <3>2. ASSUME NEW c \in Callers, pc[c] \in {"create_commit", "copy_commit"},
                 job[c].object = job[d].object
          PROVE  c = d
      BY <2>1, <3>2 DEF IInv, IdsAreOwned, Creating, Copying
    <3>3. pc'[d] # "idle"
      BY DEF Creating, Copying
    <3> QED
      BY <2>1, <3>1, <3>2, <3>3 DEF AppearsForOwner, Unmoved
  <2>2. CASE UNCHANGED tables /\ job'[d] = job[d] /\ pc[d] \in Naming
    BY <2>2 DEF tables, IInv, IdsAreOwned
  <2>3. CASE UNCHANGED tables /\ IsFresh(job'[d].object)
    BY <2>3 DEF tables, IsFresh
  <2> QED
    BY <1>1, <2>1, <2>2, <2>3
<1>3. ASSUME NEW e \in Callers, pc'[e] \in Naming, job'[e].object = job'[d].object, e # d
      PROVE  FALSE
  <2>1. Unmoved(d) \/ Unmoved(e)
    BY <1>3 DEF OneMoves
  <2>2. Unmoved(d) => pc[d] \in Naming
    BY DEF Unmoved
  <2>3. Unmoved(e) => pc[e] \in Naming
    BY <1>3 DEF Unmoved
  <2>4. ~(job'[d] = job[d] /\ pc[d] \in Naming /\ job'[e] = job[e] /\ pc[e] \in Naming)
    BY <1>3 DEF IInv, IdsAreOwned
  <2>5. ASSUME Unmoved(d), IsFresh(job'[e].object) PROVE FALSE
    BY <1>3, <2>5 DEF Unmoved, IsFresh
  <2>6. ASSUME Unmoved(e), IsFresh(job'[d].object) PROVE FALSE
    BY <1>3, <2>6 DEF Unmoved, IsFresh
  <2> QED
    BY <1>1, <1>3, <2>1, <2>2, <2>3, <2>4, <2>5, <2>6 DEF Unmoved
<1> QED
  BY <1>2, <1>3

(* Bytes of a settled object that are gone come back by a late PUT only.   *)
LEMMA GoneStaysGone ==
  ASSUME IInv, BytesStep, NEW o \in Objects, object[o].status \in {"Available", "Deleted"},
         bytes[o] = "none" \/ o \in latePut
  PROVE  bytes'[o] = "none" \/ o \in latePut'
<1>1. bytes \in [Objects -> {"none", "good", "bad"}]
  BY DEF IInv, TypeInv, TypeOK
<1>2. CASE UNCHANGED <<bytes, latePut>>
  BY <1>2
<1>3. ASSUME NEW p \in Objects, Put(p) PROVE bytes'[o] = "none" \/ o \in latePut'
  <2>1. session[o].status # "Pending"
    BY DEF IInv, SessionMatchesObject
  <2> QED
    BY <1>1, <1>3, <2>1 DEF Put
<1>4. ASSUME NEW c \in Callers, DiscardUpload(c) \/ DeleteBytes(c) \/ DiscardCopy(c)
      PROVE  bytes'[o] = "none" \/ o \in latePut'
  BY <1>1, <1>4 DEF DiscardUpload, DeleteBytes, DiscardCopy, RemoveBytes, history
<1>5. ASSUME NEW c \in Callers, CopyBytes(c) PROVE bytes'[o] = "none" \/ o \in latePut'
  <2>1. job[c].object # o
    BY <1>5 DEF CopyBytes, IInv, IdsAreOwned, Copying
  <2> QED
    BY <1>1, <1>5, <2>1 DEF CopyBytes, history
<1> QED
  BY <1>2, <1>3, <1>4, <1>5 DEF BytesStep

(* A delete that will find the row unchanged has removed the bytes.        *)
LEMMA BytesCheckedStep ==
  IInv /\ TypeInv' /\ Transaction /\ OneMoves /\ BytesStep /\ LiveArePresent => BytesChecked'
<1> SUFFICES ASSUME IInv, TypeInv', Transaction, OneMoves, BytesStep, LiveArePresent
             PROVE  BytesChecked'
  OBVIOUS
<1>1. ASSUME NEW o \in live' PROVE object'[o].status # "absent"
  <2>1. o \in Objects
    BY DEF TypeInv, TypeOK
  <2> QED
    BY <2>1, VersionsGrow DEF LiveArePresent, IInv, BytesChecked
<1>2. ASSUME NEW d \in Callers, pc'[d] = "delete_commit",
             object'[job'[d].object].version = seenObject'[d].version
      PROVE  bytes'[job'[d].object] = "none" \/ job'[d].object \in latePut'
  <2>1. CASE GoesOn(d)
    BY <1>2, <2>1 DEF GoesOn
  <2>2. CASE Unmoved(d)
    <3> DEFINE o == job[d].object
    <3>1. o \in Objects /\ pc[d] = "delete_commit"
      BY <1>2, <2>2, JobsInHand DEF Unmoved, IInv, OnObject, Deleting
    <3>2. /\ seenObject[d].version <= object[o].version /\ seenObject[d].status = "Available"
          /\ object[o].version = seenObject[d].version => seenObject[d] = object[o]
      BY <3>1 DEF IInv, ObjectCopies, HoldsObject, HoldsPending, ObjectUnchanged
    <3>3. seenObject[d].version \in Nat /\ object[o].version \in Nat
      BY <3>1 DEF IInv, TypeInv, TypeOK, ObjectRow
    <3>4. object'[o].version = object[o].version \/ object'[o].version = object[o].version + 1
      BY <3>1, VersionsGrow
    <3>5. object'[o].version = seenObject[d].version
      BY <1>2, <2>2 DEF Unmoved
    <3>6. object[o].version = seenObject[d].version
      BY <3>2, <3>3, <3>4, <3>5, SameVersion
    <3>7. bytes[o] = "none" \/ o \in latePut
      BY <3>1, <3>6 DEF IInv, BytesChecked, ObjectUnchanged
    <3> QED
      BY <2>2, <3>1, <3>2, <3>6, <3>7, GoneStaysGone DEF Unmoved
  <2>3. pc'[d] # "idle" /\ ~Starts(d) /\ ~ReadsBucket(d) /\ ~ReadsSession(d) /\ ~ReadsObject(d)
    BY <1>2 DEF Starts, ReadsBucket, ReadsSession, ReadsObject
  <2> QED
    BY <2>1, <2>2, <2>3 DEF OneMoves, Moves
<1> QED
  BY <1>1, <1>2 DEF BytesChecked, ObjectUnchanged

(* Nothing is left of a deleted object but what was uploaded late.         *)
LEMMA DeletedStep ==
  IInv /\ Transaction /\ BytesStep /\ DeletedForRequest => DeletedMeansNoBytes'
<1> SUFFICES ASSUME IInv, Transaction, BytesStep, DeletedForRequest,
                    NEW o \in Objects, object'[o].status = "Deleted", bytes'[o] # "none"
             PROVE  o \in latePut'
  BY DEF DeletedMeansNoBytes
<1>1. CASE object[o].status = "Deleted"
  BY <1>1, GoneStaysGone DEF IInv, DeletedMeansNoBytes
<1>2. CASE object[o].status # "Deleted"
  BY <1>2 DEF DeletedForRequest, IInv, BytesChecked
<1> QED
  BY <1>1, <1>2

(* Bytes without a row are those of a copy.                                *)
LEMMA StrayStep ==
  IInv /\ TypeInv' /\ Transaction /\ BytesStep /\ CopiesGoOn => StrayBytesAreOfCopies'
<1> SUFFICES ASSUME IInv, TypeInv', Transaction, BytesStep, CopiesGoOn,
                    NEW o \in Objects, object'[o].status = "absent", bytes'[o] # "none"
             PROVE  \/ o \in interrupted'
                    \/ \E c \in Callers : job'[c].object = o /\ pc'[c] \in WithBytes
  BY DEF StrayBytesAreOfCopies, WithBytes
<1>1. object[o].status = "absent"
  BY VersionsGrow
<1>2. CASE bytes[o] # "none"
  BY <1>1, <1>2 DEF IInv, StrayBytesAreOfCopies, CopiesGoOn, WithBytes
<1>3. CASE bytes[o] = "none"
  <2>1. o \notin live
    BY <1>1 DEF IInv, BytesChecked
  <2>2. ASSUME NEW p \in Objects, Put(p) PROVE FALSE
    BY <1>3, <2>1, <2>2 DEF Put, IInv, TypeInv, TypeOK
  <2>3. ASSUME NEW c \in Callers, DiscardUpload(c) \/ DeleteBytes(c) \/ DiscardCopy(c) PROVE FALSE
    BY <1>3, <2>3 DEF DiscardUpload, DeleteBytes, DiscardCopy, RemoveBytes, IInv, TypeInv, TypeOK
  <2>4. PICK c \in Callers : CopyBytes(c)
    BY <1>3, <2>2, <2>3 DEF BytesStep
  <2>5. job[c].object = o /\ bytes'[o] = bytes[job[c].source]
    BY <1>3, <2>4 DEF CopyBytes, IInv, TypeInv, TypeOK
  <2>6. pc'[c] = "copy_commit" /\ job'[c] = job[c]
    BY <2>4, <2>5 DEF CopyBytes, Proceed, Goto, IInv, TypeInv, TypeOK
  <2> QED
    BY <2>5, <2>6 DEF WithBytes
<1> QED
  BY <1>2, <1>3

-----------------------------------------------------------------------------
(* The theorems.                                                           *)

(* Every step keeps the inductive invariant.                               *)
LEMMA IInvStep == IInv /\ [Next]_vars => IInv'
<1> SUFFICES ASSUME IInv, [Next]_vars PROVE IInv'
  OBVIOUS
<1>1. TypeInv'
  BY TypeStep DEF IInv
<1>2. Transaction /\ OneMoves
  BY StepsAreTransactions, StepsMoveOne DEF IInv
<1>3. AppearsForOwner /\ DeletedForRequest
  BY ObjectsChangeForRequests
<1>4. BytesStep /\ LiveArePresent /\ CopiesGoOn
  BY StepsTouchBytes, TicketsAreIssued, CopiesAreFollowed DEF IInv
<1>5. BucketCopies' /\ ObjectCopies' /\ SessionCopies'
  BY <1>1, <1>2, BucketCopiesStep, ObjectCopiesStep, SessionCopiesStep
<1>6. IdsAreOwned'
  BY <1>1, <1>2, <1>3, IdsStep
<1>7. QuotaChecked' /\ EmptinessChecked'
  BY <1>1, <1>2, QuotaCheckedStep, EmptinessStep
<1>8. /\ QuotaRespected' /\ SessionMatchesObject' /\ ArchivedIsEmpty' /\ CountIsExact'
      /\ QuotaIsSet' /\ CountersMatchObjects'
  BY <1>1, <1>2, QuotaStep, SessionStep, ArchivedStep, CountStep, QuotaIsSetStep, CountersStep
<1>9. BytesChecked' /\ DeletedMeansNoBytes' /\ StrayBytesAreOfCopies'
  BY <1>1, <1>2, <1>3, <1>4, BytesCheckedStep, DeletedStep, StrayStep
<1> QED
  BY <1>1, <1>5, <1>6, <1>7, <1>8, <1>9 DEF IInv

(* The inductive invariant holds of every behaviour.                       *)
THEOREM Invariance == Spec => []IInv
<1>1. Init => IInv
  BY IInvInit
<1>2. IInv /\ [Next]_vars => IInv'
  BY IInvStep
<1> QED
  BY <1>1, <1>2, PTL DEF Spec

(* Rows, copies of rows and counters keep their types: no transaction      *)
(* writes a counter below zero.                                            *)
THEOREM TypeCorrect == Spec => []TypeOK
<1>1. IInv => TypeOK
  BY DEF IInv, TypeInv
<1> QED
  BY <1>1, Invariance, PTL

(* Used and reserved bytes never exceed the quota, whatever requests check *)
(* on rows they read earlier and however the quota changes meanwhile.      *)
THEOREM QuotaHolds == Spec => []QuotaRespected
<1>1. IInv => QuotaRespected
  BY DEF IInv
<1> QED
  BY <1>1, Invariance, PTL

(* object_count counts the available objects, exactly.                     *)
THEOREM CountHolds == Spec => []CountIsExact
<1>1. IInv => CountIsExact
  BY DEF IInv
<1> QED
  BY <1>1, Invariance, PTL

(* reserved_bytes and used_bytes are what the pending and the available    *)
(* objects of the bucket add up to.                                        *)
THEOREM CountersAddUp == Spec => []CountersMatchObjects
<1>1. IInv => CountersMatchObjects
  BY DEF IInv
<1> QED
  BY <1>1, Invariance, PTL

(* An archived bucket has no pending and no available object.              *)
THEOREM ArchivedHoldsNothing == Spec => []ArchivedIsEmpty
<1>1. IInv => ArchivedIsEmpty
  BY DEF IInv
<1> QED
  BY <1>1, Invariance, PTL

(* Upload sessions and objects move together.                              *)
THEOREM SessionsFollowObjects == Spec => []SessionMatchesObject
<1>1. IInv => SessionMatchesObject
  BY DEF IInv
<1> QED
  BY <1>1, Invariance, PTL

(* Deleting an object removes its bytes, unless they are uploaded again.   *)
THEOREM DeletedLeavesNothing == Spec => []DeletedMeansNoBytes
<1>1. IInv => DeletedMeansNoBytes
  BY DEF IInv
<1> QED
  BY <1>1, Invariance, PTL

(* Bytes no row knows are those of a copy under way or cut short.          *)
THEOREM StraysAreCopies == Spec => []StrayBytesAreOfCopies
<1>1. IInv => StrayBytesAreOfCopies
  BY DEF IInv
<1> QED
  BY <1>1, Invariance, PTL

(* The objects of an archived bucket do not change: an edit needs an       *)
(* available object, and there is none.                                    *)
THEOREM ArchivedDoesNotChange == Spec => ArchivedIsFrozen
<1>1. IInv /\ [Next]_vars =>
        [\A o \in Objects : bucket[BucketOf[o]].status = "Archived" => object'[o] = object[o]]_vars
  <2> SUFFICES ASSUME IInv, [Next]_vars, NEW o \in Objects, bucket[BucketOf[o]].status = "Archived"
               PROVE  object'[o] = object[o]
    OBVIOUS
  <2>1. Transaction
    BY StepsAreTransactions
  <2>2. object[o].status # "Available"
    BY BucketOfType DEF IInv, ArchivedIsEmpty, In
  <2> QED
    BY <2>1, <2>2
       DEF Transaction, tables, Creates, Administers, Uploads, Copies, Fulfils, Fails, Deletes, Edits,
           ObjectBecomes
<1> QED
  BY <1>1, Invariance, PTL DEF Spec, ArchivedIsFrozen

-----------------------------------------------------------------------------
(* The ledger.                                                             *)

(* What the ledger adds up is what the row says.                           *)
LEMMA LedgerAddsUp ==
  ASSUME IInv, NEW b \in Buckets
  PROVE  Ledger!Allocated(b) = Allocated(bucket[b])
<1> DEFINE P == In(b, {"Pending"})
           A == In(b, {"Available"})
<1>1. In(b, {"Pending", "Available"}) = P \cup A
  BY DEF In
<1>2. P \in SUBSET Objects /\ A \in SUBSET Objects /\ P \cap A = {}
  BY DEF In
<1>3. Ledger!Allocated(b) = Cardinality(Units(In(b, {"Pending", "Available"})))
  BY BytesAreUnits DEF Ledger!Allocated
<1>4. bucket[b].reserved = Cardinality(Units(P)) /\ bucket[b].used = Cardinality(Units(A))
  BY BytesAreUnits DEF IInv, CountersMatchObjects
<1> HIDE DEF P, A
<1>5. Cardinality(Units(P \cup A)) = Cardinality(Units(P)) + Cardinality(Units(A))
  BY <1>2, UnitsOfBoth
<1>6. Cardinality(Units(P)) \in Nat /\ Cardinality(Units(A)) \in Nat
  BY <1>2, UnitsAreFinite
<1>7. Ledger!Allocated(b) = bucket[b].reserved + bucket[b].used
  BY <1>1, <1>3, <1>4, <1>5
<1> QED
  BY <1>4, <1>6, <1>7 DEF Allocated

(* A transaction about an object of an active bucket moves the object, and *)
(* leaves the status and the quota of every bucket alone.                  *)
LEMMA ObjectMoves ==
  ASSUME IInv, TypeInv', NEW o \in Objects, NEW from, NEW to,
         bucket[BucketOf[o]].status = "Active", object[o].status = from, ObjectBecomes(o, to),
         \E u, r, n \in Nat :
            RowBecomes(BucketOf[o], "Active", bucket[BucketOf[o]].quota, u, r, n)
  PROVE  Ledger!Move(o, from, to)
<1>1. BucketOf[o] \in Buckets
  BY BucketOfType
<1>2. \A b \in Buckets : bucket'[b].status = bucket[b].status /\ bucket'[b].quota = bucket[b].quota
  BY <1>1 DEF RowBecomes
<1>3. [p \in Objects |-> object'[p].status] =
        [[p \in Objects |-> object[p].status] EXCEPT ![o] = to]
  BY DEF ObjectBecomes
<1>4. {b \in Buckets : bucket'[b].status = "Active"} = {b \in Buckets : bucket[b].status = "Active"}
  BY <1>2
<1>5. [b \in Buckets |-> bucket'[b].quota] = [b \in Buckets |-> bucket[b].quota]
  BY <1>2
<1> QED
  BY <1>1, <1>3, <1>4, <1>5 DEF Ledger!Move

(* The row of a bucket becomes another one, and no object changes.         *)
LEMMA BucketMoves ==
  ASSUME NEW b \in Buckets, NEW status, NEW q, NEW u, NEW r, NEW n,
         RowBecomes(b, status, q, u, r, n), UNCHANGED object
  PROVE  /\ [p \in Objects |-> object'[p].status] = [p \in Objects |-> object[p].status]
         /\ {d \in Buckets : bucket'[d].status = "Active"} =
              IF status = "Active" THEN {d \in Buckets : bucket[d].status = "Active"} \cup {b}
                                   ELSE {d \in Buckets : bucket[d].status = "Active"} \ {b}
         /\ [d \in Buckets |-> bucket'[d].quota][b] = q
         /\ \A d \in Buckets \ {b} :
              [e \in Buckets |-> bucket'[e].quota][d] = [e \in Buckets |-> bucket[e].quota][d]
         /\ q = bucket[b].quota =>
              [d \in Buckets |-> bucket'[d].quota] = [d \in Buckets |-> bucket[d].quota]
BY DEF RowBecomes

(* A transaction is one operation of the ledger, or none it knows of.      *)
LEMMA LedgerStep == IInv /\ [Next]_vars => [Ledger!Next]_(Ledger!vars)
<1> SUFFICES ASSUME IInv, [Next]_vars PROVE Ledger!Next \/ UNCHANGED Ledger!vars
  OBVIOUS
<1>1. Transaction /\ TypeInv'
  BY StepsAreTransactions, TypeStep DEF IInv
<1>2. CASE UNCHANGED tables
  BY <1>2 DEF tables, Ledger!vars
<1>3. ASSUME NEW b \in Buckets, Creates(b) PROVE Ledger!Next
  <2>1. PICK q \in Nat \ {0} : RowBecomes(b, "Active", q, 0, 0, 0)
    BY <1>3 DEF Creates
  <2>2. bucket[b].quota = 0 /\ UNCHANGED object
    BY <1>3 DEF Creates, IInv, QuotaIsSet
  <2>3. Ledger!Create(b)
    BY <2>1, <2>2, BucketMoves DEF Ledger!Create, Ledger!SetQuota
  <2> QED
    BY <2>3 DEF Ledger!Next
<1>4. ASSUME NEW b \in Buckets, Administers(b) PROVE Ledger!Next
  <2> DEFINE row == bucket[b]
  <2>1. UNCHANGED object
    BY <1>4 DEF Administers
  <2>2. ASSUME row.status = "Active", NEW q \in Nat \ {0}, q >= Allocated(row),
               RowBecomes(b, "Active", q, row.used, row.reserved, row.count)
        PROVE  Ledger!Resize(b)
    <3>1. {d \in Buckets : bucket[d].status = "Active"} \cup {b} =
            {d \in Buckets : bucket[d].status = "Active"}
      BY <2>2
    <3>2. q >= Ledger!Allocated(b)
      BY <2>2, LedgerAddsUp
    <3> QED
      BY <2>1, <2>2, <3>1, <3>2, BucketMoves DEF Ledger!Resize, Ledger!SetQuota
  <2>3. ASSUME row.status = "Active", In(b, {"Pending", "Available"}) = {},
               RowBecomes(b, "Archived", row.quota, row.used, row.reserved, row.count)
        PROVE  Ledger!Close(b)
    <3>1. Ledger!In(b, {"Pending", "Available"}) = {}
      BY <2>3 DEF Ledger!In, In
    <3> QED
      BY <2>1, <2>3, <3>1, BucketMoves DEF Ledger!Close
  <2>4. ASSUME row.status = "Archived",
               RowBecomes(b, "Active", row.quota, row.used, row.reserved, row.count)
        PROVE  Ledger!Reopen(b)
    <3>1. row.quota > 0
      BY <2>4 DEF IInv, QuotaIsSet
    <3> QED
      BY <2>1, <2>4, <3>1, BucketMoves DEF Ledger!Reopen
  <2> QED
    BY <1>4, <2>2, <2>3, <2>4 DEF Administers, Ledger!Next
<1>5. ASSUME NEW o \in Objects, Uploads(o) \/ Copies(o) PROVE Ledger!Next
  <2> DEFINE b == BucketOf[o]
  <2>1. b \in Buckets
    BY BucketOfType
  <2>2. Fits(bucket[b], o)
    BY <1>5 DEF Uploads, Copies
  <2>3. Ledger!Fits(o)
    BY <2>1, <2>2, LedgerAddsUp DEF Ledger!Fits, Fits
  <2>4. /\ bucket[b].used \in Nat /\ bucket[b].reserved \in Nat /\ bucket[b].count \in Nat
        /\ bucket[b].used + SizeOf[o] \in Nat /\ bucket[b].reserved + SizeOf[o] \in Nat
        /\ bucket[b].count + 1 \in Nat
    BY <2>1, SizeOfType DEF IInv, TypeInv, TypeOK, BucketRow
  <2>5. CASE Uploads(o)
    <3>1. Ledger!Move(o, "absent", "Pending")
      BY <1>1, <2>4, <2>5, ObjectMoves DEF Uploads
    <3> QED
      BY <2>3, <3>1 DEF Ledger!Reserve, Ledger!Next
  <2>6. CASE Copies(o)
    <3>1. Ledger!Move(o, "absent", "Available")
      BY <1>1, <2>4, <2>6, ObjectMoves DEF Copies
    <3> QED
      BY <2>3, <3>1 DEF Ledger!Copy, Ledger!Next
  <2> QED
    BY <1>5, <2>5, <2>6
<1>6. ASSUME NEW o \in Objects, Fulfils(o) \/ Fails(o) \/ Deletes(o) PROVE Ledger!Next
  <2> DEFINE row == bucket[BucketOf[o]]
  <2>1. /\ row.used \in Nat /\ row.reserved \in Nat /\ row.count \in Nat
        /\ SizeOf[o] \in Nat
    BY BucketOfType, SizeOfType DEF IInv, TypeInv, TypeOK, BucketRow
  <2>2. CASE Fulfils(o)
    <3>1. row.used + SizeOf[o] \in Nat /\ row.reserved - SizeOf[o] \in Nat /\ row.count + 1 \in Nat
      BY <2>1, <2>2 DEF Fulfils, HoldsReserved
    <3>2. Ledger!Move(o, "Pending", "Available")
      BY <1>1, <2>2, <3>1, ObjectMoves DEF Fulfils
    <3> QED
      BY <3>2 DEF Ledger!Fulfil, Ledger!Next
  <2>3. CASE Fails(o)
    <3>1. Ledger!Move(o, "Pending", "Failed")
      BY <1>1, <2>1, <2>3, ObjectMoves DEF Fails
    <3> QED
      BY <3>1 DEF Ledger!GiveUp, Ledger!Next
  <2>4. CASE Deletes(o)
    <3>1. row.used - SizeOf[o] \in Nat /\ row.count - 1 \in Nat
      BY <2>1, <2>4 DEF Deletes, HoldsUsed
    <3>2. Ledger!Move(o, "Available", "Deleted")
      BY <1>1, <2>1, <2>4, <3>1, ObjectMoves DEF Deletes
    <3> QED
      BY <3>2 DEF Ledger!Remove, Ledger!Next
  <2> QED
    BY <1>6, <2>2, <2>3, <2>4
<1>7. ASSUME NEW o \in Objects, Edits(o) PROVE UNCHANGED Ledger!vars
  <2>1. \A p \in Objects : object'[p].status = object[p].status
    BY <1>7 DEF Edits, ObjectBecomes
  <2> QED
    BY <1>7, <2>1 DEF Edits, Ledger!vars
<1> QED
  BY <1>1, <1>2, <1>3, <1>4, <1>5, <1>6, <1>7 DEF Transaction

(* The requests, each reading and writing rows one statement at a time,    *)
(* look like atomic operations on an exact ledger.                         *)
THEOREM TheLedgerIsKept == Spec => ImplementsLedger
<1>1. Init => Ledger!Init
  BY DEF Init, Ledger!Init, NoBucket, NoRow
<1> QED
  BY <1>1, LedgerStep, Invariance, PTL DEF Spec, ImplementsLedger, Ledger!Spec
=============================================================================
