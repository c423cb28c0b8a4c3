---------------------------- MODULE StoragePage ----------------------------
(***************************************************************************)
(* The page of storage buckets and of the objects of one bucket.  The      *)
(* record in hand is the detail last loaded, when its id is the one chosen *)
(* and the list has it, else the row of the list.  editor holds both: the  *)
(* id chosen and the detail's version, 0 without one.                      *)
(*                                                                         *)
(* Of buckets the scope is what the list is filtered by, of objects it is  *)
(* the bucket.  Who waits for a call remembers the scope of the click.     *)
(***************************************************************************)
EXTENDS Inspectors

\* The page opens with nothing under way and no upload begun.
Open(p, s) == Opened(p, s) /\ pending = [reading |-> None, busy |-> {}, upload |-> None]

-----------------------------------------------------------------------------
\* The commands.

ListStorageBuckets == Listed
GetStorageBucket(c, id) == Reading(c, id)
CreateStorageBucket(c, id) == Ask(c, "create", id, 0, 0)
UpdateStorageBucket(c, bucket) == Ask(c, "edit", bucket.id, bucket.version, bucket.form)
ArchiveStorageBucket(c, bucket) == Ask(c, "archive", bucket.id, bucket.version, 0)
RestoreStorageBucket(c, bucket) == Ask(c, "restore", bucket.id, bucket.version, 0)
ListStorageObjects == Listed
GetStorageObject(c, id) == Reading(c, id)
UpdateStorageObjectMetadata(c, object) ==
    Ask(c, "edit", object.id, object.version, object.form)
CreateStorageDownloadUrl(c, object) == Ask(c, "look", object.id, object.version, 0)
DeleteStorageObject(c, object) == Ask(c, "archive", object.id, object.version, 0)
\* The copy is a record of its own, in any bucket.
CopyStorageObject(c, id) == Ask(c, "create", id, 0, 0)
\* The session is the object's first version, its completion the second.
CreateStorageUploadSession(c, id) == Ask(c, "create", id, 0, 0)
CompleteStorageUpload(c, session) == Ask(c, "act", session.id, session.version, 0)

-----------------------------------------------------------------------------
\* The record in hand.

\* The id chosen, when the list has it, else the list's first.
Effective == IF editor # None /\ editor.id \in Displayed THEN {editor.id} ELSE Displayed

Shown(id) == IF InHand /\ editor.id = id THEN editor ELSE Row(id)

\* A row is chosen, and no detail of it is loaded.
ChooseRow(id) ==
    /\ editor' = [id |-> id, version |-> 0, form |-> 0]
    /\ UNCHANGED <<page, services, scope, cache, report, pending, calls, acked, told,
                   clicks, raced>>

Waits(c, owner) ==
    /\ pending' = [pending EXCEPT !.busy = @ \cup {[of |-> owner, by |-> c, from |-> scope]}]
    /\ UNCHANGED copies

-----------------------------------------------------------------------------
\* Buckets.

BucketList(c) ==
    \E id \in ListStorageBuckets :
        \/ ChooseRow(id)
        \/ ReadFree(id) /\ GetStorageBucket(c, id)

SubmitBucket(c) ==
    /\ Free(Card("create"))
    /\ \E id \in Fresh : CreateStorageBucket(c, id) /\ Waits(c, Card("create"))

\* A bucket with objects cannot be archived; the model's has none.
BucketInspector(c) ==
    \E id \in Effective :
        LET bucket == Shown(id) IN
        /\ Free(bucket)
        /\ \/ IsActive(id, bucket.version) /\ UpdateStorageBucket(c, bucket)
           \/ IsActive(id, bucket.version) /\ ArchiveStorageBucket(c, bucket)
           \/ ~IsActive(id, bucket.version) /\ RestoreStorageBucket(c, bucket)
        /\ Waits(c, bucket)

BucketPanel(c) ==
    /\ page = "buckets"
    /\ \/ BucketList(c) \/ SubmitBucket(c) \/ BucketInspector(c)
       \/ Changed(c, pending.busy)

-----------------------------------------------------------------------------
\* Objects.

\* Another bucket is chosen, and no object of it.
SelectBucket(s) ==
    /\ Select(s)
    /\ editor' = None
    /\ UNCHANGED <<report, pending>>

ObjectList(c) ==
    \E id \in ListStorageObjects :
        \/ ChooseRow(id)
        \/ ReadFree(id) /\ GetStorageObject(c, id)

ObjectInspector(c) ==
    \E id \in Effective :
        LET object == Shown(id) IN
        /\ Free(object)
        /\ IsActive(id, object.version)
        /\ \/ UpdateStorageObjectMetadata(c, object)
           \/ CreateStorageDownloadUrl(c, object)
           \/ \E other \in Ids \ {id} : CopyStorageObject(c, other)
           \/ DeleteStorageObject(c, object)
        /\ Waits(c, object)

\* refreshObject: the bucket of the answer is selected when it is not the one
\* of the click; the list asked for is that of the bucket shown until then.
RefreshObject(c) ==
    LET waits == CHOOSE w \in pending.busy : w.by = c
        moves == ScopeOf[calls[c].id] # waits.from IN
    /\ Answered(c, Writes)
    /\ calls[c].ok
    /\ waits.of # Card("session")
    /\ Mutate(c)
    /\ calls' = [calls EXCEPT ![c].stage = "refreshing"]
    /\ scope' = IF moves THEN ScopeOf[calls[c].id] ELSE scope
    /\ Races(moves)
    /\ editor' = Copy(calls[c].id, calls[c].version)
    /\ UNCHANGED <<page, services, rows, loaded, failed, report, pending, clicks>>

\* Neither a session nor a transfer is under way.
UploadReady == Free(Card("session")) /\ Free(Card("complete"))

\* A session is opened, and kept until the upload is completed, whatever
\* bucket is selected by then.
UploadPanel(c) ==
    /\ UploadReady
    /\ \/ /\ pending.upload = None
          /\ \E id \in Fresh : CreateStorageUploadSession(c, id)
          /\ Waits(c, Card("session"))
       \/ /\ pending.upload # None
          /\ CompleteStorageUpload(c, pending.upload)
          /\ Waits(c, Card("complete"))

SessionCreated(c) ==
    /\ Answered(c, {"create"})
    /\ calls[c].ok
    /\ [of |-> Card("session"), by |-> c] \in {[of |-> w.of, by |-> w.by] : w \in pending.busy}
    /\ calls' = [calls EXCEPT ![c] = None]
    /\ pending' = [pending EXCEPT !.busy = Without(c, @),
                                  !.upload = Copy(calls[c].id, calls[c].version)]
    /\ UNCHANGED <<page, services, scope, cache, copies, acked, told, clicks, raced>>

UploadCompleted(c) ==
    /\ Refreshed(c)
    /\ calls[c].op = "act"
    /\ Return(c)
    /\ pending' = [pending EXCEPT !.busy = Without(c, @), !.upload = None]
    /\ UNCHANGED <<copies, cache>>

ObjectDone(c) == Done(c) /\ (calls[c].op = "act" => ~calls[c].ok)

ObjectPanel(c) ==
    /\ page = "objects"
    /\ \/ ObjectList(c) \/ ObjectInspector(c) \/ UploadPanel(c) \/ RefreshObject(c)
       \/ SessionCreated(c) \/ UploadCompleted(c) \/ ObjectDone(c) \/ LookOver(c)

Next ==
    \/ \E s \in Scopes :
          \/ page = "buckets" /\ SelectScope(s)
          \/ page = "objects" /\ SelectBucket(s)
    \/ \E c \in Calls :
          \/ BucketPanel(c) \/ ObjectPanel(c)
          \/ page = "buckets" /\ Done(c)
          \/ ReadingOver(c, pending.busy)
=============================================================================
