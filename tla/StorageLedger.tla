---------------------------- MODULE StorageLedger ----------------------------
(***************************************************************************)
(* What the storage module promises about buckets and objects, as if every *)
(* operation were one atomic step: space is accounted for exactly, from    *)
(* the objects themselves, and a quota is never exceeded.                  *)
(***************************************************************************)
EXTENDS Naturals, FiniteSets

CONSTANTS Buckets, Objects, BucketOf, SizeOf

VARIABLES status, open, quota
vars == <<status, open, quota>>

In(b, statuses) == {o \in Objects : BucketOf[o] = b /\ status[o] \in statuses}

(* Bytes of the objects of a bucket that are in one of the given states,   *)
(* counted one by one.                                                     *)
Bytes(b, statuses) == Cardinality(UNION {{o} \X (1 .. SizeOf[o]) : o \in In(b, statuses)})

Allocated(b) == Bytes(b, {"Pending", "Available"})

Init ==
  /\ status = [o \in Objects |-> "absent"]
  /\ open = {}
  /\ quota = [b \in Buckets |-> 0]

Fits(o) == Allocated(BucketOf[o]) + SizeOf[o] <= quota[BucketOf[o]]

Move(o, from, to) ==
  /\ BucketOf[o] \in open
  /\ status[o] = from
  /\ status' = [status EXCEPT ![o] = to]
  /\ UNCHANGED <<open, quota>>

Reserve(o) == Fits(o) /\ Move(o, "absent", "Pending")
Copy(o)    == Fits(o) /\ Move(o, "absent", "Available")
Fulfil(o)  == Move(o, "Pending", "Available")
GiveUp(o)  == Move(o, "Pending", "Failed")
Remove(o)  == Move(o, "Available", "Deleted")

SetQuota(b) == \A d \in Buckets \ {b} : quota'[d] = quota[d]

Create(b) ==
  /\ quota[b] = 0
  /\ open' = open \cup {b}
  /\ SetQuota(b) /\ quota'[b] > 0
  /\ UNCHANGED status

(* A quota never drops below what is allocated.                            *)
Resize(b) ==
  /\ b \in open
  /\ SetQuota(b) /\ quota'[b] >= Allocated(b)
  /\ UNCHANGED <<status, open>>

Close(b) ==
  /\ b \in open
  /\ In(b, {"Pending", "Available"}) = {}
  /\ open' = open \ {b}
  /\ UNCHANGED <<status, quota>>

Reopen(b) ==
  /\ b \notin open /\ quota[b] > 0
  /\ open' = open \cup {b}
  /\ UNCHANGED <<status, quota>>

Next ==
  \/ \E o \in Objects : Reserve(o) \/ Copy(o) \/ Fulfil(o) \/ GiveUp(o) \/ Remove(o)
  \/ \E b \in Buckets : Create(b) \/ Resize(b) \/ Close(b) \/ Reopen(b)

Spec == Init /\ [][Next]_vars
=============================================================================
