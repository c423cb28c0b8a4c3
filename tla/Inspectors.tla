----------------------------- MODULE Inspectors -----------------------------
(***************************************************************************)
(* The pages whose record in hand is shown by an inspector of its own: a   *)
(* component that is mounted for one id and version, with its own fields   *)
(* and its own mark of what is under way, and mounted anew for any other.  *)
(* Beside it stand the list and the cards that create records.             *)
(*                                                                         *)
(* The page's pending is a record: reading, the row that is being fetched, *)
(* and busy, who waits for which call: the inspector of a copy, or a card. *)
(* An inspector that is gone waits for nothing.                            *)
(***************************************************************************)
EXTENDS Console

NotBusy == [reading |-> None, busy |-> {}]

Row(id) == Copy(id, rows[id])

Fresh == {id \in Ids : ScopeOf[id] = scope}

\* A card, named so that it is no inspector of a copy.
Card(name) == Copy(name, 0)

Free(owner) == \A waits \in pending.busy : waits.of # owner
ReadFree(id) == pending.reading # id

\* What waits on after the inspector of a record is mounted: the same, when
\* it was this record at this version; else the cards alone.
StillBusy(id, version) ==
    IF editor = Copy(id, version) THEN pending.busy
                                  ELSE {waits \in pending.busy : waits.of.version = 0}

Without(c, busy) == {waits \in busy : waits.by # c}

\* (As it would be if the inspector were not keyed by the record's version.)
TakeInHandAsBefore(id, version) ==
    /\ editor' = Copy(id, version)
    /\ UNCHANGED report

\* A record is taken in hand.  What the inspector had found out goes with it.
TakeInHand(id, version) ==
    /\ editor' = Copy(id, version)
    /\ report' = IF editor = Copy(id, version) THEN report ELSE None

\* A row is chosen as it is in the list.
Choose(id) ==
    /\ TakeInHand(id, rows[id])
    /\ pending' = [pending EXCEPT !.busy = StillBusy(id, rows[id])]
    /\ UNCHANGED <<page, services, scope, cache, calls, acked, told, clicks, raced>>

\* No record is in hand any more.
LetGo ==
    /\ editor # None
    /\ editor' = None
    /\ report' = None
    /\ pending' = [pending EXCEPT !.busy = {waits \in @ : waits.of.version = 0}]
    /\ UNCHANGED <<page, services, scope, cache, calls, acked, told, clicks, raced>>

\* Another tenant, application or environment: the record in hand stays.
SelectScope(s) == Select(s) /\ UNCHANGED <<copies, pending>>

\* The filters or the page of a list are chosen, be they others or the same,
\* and the record in hand is let go; an answer still to come is not.
ChooseList(s) ==
    /\ IF s = scope
       THEN UNCHANGED <<page, services, scope, cache, calls, acked, told, clicks, raced>>
       ELSE Select(s)
    /\ editor' = None
    /\ UNCHANGED <<report, pending>>

\* A command of a card or of an inspector, which waits for it.
Performs(c, owner) ==
    /\ pending' = [pending EXCEPT !.busy = @ \cup {[of |-> owner, by |-> c]}]
    /\ UNCHANGED copies

\* A row is fetched, and taken in hand when the answer is there.
Reading(c, id) ==
    /\ AskFor(c, id)
    /\ pending' = [pending EXCEPT !.reading = id]
    /\ UNCHANGED copies

\* (As it would be if the answer were not checked for an error.)
ReadingOverAnyway(c, waiting) ==
    /\ Answered(c, {"get", "miss"})
    /\ Return(c)
    /\ pending' = [pending EXCEPT !.reading = None, !.busy = waiting]
    /\ TakeInHand(calls[c].id, calls[c].version)
    /\ UNCHANGED cache

ReadingOver(c, waiting) ==
    /\ Answered(c, {"get", "miss"})
    /\ Return(c)
    /\ pending' = [pending EXCEPT !.reading = None,
                                  !.busy = IF calls[c].ok THEN waiting ELSE @]
    /\ IF calls[c].ok THEN TakeInHand(calls[c].id, calls[c].version) ELSE UNCHANGED copies
    /\ UNCHANGED cache

\* onChanged: the record as it was answered is taken in hand, and the list
\* asked for again.  These wait on.
Changed(c, waiting) ==
    /\ Answered(c, Writes)
    /\ calls[c].ok
    /\ AskForList(c)
    /\ TakeInHand(calls[c].id, calls[c].version)
    /\ pending' = [pending EXCEPT !.busy = waiting]

\* The handler is done: its command failed, or the list is there.
Done(c) ==
    /\ Refreshed(c) \/ (Answered(c, Writes) /\ ~calls[c].ok)
    /\ Return(c)
    /\ pending' = [pending EXCEPT !.busy = Without(c, @)]
    /\ UNCHANGED <<copies, cache>>

\* An answer that is shown and forgotten.
LookOver(c) ==
    /\ Answered(c, {"look"})
    /\ Return(c)
    /\ pending' = [pending EXCEPT !.busy = Without(c, @)]
    /\ UNCHANGED <<copies, cache>>
=============================================================================
