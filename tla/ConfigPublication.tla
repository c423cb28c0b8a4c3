-------------------------- MODULE ConfigPublication --------------------------
(***************************************************************************)
(* Asterloom.Module.Config: the entries of one environment, their drafts,  *)
(* revisions and archiving, and the snapshots clients are served; and the  *)
(* targeting segments their rules refer to (Asterloom.Module.Targeting).   *)
(*                                                                         *)
(* A snapshot is assembled from several reads - the entries, then, rule by *)
(* rule, the segments of all of them - and committed later, if by then it  *)
(* is still the next one and its entry is as it was read.  Calls and the   *)
(* changes of segments interleave at every SQL statement.  A definition is *)
(* its default, its schema and its ordered rules; of a rule only the       *)
(* segment is told apart, and a segment's version stands for its rule.     *)
(***************************************************************************)
EXTENDS Naturals, Sequences

CONSTANTS
  Entries,      \* configuration keys of the environment
  Definitions,
  Segments,     \* targeting segments of the environment
  Rules,        \* the segments of a definition's rules, in order
  Visibility,   \* Client and Server: nothing here tells them apart
  Position,     \* the place of an entry in the order of the keys
  Calls,        \* management calls that may be under way at a time
  MaxVersion,   \* bound: changes, per entry
  DraftsAt,     \* bound: the versions drafts are updated at, per entry
  MaxSnapshots, \* bound: snapshots of the environment
  MaxSegment,   \* bound: versions of a segment
  None

ASSUME BoundsAreNumbers ==
  /\ MaxVersion \in [Entries -> Nat] /\ DraftsAt \in [Entries -> SUBSET Nat]
  /\ MaxSnapshots \in Nat /\ MaxSegment \in Nat
ASSUME RulesAreOfSegments == Rules \in [Definitions -> Seq(Segments)]
ASSUME KeysAreOrdered ==
  /\ Position \in [Entries -> Nat]
  /\ \A e, f \in Entries : Position[e] = Position[f] => e = f

VARIABLES
  entry,        \* config.entries
  revisions,    \* config.revisions
  snapshots,    \* config.snapshots, by version
  events,       \* snapshot-published messages put in the outbox
  segment,      \* targeting.segments
  pc, job,      \* management calls
  since, shown  \* observers: what each segment, and the visibility of each
                \* entry, has been since the last snapshot was committed

tables == <<entry, revisions, snapshots, events>>
calls == <<pc, job>>
observers == <<since, shown>>
vars == <<tables, segment, calls, observers>>

EntryRow == [status : {"Active", "Archived"}, visibility : Visibility, draft : Definitions,
             published : Definitions \cup {None}, revision : Nat, snapshot : Nat, version : Nat]
Revision == [entry : Entries, number : Nat, definition : Definitions, snapshot : Nat]
SegmentRow == [status : {"Absent", "Active", "Archived"}, version : Nat]
Event == [entry : Entries, revision : Nat, snapshot : Nat]

(* What was captured for the rules of a definition: the version of a rule's*)
(* segment, or 0 if the rule was left out.                                 *)
Audience == Seq(Nat)
Item == [definition : Definitions, revision : Nat, visibility : Visibility, audience : Audience]
Snapshot == [Entries -> Item \cup {None}]

(* What a call read of its entry, what it is going to write, and the rules *)
(* whose segment it still has to read.                                     *)
Job == [entry : Entries, seen : EntryRow, row : EntryRow, revises : BOOLEAN,
        items : Snapshot \cup {None}, unread : SUBSET (Entries \X Nat)]

(* What was last released of an entry.                                     *)
Release == [definition : Definitions, revision : Nat]

ASSUME NoneIsNothing ==
  None \notin EntryRow \cup Item \cup Job \cup Snapshot \cup Release \cup Definitions \cup Visibility

Step == {"idle", "update", "latest", "list", "commit"}

TypeOK ==
  /\ entry \in [Entries -> EntryRow \cup {None}]
  /\ revisions \subseteq Revision
  /\ snapshots \in Seq(Snapshot)
  /\ events \in Seq(Event)
  /\ segment \in [Segments -> SegmentRow]
  /\ since \in [Segments -> SUBSET SegmentRow]
  /\ shown \in [Entries -> SUBSET Visibility]
  /\ pc \in [Calls -> Step]
  /\ job \in [Calls -> Job \cup {None}]

Init ==
  /\ entry = [e \in Entries |-> None]
  /\ revisions = {} /\ snapshots = <<>> /\ events = <<>>
  /\ segment = [s \in Segments |-> [status |-> "Absent", version |-> 0]]
  /\ since = [s \in Segments |-> {segment[s]}]
  /\ shown = [e \in Entries |-> {}]
  /\ pc = [c \in Calls |-> "idle"]
  /\ job = [c \in Calls |-> None]

Goto(c, step) == pc' = [pc EXCEPT ![c] = step]
Return(c) == Goto(c, "idle") /\ job' = [job EXCEPT ![c] = None]

(* What a row puts into a snapshot: entries that are active and published. *)
(* The segments of their rules are read later.                             *)
Publishes(row) == row # None /\ row.status = "Active" /\ row.published # None

ItemOfActive(row) ==
  IF row # None /\ row.status = "Active"
  THEN [definition |-> row.published, revision |-> row.revision, visibility |-> row.visibility,
        audience |-> IF Publishes(row) THEN [n \in DOMAIN Rules[row.published] |-> 0] ELSE <<>>]
  ELSE None

ItemOf(row) ==
  IF Publishes(row)
  THEN [definition |-> row.published, revision |-> row.revision, visibility |-> row.visibility,
        audience |-> [n \in DOMAIN Rules[row.published] |-> 0]]
  ELSE None

(* What a rule of a segment is captured as.                                *)
CapturedAnyway(row) == row.version

Captured(row) == IF row.status = "Active" THEN row.version ELSE 0

-----------------------------------------------------------------------------
(* Nothing new is begun after the last snapshot of the bound.              *)
MoreSnapshots == Len(snapshots) < MaxSnapshots

(* Segments: each operation is one write, conditional on the version read. *)
WriteSegment(s, row) ==
  /\ segment[s].version < MaxSegment /\ MoreSnapshots
  /\ segment' = [segment EXCEPT ![s] = row]
  /\ since' = [since EXCEPT ![s] = @ \cup {row}]
  /\ UNCHANGED <<tables, calls, shown>>

CreateSegment(s) ==
  /\ segment[s].status = "Absent"
  /\ WriteSegment(s, [status |-> "Active", version |-> 1])

UpdateSegment(s) ==
  /\ segment[s].status = "Active"
  /\ WriteSegment(s, [segment[s] EXCEPT !.version = @ + 1])

(* Archive and Restore.                                                    *)
ChangeSegmentStatus(s) ==
  /\ segment[s].status # "Absent"
  /\ WriteSegment(s, [status |-> IF segment[s].status = "Active" THEN "Archived" ELSE "Active",
                      version |-> segment[s].version + 1])

-----------------------------------------------------------------------------
CreateEntry(e) ==
  /\ entry[e] = None /\ MoreSnapshots
  /\ \E d \in Definitions, v \in Visibility :
       /\ entry' = [entry EXCEPT ![e] =
            [status |-> "Active", visibility |-> v, draft |-> d, published |-> None,
             revision |-> 0, snapshot |-> 0, version |-> 1]]
       /\ shown' = [shown EXCEPT ![e] = @ \cup {v}]
  /\ UNCHANGED <<revisions, snapshots, events, segment, since, calls>>

RulesOf(e, d) == {e} \X DOMAIN Rules[d]

(* A call reads its entry, checks it and works out the row to be written;  *)
(* the rules of what it is to publish are validated first.                 *)
Begin(c, e, step, change, revises) ==
  /\ pc[c] = "idle"
  /\ entry[e].version < MaxVersion[e]
  /\ MoreSnapshots
  /\ job' = [job EXCEPT ![c] =
       [entry |-> e, seen |-> entry[e],
        row |-> [change EXCEPT !.version = entry[e].version + 1],
        revises |-> revises, items |-> None,
        unread |-> IF revises THEN RulesOf(e, change.published) ELSE {}]]
  /\ Goto(c, step)
  /\ UNCHANGED <<tables, segment, observers>>

IsActive(e) == entry[e] # None /\ entry[e].status = "Active"

BeginUpdateDraft(c, e) ==
  /\ IsActive(e) /\ entry[e].version \in DraftsAt[e]
  /\ \E d \in Definitions, v \in Visibility :
       Begin(c, e, "update", [entry[e] EXCEPT !.draft = d, !.visibility = v], FALSE)

NextRevision(row) == row.revision + 1

BeginPublish(c, e) ==
  /\ IsActive(e)
  /\ Begin(c, e, "latest",
       [entry[e] EXCEPT !.published = entry[e].draft, !.revision = NextRevision(entry[e])], TRUE)

(* Rollback publishes an earlier revision again, as a new one.             *)
BeginRollback(c, e) ==
  /\ IsActive(e)
  /\ \E target \in revisions :
       /\ target.entry = e
       /\ Begin(c, e, "latest",
            [entry[e] EXCEPT !.draft = target.definition, !.published = target.definition,
                             !.revision = NextRevision(entry[e])], TRUE)

(* Archive and Restore; an entry never published is in no snapshot.        *)
BeginChangeStatus(c, e) ==
  /\ entry[e] # None
  /\ Begin(c, e, IF entry[e].published = None THEN "update" ELSE "latest",
       [entry[e] EXCEPT !.status = IF @ = "Active" THEN "Archived" ELSE "Active"], FALSE)

(* ... WHERE version = @expected_version.                                  *)
EntryExists(c) == entry[job[c].entry] # None

EntryUnchanged(c) == entry[job[c].entry].version = job[c].seen.version

CommitUpdate(c) ==
  /\ pc[c] = "update"
  /\ IF EntryUnchanged(c)
     THEN /\ entry' = [entry EXCEPT ![job[c].entry] = job[c].row]
          /\ shown' = [shown EXCEPT ![job[c].entry] = @ \cup {job[c].row.visibility}]
     ELSE UNCHANGED <<entry, shown>>
  /\ Return(c)
  /\ UNCHANGED <<revisions, snapshots, events, segment, since>>

(* Rules are read one by one, in the order of the keys and of an entry's   *)
(* own rules; each read is a statement of its own.                         *)
Before(r, t) == Position[r[1]] < Position[t[1]] \/ (r[1] = t[1] /\ r[2] < t[2])

IsNextRule(c, r) == r \in job[c].unread /\ \A t \in job[c].unread : ~Before(t, r)

(* ValidateTargetingRulesAsync: a segment that is not active is refused.   *)
ValidateRule(c) ==
  /\ pc[c] = "latest"
  /\ \E r \in job[c].unread :
       /\ IsNextRule(c, r)
       /\ IF segment[Rules[job[c].row.published][r[2]]].status = "Active"
          THEN job' = [job EXCEPT ![c].unread = @ \ {r}] /\ UNCHANGED pc
          ELSE Return(c)
  /\ UNCHANGED <<tables, segment, observers>>

(* The entry remembers the snapshot its last change went into.             *)
Number(c, row) == [row EXCEPT !.snapshot = Len(snapshots) + 1]

(* NextSnapshotVersionAsync.                                               *)
ReadLatest(c) ==
  /\ pc[c] = "latest" /\ job[c].unread = {}
  /\ job' = [job EXCEPT ![c].row = Number(c, @)]
  /\ Goto(c, "list")
  /\ UNCHANGED <<tables, segment, observers>>

(* CreateSnapshotAsync: the published entries, and the changed one.        *)
ListPublished(c) ==
  LET row == [entry EXCEPT ![job[c].entry] = job[c].row] IN
  /\ pc[c] = "list"
  /\ job' = [job EXCEPT
       ![c].items = [e \in Entries |-> ItemOf(row[e])],
       ![c].unread = UNION {RulesOf(e, row[e].published) : e \in {f \in Entries : Publishes(row[f])}}]
  /\ Goto(c, "commit")
  /\ UNCHANGED <<tables, segment, observers>>

(* ... and then the segment of each rule of each of them, as it is by now. *)
Capture(items, r) ==
  LET e == r[1]  n == r[2] IN
  [items EXCEPT ![e].audience[n] = Captured(segment[Rules[items[e].definition][n]])]

CaptureRule(c) ==
  /\ pc[c] = "commit"
  /\ \E r \in job[c].unread :
       /\ IsNextRule(c, r)
       /\ job' = [job EXCEPT ![c].items = Capture(@, r), ![c].unread = @ \ {r}]
  /\ UNCHANGED <<tables, segment, observers, pc>>

IsNextUnchecked(c) == job[c].row.snapshot > 0

IsNext(c) == job[c].row.snapshot = Len(snapshots) + 1

(* TryCommitSnapshotAsync: one transaction, one at a time per environment. *)
CommitSnapshot(c) ==
  LET e == job[c].entry  row == job[c].row IN
  /\ pc[c] = "commit" /\ job[c].unread = {}
  /\ IF IsNext(c) /\ EntryUnchanged(c)
     THEN /\ entry' = [entry EXCEPT ![e] = row]
          /\ revisions' = revisions \cup
               IF job[c].revises
               THEN {[entry |-> e, number |-> row.revision, definition |-> row.published,
                      snapshot |-> row.snapshot]}
               ELSE {}
          /\ snapshots' = Append(snapshots, job[c].items)
          /\ events' = Append(events,
               [entry |-> e, revision |-> row.revision, snapshot |-> row.snapshot])
          /\ since' = [s \in Segments |-> {segment[s]}]
          /\ shown' = [f \in Entries |-> IF entry[f] = None THEN {} ELSE {entry'[f].visibility}]
     ELSE UNCHANGED <<tables, observers>>
  /\ Return(c)
  /\ UNCHANGED segment

(* A cancelled call, a statement that throws, a crash.                     *)
Interrupt(c) ==
  /\ pc[c] # "idle"
  /\ Return(c)
  /\ UNCHANGED <<tables, segment, observers>>

Next ==
  \/ \E s \in Segments : CreateSegment(s) \/ UpdateSegment(s) \/ ChangeSegmentStatus(s)
  \/ \E e \in Entries : CreateEntry(e)
  \/ \E c \in Calls :
       \/ \E e \in Entries :
            BeginUpdateDraft(c, e) \/ BeginPublish(c, e) \/ BeginRollback(c, e) \/ BeginChangeStatus(c, e)
       \/ CommitUpdate(c) \/ ValidateRule(c) \/ ReadLatest(c) \/ ListPublished(c)
       \/ CaptureRule(c) \/ CommitSnapshot(c) \/ Interrupt(c)

Spec == Init /\ [][Next]_vars

-----------------------------------------------------------------------------
(* Properties.                                                             *)

(* What an item says, or nothing.                                          *)
Content(item) ==
  IF item = None THEN {} ELSE {[definition |-> item.definition, revision |-> item.revision]}

(* The snapshot before the first one is empty.                             *)
SnapshotAt(n) == IF n = 0 THEN [e \in Entries |-> None] ELSE snapshots[n]

(* "Runtime returns only Published, Active entries" - all of them, as they *)
(* are published: what clients are served never lags behind the entries,   *)
(* though it was put together from several reads.                          *)
SnapshotIsCurrent ==
  \A e \in Entries : Content(SnapshotAt(Len(snapshots))[e]) = Content(ItemOf(entry[e]))

(* A published entry points at the snapshot that brought it to where it    *)
(* is, and the event of that snapshot is about it.                         *)
EntriesNameTheirSnapshot ==
  \A e \in Entries : entry[e] # None /\ entry[e].published # None =>
    /\ entry[e].snapshot \in DOMAIN snapshots
    /\ Content(snapshots[entry[e].snapshot][e]) = Content(ItemOf(entry[e]))
    /\ events[entry[e].snapshot].entry = e

(* The revisions of an entry are numbered one by one, and the last is the  *)
(* one that is published.                                                  *)
RevisionsAreConsecutive ==
  \A e \in Entries : entry[e] # None =>
    LET own == {r \in revisions : r.entry = e} IN
    /\ {r.number : r \in own} = 1..entry[e].revision
    /\ \A r, s \in own : r.number = s.number => r = s
    /\ \A r \in own : r.number = entry[e].revision => r.definition = entry[e].published

(* Who is given which value never goes back: a segment captured for the    *)
(* newest snapshot is in no older version than in any snapshot before,     *)
(* though each call read the segments one by one and committed later.      *)
AudiencesNeverGoBack ==
  \A n \in 1..(Len(snapshots) - 1), e, f \in Entries :
    LET old == snapshots[n][e]  new == snapshots[Len(snapshots)][f] IN
    old # None /\ new # None =>
      \A i \in DOMAIN old.audience, k \in DOMAIN new.audience :
        Rules[old.definition][i] = Rules[new.definition][k] /\ new.audience[k] > 0 =>
          old.audience[i] <= new.audience[k]

-----------------------------------------------------------------------------
(* The promise of ConfigFeed.                                              *)

(* What was last released of each entry, and who it is for.                *)
Released ==
  [e \in Entries |->
    IF entry[e] = None \/ entry[e].published = None THEN None
    ELSE [definition |-> entry[e].published, revision |-> entry[e].revision]]

Withdrawn ==
  {e \in Entries : entry[e] # None /\ entry[e].published # None /\ entry[e].status = "Archived"}

VisibilityNow == [e \in Entries |-> IF entry[e] = None THEN None ELSE entry[e].visibility]

Feed == INSTANCE ConfigFeed
  WITH published <- Released, withdrawn <- Withdrawn, visibility <- VisibilityNow,
       served <- SnapshotAt(Len(snapshots)), version <- Len(snapshots)

(* Racing publications look like one configuration: each version releases, *)
(* withdraws or returns one entry, and all are served as they are released *)
(* then, with the segments and the visibility of a time since the version  *)
(* before.                                                                 *)
ImplementsFeed == Feed!Spec
=============================================================================
