---------------------------- MODULE ConfigProofs ----------------------------
(***************************************************************************)
(* Safety of ConfigPublication for any number of entries, definitions and  *)
(* calls, and its refinement of ConfigFeed; then safety of ConfigClient,   *)
(* the cache on the other side of the wire, for any contexts and callers.  *)
(***************************************************************************)
EXTENDS ConfigPublication, ConfigClient, TLAPS

Busy(c) == pc[c] # "idle"

(* A call that is under way works on an entry that exists, from a row that *)
(* is the entry's as long as it has the entry's version.                   *)
HasEntry(c) ==
  /\ job[c] \in Job
  /\ entry[job[c].entry] # None
  /\ job[c].row.version = job[c].seen.version + 1
  /\ job[c].seen.version <= entry[job[c].entry].version
  /\ job[c].seen.version = entry[job[c].entry].version => job[c].seen = entry[job[c].entry]

JobsHaveEntries == \A c \in Calls : Busy(c) => HasEntry(c)

(* The observers know the present, and no version that is still to come.   *)
SegmentsSeen ==
  \A s \in Segments :
    /\ segment[s].status = "Absent" => segment[s].version = 0
    /\ segment[s] \in since[s]
    /\ \A row \in since[s] : row.version <= segment[s].version

VisibilitySeen ==
  \A e \in Entries : IF entry[e] = None THEN shown[e] = {} ELSE entry[e].visibility \in shown[e]

(* What is published of an entry: two rows clients cannot tell apart.      *)
SamePublished(row, seen) ==
  /\ row.published = seen.published
  /\ row.revision = seen.revision
  /\ row.snapshot = seen.snapshot
  /\ row.status = seen.status \/ row.published = None

(* A plain update publishes nothing; a publication has something to say    *)
(* and numbers its revision after the last one; archiving and restoring    *)
(* change the status alone.                                                *)
UpdatesQuietly(c) == pc[c] = "update" => SamePublished(job[c].row, job[c].seen)

PublishesNext(c) ==
  pc[c] \in {"latest", "list", "commit"} =>
    /\ job[c].row.published # None
    /\ job[c].row.visibility = job[c].seen.visibility
    /\ IF job[c].revises
       THEN /\ job[c].row.revision = job[c].seen.revision + 1
            /\ job[c].row.status = "Active" /\ job[c].seen.status = "Active"
       ELSE /\ job[c].row.revision = job[c].seen.revision
            /\ job[c].row.published = job[c].seen.published
            /\ job[c].row.status # job[c].seen.status

JobsChangeOneThing == \A c \in Calls : UpdatesQuietly(c) /\ PublishesNext(c)

(* A snapshot has an item for a row that publishes, and what the row says. *)
Lists(item, row, visible) ==
  IF Publishes(row)
  THEN /\ item # None
       /\ item.definition = row.published /\ item.revision = row.revision
       /\ item.visibility \in visible
  ELSE item = None

(* The items of a snapshot that is still the next one are what is published*)
(* now: whatever was published since they were read took its number.  And  *)
(* every rule that was read was captured as its segment has been since.    *)
Numbered(c) == pc[c] \in {"list", "commit"} => job[c].row.snapshot \in 1..(Len(snapshots) + 1)

Whole(item) == item # None => DOMAIN item.audience = DOMAIN Rules[item.definition]

Readable(r, items) == items[r[1]] # None /\ r[2] \in DOMAIN items[r[1]].audience

CapturedSince(item, n) ==
  \E row \in since[Rules[item.definition][n]] : item.audience[n] = Captured(row)

Gathered(c) ==
  /\ \A e \in Entries \ {job[c].entry} : Lists(job[c].items[e], entry[e], shown[e])
  /\ \A e \in Entries : job[c].items[e] # None =>
       \A n \in DOMAIN job[c].items[e].audience :
         <<e, n>> \in job[c].unread \/ CapturedSince(job[c].items[e], n)

ItemsFresh(c) ==
  pc[c] = "commit" =>
    /\ job[c].items \in Snapshot
    /\ \A e \in Entries : Whole(job[c].items[e])
    /\ \A r \in job[c].unread : Readable(r, job[c].items)
    /\ Lists(job[c].items[job[c].entry], job[c].row, {job[c].row.visibility})
    /\ IsNext(c) => Gathered(c)

ItemsAreCurrent == \A c \in Calls : Numbered(c) /\ ItemsFresh(c)

TypeInv == TypeOK /\ JobsHaveEntries /\ SegmentsSeen /\ VisibilitySeen

JobInv == TypeInv /\ JobsChangeOneThing /\ ItemsAreCurrent

RevisionsHaveEntries == \A r \in revisions : entry[r.entry] # None

OneEventEach == Len(events) = Len(snapshots)

(* What was captured for a snapshot is no newer than any version its       *)
(* segment has had since the last one.                                     *)
OlderThanSince(item) ==
  item # None =>
    \A n \in DOMAIN item.audience :
      \A row \in since[Rules[item.definition][n]] : item.audience[n] <= row.version

SnapshotsAreOlder ==
  \A n \in DOMAIN snapshots : \A e \in Entries :
    Whole(snapshots[n][e]) /\ OlderThanSince(snapshots[n][e])

TableInv ==
  /\ RevisionsHaveEntries
  /\ OneEventEach
  /\ SnapshotIsCurrent
  /\ EntriesNameTheirSnapshot
  /\ RevisionsAreConsecutive
  /\ SnapshotsAreOlder
  /\ AudiencesNeverGoBack

IInv == JobInv /\ TableInv

-----------------------------------------------------------------------------
(* What a step does to the tables, the segments and the observers.         *)

(* The row of one entry is written, and clients cannot tell.               *)
QuietWrite(e, row) ==
  /\ entry' = [entry EXCEPT ![e] = row]
  /\ shown' = [shown EXCEPT ![e] = @ \cup {row.visibility}]
  /\ UNCHANGED <<revisions, snapshots, events, segment, since>>
  /\ row \in EntryRow
  /\ IF entry[e] = None
     THEN row.published = None /\ row.revision = 0
     ELSE SamePublished(row, entry[e]) /\ row.version = entry[e].version + 1

(* A segment gets its next version.                                        *)
SegmentWrite(s, row) ==
  /\ segment' = [segment EXCEPT ![s] = row]
  /\ since' = [since EXCEPT ![s] = @ \cup {row}]
  /\ UNCHANGED <<tables, calls, shown>>
  /\ row \in SegmentRow
  /\ row.status \in {"Active", "Archived"} /\ row.version = segment[s].version + 1

(* A snapshot is committed.                                                *)
SnapshotWrite(c) ==
  LET e == job[c].entry  row == job[c].row IN
  /\ pc[c] = "commit" /\ IsNext(c) /\ job[c].seen = entry[e] /\ job[c].unread = {}
  /\ entry' = [entry EXCEPT ![e] = row]
  /\ revisions' = revisions \cup
       IF job[c].revises
       THEN {[entry |-> e, number |-> row.revision, definition |-> row.published,
              snapshot |-> row.snapshot]}
       ELSE {}
  /\ snapshots' = Append(snapshots, job[c].items)
  /\ events' = Append(events, [entry |-> e, revision |-> row.revision, snapshot |-> row.snapshot])
  /\ since' = [s \in Segments |-> {segment[s]}]
  /\ shown' = [f \in Entries |-> IF entry[f] = None THEN {} ELSE {entry'[f].visibility}]
  /\ UNCHANGED segment

(* A commit that goes through writes over the row its call read.           *)
LEMMA CommitWrites ==
  ASSUME TypeInv, NEW c \in Calls, CommitSnapshot(c)
  PROVE  SnapshotWrite(c) \/ UNCHANGED <<tables, segment, observers>>
BY DEF TypeInv, TypeOK, JobsHaveEntries, HasEntry, Busy, CommitSnapshot, SnapshotWrite, EntryUnchanged

LEMMA UpdateWrites ==
  ASSUME TypeInv, JobsChangeOneThing, NEW c \in Calls, CommitUpdate(c)
  PROVE  QuietWrite(job[c].entry, job[c].row) \/ UNCHANGED <<tables, segment, observers>>
BY DEF TypeInv, TypeOK, JobsHaveEntries, HasEntry, Busy, JobsChangeOneThing, UpdatesQuietly, SamePublished,
   CommitUpdate, QuietWrite, EntryUnchanged, tables, observers, Job

LEMMA SegmentWrites ==
  ASSUME TypeInv, NEW s \in Segments, CreateSegment(s) \/ UpdateSegment(s) \/ ChangeSegmentStatus(s)
  PROVE  \E row \in SegmentRow : SegmentWrite(s, row)
<1>1. /\ segment[s] \in SegmentRow /\ segment[s].version \in Nat
      /\ segment[s].status = "Absent" => segment[s].version = 0
  BY DEF TypeInv, TypeOK, SegmentsSeen, SegmentRow
<1>2. ASSUME NEW row \in SegmentRow, WriteSegment(s, row),
             row.status \in {"Active", "Archived"}, row.version = segment[s].version + 1
      PROVE  SegmentWrite(s, row)
  BY <1>2 DEF WriteSegment, SegmentWrite
<1>3. CASE CreateSegment(s)
  <2> DEFINE row == [status |-> "Active", version |-> 1]
  <2>1. row \in SegmentRow /\ row.status = "Active" /\ row.version = segment[s].version + 1
    BY <1>1, <1>3 DEF CreateSegment, SegmentRow
  <2>2. WriteSegment(s, row)
    BY <1>3 DEF CreateSegment
  <2> QED
    BY <1>2, <2>1, <2>2
<1>4. CASE UpdateSegment(s)
  <2> DEFINE row == [segment[s] EXCEPT !.version = @ + 1]
  <2>1. row \in SegmentRow /\ row.status = "Active" /\ row.version = segment[s].version + 1
    BY <1>1, <1>4 DEF UpdateSegment, SegmentRow
  <2>2. WriteSegment(s, row)
    BY <1>4 DEF UpdateSegment
  <2> QED
    BY <1>2, <2>1, <2>2
<1>5. CASE ChangeSegmentStatus(s)
  <2> DEFINE row == [status |-> IF segment[s].status = "Active" THEN "Archived" ELSE "Active",
                     version |-> segment[s].version + 1]
  <2>1. row \in SegmentRow /\ row.status \in {"Active", "Archived"} /\ row.version = segment[s].version + 1
    BY <1>1 DEF SegmentRow
  <2>2. WriteSegment(s, row)
    BY <1>5 DEF ChangeSegmentStatus
  <2> QED
    BY <1>2, <2>1, <2>2
<1> QED
  BY <1>3, <1>4, <1>5

LEMMA TablesStep ==
  ASSUME TypeInv, JobsChangeOneThing, Next
  PROVE  \/ \E e \in Entries, row \in EntryRow : QuietWrite(e, row)
         \/ \E s \in Segments, row \in SegmentRow : SegmentWrite(s, row)
         \/ \E c \in Calls : SnapshotWrite(c)
         \/ UNCHANGED <<tables, segment, observers>>
<1>1. CASE \E e \in Entries : CreateEntry(e)
  <2>1. PICK e \in Entries : CreateEntry(e)
    BY <1>1
  <2>2. PICK d \in Definitions, v \in Visibility :
          /\ entry' = [entry EXCEPT ![e] =
               [status |-> "Active", visibility |-> v, draft |-> d, published |-> None,
                revision |-> 0, snapshot |-> 0, version |-> 1]]
          /\ shown' = [shown EXCEPT ![e] = @ \cup {v}]
    BY <2>1 DEF CreateEntry
  <2> DEFINE row == [status |-> "Active", visibility |-> v, draft |-> d, published |-> None,
                     revision |-> 0, snapshot |-> 0, version |-> 1]
  <2>3. row \in EntryRow
    BY DEF EntryRow
  <2>4. QuietWrite(e, row)
    BY <2>1, <2>2, <2>3 DEF CreateEntry, QuietWrite
  <2> QED
    BY <2>3, <2>4
<1>2. CASE \E c \in Calls : CommitUpdate(c)
  <2>1. PICK c \in Calls : CommitUpdate(c)
    BY <1>2
  <2>2. job[c].entry \in Entries /\ job[c].row \in EntryRow
    BY <2>1 DEF TypeInv, JobsHaveEntries, HasEntry, Busy, CommitUpdate, Job
  <2> QED
    BY <2>1, <2>2, UpdateWrites
<1>3. CASE \E c \in Calls : CommitSnapshot(c)
  BY <1>3, CommitWrites
<1>4. CASE \E s \in Segments : CreateSegment(s) \/ UpdateSegment(s) \/ ChangeSegmentStatus(s)
  BY <1>4, SegmentWrites
<1>5. CASE \E c \in Calls :
        \/ \E e \in Entries :
             BeginUpdateDraft(c, e) \/ BeginPublish(c, e) \/ BeginRollback(c, e) \/ BeginChangeStatus(c, e)
        \/ ValidateRule(c) \/ ReadLatest(c) \/ ListPublished(c) \/ CaptureRule(c) \/ Interrupt(c)
  <2>1. ASSUME NEW c \in Calls, NEW e \in Entries,
               \/ BeginUpdateDraft(c, e) \/ BeginPublish(c, e)
               \/ BeginRollback(c, e) \/ BeginChangeStatus(c, e)
        PROVE  UNCHANGED <<tables, segment, observers>>
    BY <2>1 DEF BeginUpdateDraft, BeginPublish, BeginRollback, BeginChangeStatus, Begin
  <2>2. ASSUME NEW c \in Calls,
               ValidateRule(c) \/ ReadLatest(c) \/ ListPublished(c) \/ CaptureRule(c) \/ Interrupt(c)
        PROVE  UNCHANGED <<tables, segment, observers>>
    BY <2>2 DEF ValidateRule, ReadLatest, ListPublished, CaptureRule, Interrupt
  <2> QED
    BY ONLY <1>5, <2>1, <2>2
<1> QED
  BY <1>1, <1>2, <1>3, <1>4, <1>5 DEF Next

(* What the prover has to know of an item: a rule's segment is a segment.  *)
LEMMA RuleSegments ==
  ASSUME NEW d \in Definitions, NEW n \in DOMAIN Rules[d]
  PROVE  n \in Nat /\ Rules[d][n] \in Segments
BY RulesAreOfSegments

(* Nothing is captured before the rules are read.                          *)
LEMMA BlankAudience ==
  ASSUME NEW d \in Definitions
  PROVE  [n \in DOMAIN Rules[d] |-> 0] \in Seq(Nat)
<1>1. Rules[d] \in Seq(Segments)
  BY RulesAreOfSegments
<1>2. Len(Rules[d]) \in Nat /\ DOMAIN Rules[d] = 1..Len(Rules[d])
  BY <1>1
<1>3. [n \in 1..Len(Rules[d]) |-> 0] \in Seq(Nat)
  BY <1>2
<1> QED
  BY <1>2, <1>3

(* What a row puts into a snapshot is an item or nothing.                  *)
LEMMA ItemOfRow ==
  ASSUME NEW row \in EntryRow \cup {None}
  PROVE  /\ ItemOf(row) \in Item \cup {None}
         /\ Publishes(row) => ItemOf(row) \in Item
         /\ Lists(ItemOf(row), row, {row.visibility})
         /\ Whole(ItemOf(row))
<1>1. CASE Publishes(row)
  <2> DEFINE a == [n \in DOMAIN Rules[row.published] |-> 0]
             i == [definition |-> row.published, revision |-> row.revision, visibility |-> row.visibility,
                   audience |-> a]
  <2>1. row \in EntryRow /\ row.published \in Definitions
    BY <1>1 DEF Publishes, EntryRow
  <2>2. a \in Seq(Nat) /\ DOMAIN a = DOMAIN Rules[row.published]
    BY <2>1, BlankAudience
  <2> HIDE DEF a
  <2>3. i \in Item
    BY <2>1, <2>2 DEF Item, EntryRow, Audience
  <2>4. ItemOf(row) = i
    BY <1>1 DEF ItemOf, a
  <2>5. /\ i.definition = row.published /\ i.revision = row.revision
        /\ i.visibility = row.visibility /\ i.audience = a
    OBVIOUS
  <2> HIDE DEF i
  <2> QED
    BY <1>1, <2>2, <2>3, <2>4, <2>5, NoneIsNothing DEF Lists, Whole
<1>2. CASE ~Publishes(row)
  BY <1>2 DEF Lists, ItemOf, Whole
<1> QED
  BY <1>1, <1>2

LEMMA ListsContent ==
  ASSUME NEW row \in EntryRow \cup {None}, NEW item \in Item \cup {None}, NEW visible,
         Lists(item, row, visible)
  PROVE  Content(item) = Content(ItemOf(row))
<1>1. CASE Publishes(row)
  <2>1. ItemOf(row) \in Item /\ Lists(ItemOf(row), row, {row.visibility})
    BY <1>1, ItemOfRow
  <2> QED
    BY <1>1, <2>1, NoneIsNothing DEF Lists, Content
<1>2. CASE ~Publishes(row)
  BY <1>2 DEF Lists, ItemOf
<1> QED
  BY <1>1, <1>2

(* Clients cannot tell the row that is written from the one before.        *)
LEMMA QuietRow ==
  ASSUME TypeOK, NEW e \in Entries, NEW row \in EntryRow, QuietWrite(e, row), NEW f \in Entries
  PROVE  /\ entry'[f] = IF f = e THEN row ELSE entry[f]
         /\ shown[f] \subseteq shown'[f]
         /\ Publishes(entry'[f]) <=> Publishes(entry[f])
         /\ Publishes(entry[f]) => /\ entry'[f].published = entry[f].published
                                   /\ entry'[f].revision = entry[f].revision
<1>1. /\ entry'[f] = IF f = e THEN row ELSE entry[f]
      /\ shown'[f] = IF f = e THEN shown[f] \cup {row.visibility} ELSE shown[f]
  BY DEF QuietWrite, TypeOK
<1>2. f = e => /\ Publishes(row) <=> Publishes(entry[f])
               /\ Publishes(entry[f]) => row.published = entry[f].published /\ row.revision = entry[f].revision
  BY NoneIsNothing DEF QuietWrite, Publishes, SamePublished
<1> QED
  BY <1>1, <1>2

LEMMA QuietToClients ==
  ASSUME TypeOK, NEW e \in Entries, NEW row \in EntryRow, QuietWrite(e, row), NEW f \in Entries
  PROVE  Content(ItemOf(entry'[f])) = Content(ItemOf(entry[f]))
<1>1. /\ entry[f] \in EntryRow \cup {None} /\ entry'[f] \in EntryRow \cup {None}
      /\ Publishes(entry'[f]) <=> Publishes(entry[f])
      /\ Publishes(entry[f]) => entry'[f].published = entry[f].published /\ entry'[f].revision = entry[f].revision
  BY QuietRow DEF TypeOK
<1>2. CASE ~Publishes(entry[f])
  BY <1>1, <1>2 DEF ItemOf
<1>3. CASE Publishes(entry[f])
  <2>1. ItemOf(entry[f]) \in Item
    BY <1>1, <1>3, ItemOfRow DEF ItemOf
  <2>2. /\ ItemOf(entry[f]).definition = entry[f].published
        /\ ItemOf(entry[f]).revision = entry[f].revision
    BY <1>3 DEF ItemOf
  <2>3. Lists(ItemOf(entry[f]), entry'[f], {ItemOf(entry[f]).visibility})
    BY <1>1, <1>3, <2>1, <2>2, NoneIsNothing DEF Lists
  <2> QED
    BY <1>1, <2>1, <2>3, ListsContent
<1> QED
  BY <1>2, <1>3

(* Rows never disappear, and a row that changes gets a higher version.     *)
LEMMA RowsAdvance ==
  ASSUME TypeInv, JobsChangeOneThing, Next, NEW e \in Entries, entry[e] # None
  PROVE  /\ entry'[e] \in EntryRow
         /\ entry'[e] = entry[e] \/ entry'[e].version > entry[e].version
<1>0. entry[e] \in EntryRow
  BY DEF TypeInv, TypeOK
<1>1. CASE \E f \in Entries, row \in EntryRow : QuietWrite(f, row)
  BY <1>0, <1>1 DEF QuietWrite, TypeInv, TypeOK, EntryRow
<1>2. ASSUME NEW c \in Calls, SnapshotWrite(c)
      PROVE  /\ entry'[e] \in EntryRow
             /\ entry'[e] = entry[e] \/ entry'[e].version > entry[e].version
  <2>1. job[c] \in Job /\ job[c].row.version = job[c].seen.version + 1
    BY <1>2 DEF SnapshotWrite, TypeInv, JobsHaveEntries, HasEntry, Busy
  <2>2. job[c].row \in EntryRow /\ job[c].entry \in Entries
    BY <2>1 DEF Job
  <2> QED
    BY <1>0, <1>2, <2>1, <2>2 DEF SnapshotWrite, TypeInv, TypeOK, EntryRow
<1> QED
  BY <1>0, <1>1, <1>2, TablesStep DEF tables, SegmentWrite

(* A call that does not move keeps what it knows.                          *)
LEMMA OthersKeep ==
  ASSUME JobInv, Next, NEW d \in Calls, pc'[d] = pc[d], job'[d] = job[d]
  PROVE  /\ (Busy(d) => HasEntry(d))'
         /\ (UpdatesQuietly(d) /\ PublishesNext(d))'
         /\ (Numbered(d) /\ ItemsFresh(d))'
<1>0. TypeInv /\ JobsChangeOneThing
  BY DEF JobInv
<1>1. (Busy(d) => HasEntry(d))'
  <2> SUFFICES ASSUME Busy(d) PROVE HasEntry(d)'
    BY DEF Busy
  <2>1. HasEntry(d)
    BY <1>0 DEF TypeInv, JobsHaveEntries
  <2> DEFINE e == job[d].entry
  <2>2. e \in Entries /\ entry[e] # None /\ entry[e] \in EntryRow /\ job[d].seen \in EntryRow
    BY <1>0, <2>1 DEF HasEntry, Job, TypeInv, TypeOK
  <2>3. /\ entry'[e] \in EntryRow
        /\ entry'[e] = entry[e] \/ entry'[e].version > entry[e].version
    BY <1>0, <2>2, RowsAdvance
  <2>4. entry'[e] # None
    BY <2>3, NoneIsNothing
  <2>5. job[d].seen.version \in Nat /\ entry[e].version \in Nat /\ entry'[e].version \in Nat
    BY <2>2, <2>3 DEF EntryRow
  <2> QED
    BY <2>1, <2>3, <2>4, <2>5 DEF HasEntry
<1>2. (UpdatesQuietly(d) /\ PublishesNext(d))'
  BY <1>0 DEF JobsChangeOneThing, UpdatesQuietly, PublishesNext
<1>3. (Numbered(d) /\ ItemsFresh(d))'
  <2>0. Numbered(d) /\ ItemsFresh(d)
    BY DEF JobInv, ItemsAreCurrent
  <2>1. CASE \E e \in Entries, row \in EntryRow : QuietWrite(e, row)
    <3>1. PICK e \in Entries, row \in EntryRow : QuietWrite(e, row)
      BY <2>1
    <3>2. ASSUME NEW f \in Entries, NEW item, Lists(item, entry[f], shown[f])
          PROVE  Lists(item, entry'[f], shown'[f])
      BY <1>0, <3>1, <3>2, QuietRow DEF TypeInv, Lists
    <3>3. snapshots' = snapshots /\ since' = since
      BY <3>1 DEF QuietWrite
    <3>4. (pc[d] = "commit" /\ job[d].items \in Snapshot => job[d].entry \in Entries)
      BY <1>0 DEF TypeInv, JobsHaveEntries, Busy, HasEntry, Job
    <3>5. Gathered(d) => Gathered(d)'
      BY <3>2, <3>3 DEF Gathered, CapturedSince
    <3> QED
      BY <2>0, <3>3, <3>5 DEF Numbered, ItemsFresh, IsNext
  <2>2. CASE \E s \in Segments, row \in SegmentRow : SegmentWrite(s, row)
    <3>1. PICK s \in Segments, row \in SegmentRow : SegmentWrite(s, row)
      BY <2>2
    <3>2. UNCHANGED <<entry, snapshots, shown>> /\ since \in [Segments -> SUBSET SegmentRow]
      BY <1>0, <3>1 DEF SegmentWrite, tables, TypeInv, TypeOK
    <3>3. \A t \in Segments : since[t] \subseteq since'[t]
      BY <3>1, <3>2 DEF SegmentWrite
    <3>4. Gathered(d) /\ pc[d] = "commit" => Gathered(d)'
      <4> SUFFICES ASSUME Gathered(d), pc[d] = "commit" PROVE Gathered(d)'
        OBVIOUS
      <4>1. ASSUME NEW e \in Entries, job[d].items[e] # None, NEW n \in DOMAIN job[d].items[e].audience
            PROVE  Rules[job[d].items[e].definition][n] \in Segments
        <5>1. job[d].items[e] \in Item /\ Whole(job[d].items[e])
          BY <2>0, <4>1 DEF ItemsFresh, Snapshot
        <5>2. job[d].items[e].definition \in Definitions /\ n \in DOMAIN Rules[job[d].items[e].definition]
          BY <4>1, <5>1 DEF Whole, Item
        <5> QED
          BY <5>2, RuleSegments
      <4> QED
        BY <3>2, <3>3, <4>1 DEF Gathered, CapturedSince
    <3> QED
      BY <2>0, <3>2, <3>4 DEF Numbered, ItemsFresh, IsNext
  <2>3. CASE \E c \in Calls : SnapshotWrite(c)
    <3>1. /\ Len(snapshots') = Len(snapshots) + 1
          /\ Len(snapshots) \in Nat
      BY <1>0, <2>3 DEF SnapshotWrite, TypeInv, TypeOK
    <3> QED
      BY <2>0, <3>1 DEF Numbered, ItemsFresh, IsNext
  <2>4. CASE UNCHANGED <<tables, segment, observers>>
    BY <2>0, <2>4 DEF Numbered, ItemsFresh, IsNext, Gathered, CapturedSince, tables, observers
  <2> QED
    BY <1>0, <2>1, <2>2, <2>3, <2>4, TablesStep
<1> QED
  BY <1>1, <1>2, <1>3

-----------------------------------------------------------------------------
(* What a step does to the call that takes it.                             *)

JobGood(c) ==
  /\ Busy(c) => HasEntry(c)
  /\ UpdatesQuietly(c) /\ PublishesNext(c)
  /\ Numbered(c) /\ ItemsFresh(c)

CallTypes == pc \in [Calls -> Step] /\ job \in [Calls -> Job \cup {None}]

LEMMA OthersStay ==
  ASSUME JobInv, Next, NEW c \in Calls, NEW d \in Calls \ {c},
         NEW step, NEW j, pc' = [pc EXCEPT ![c] = step], job' = [job EXCEPT ![c] = j]
  PROVE  JobGood(d)'
<1>1. pc'[d] = pc[d] /\ job'[d] = job[d]
  BY DEF JobInv, TypeInv, TypeOK
<1> QED
  BY <1>1, OthersKeep DEF JobGood

(* A call that ends has nothing left to be good.                           *)
LEMMA ReturnGood ==
  ASSUME JobInv, NEW c \in Calls, Return(c)
  PROVE  CallTypes' /\ JobGood(c)'
<1>1. pc \in [Calls -> Step] /\ job \in [Calls -> Job \cup {None}]
  BY DEF JobInv, TypeInv, TypeOK
<1>2. pc' = [pc EXCEPT ![c] = "idle"] /\ job' = [job EXCEPT ![c] = None]
  BY DEF Return, Goto
<1>3. pc'[c] = "idle" /\ CallTypes'
  BY <1>1, <1>2 DEF Step, CallTypes
<1> QED
  BY <1>3 DEF JobGood, Busy, UpdatesQuietly, PublishesNext, Numbered, ItemsFresh

LEMMA RulesOfPairs ==
  ASSUME NEW e \in Entries, NEW d \in Definitions
  PROVE  /\ RulesOf(e, d) \subseteq Entries \X Nat
         /\ \A r \in RulesOf(e, d) : r[1] = e /\ r[2] \in DOMAIN Rules[d] /\ r = <<e, r[2]>>
<1>1. \A n \in DOMAIN Rules[d] : n \in Nat
  BY RuleSegments
<1> QED
  BY <1>1 DEF RulesOf

(* A call begins well if the change it works out is one of its kind.       *)
LEMMA BeginGood ==
  ASSUME JobInv, NEW c \in Calls, NEW e \in Entries, NEW step \in {"update", "latest"},
         NEW change \in EntryRow, NEW revises \in BOOLEAN, entry[e] # None,
         Begin(c, e, step, change, revises),
         step = "update" => SamePublished(change, entry[e]) /\ ~revises,
         step = "latest" =>
           /\ change.published # None
           /\ change.visibility = entry[e].visibility
           /\ IF revises
              THEN /\ change.revision = entry[e].revision + 1
                   /\ change.status = "Active" /\ entry[e].status = "Active"
              ELSE /\ change.revision = entry[e].revision /\ change.published = entry[e].published
                   /\ change.status # entry[e].status
  PROVE  CallTypes' /\ JobGood(c)'
<1> DEFINE row == [change EXCEPT !.version = entry[e].version + 1]
           unread == IF revises THEN RulesOf(e, change.published) ELSE {}
           j == [entry |-> e, seen |-> entry[e], row |-> row, revises |-> revises, items |-> None,
                 unread |-> unread]
<1>0. /\ entry[e] \in EntryRow
      /\ pc \in [Calls -> Step] /\ job \in [Calls -> Job \cup {None}]
  BY DEF JobInv, TypeInv, TypeOK
<1>1. /\ row \in EntryRow
      /\ row.version = entry[e].version + 1 /\ row.visibility = change.visibility
      /\ row.published = change.published /\ row.revision = change.revision
      /\ row.snapshot = change.snapshot /\ row.status = change.status
  BY <1>0 DEF EntryRow
<1>a. unread \in SUBSET (Entries \X Nat)
  <2>1. CASE revises
    <3>1. change.published \in Definitions
      BY <2>1 DEF EntryRow
    <3> QED
      BY <3>1, RulesOfPairs
  <2> QED
    BY <2>1
<1>3. pc' = [pc EXCEPT ![c] = step] /\ job' = [job EXCEPT ![c] = j] /\ UNCHANGED tables
  BY DEF Begin, Goto
<1> HIDE DEF row, unread
<1>2. j \in Job
  BY <1>0, <1>1, <1>a DEF Job
<1>4. pc'[c] = step /\ job'[c] = j /\ CallTypes'
  BY <1>0, <1>2, <1>3 DEF Step, CallTypes
<1>5. /\ j.entry = e /\ j.seen = entry[e] /\ j.row = row /\ j.revises = revises
  OBVIOUS
<1> HIDE DEF j
<1>6. HasEntry(c)'
  BY <1>0, <1>1, <1>2, <1>3, <1>4, <1>5 DEF HasEntry, tables, EntryRow
<1>7. UpdatesQuietly(c)'
  BY <1>1, <1>4, <1>5 DEF UpdatesQuietly, SamePublished
<1>8. PublishesNext(c)'
  BY <1>1, <1>4, <1>5 DEF PublishesNext
<1>9. (Numbered(c) /\ ItemsFresh(c))'
  BY <1>4 DEF Numbered, ItemsFresh
<1> QED
  BY <1>4, <1>6, <1>7, <1>8, <1>9 DEF JobGood

LEMMA BeginUpdateGood ==
  ASSUME JobInv, NEW c \in Calls, NEW e \in Entries, BeginUpdateDraft(c, e)
  PROVE  CallTypes' /\ JobGood(c)'
<1>1. entry[e] # None /\ entry[e] \in EntryRow
  BY DEF BeginUpdateDraft, IsActive, JobInv, TypeInv, TypeOK
<1>2. PICK d \in Definitions, v \in Visibility :
        Begin(c, e, "update", [entry[e] EXCEPT !.draft = d, !.visibility = v], FALSE)
  BY DEF BeginUpdateDraft
<1> DEFINE change == [entry[e] EXCEPT !.draft = d, !.visibility = v]
<1>3. change \in EntryRow /\ SamePublished(change, entry[e])
  BY <1>1 DEF EntryRow, SamePublished
<1> HIDE DEF change
<1>4. Begin(c, e, "update", change, FALSE)
  BY <1>2 DEF change
<1> QED
  BY <1>1, <1>3, <1>4, BeginGood

LEMMA BeginPublishGood ==
  ASSUME JobInv, NEW c \in Calls, NEW e \in Entries, BeginPublish(c, e)
  PROVE  CallTypes' /\ JobGood(c)'
<1>1. entry[e] # None /\ entry[e] \in EntryRow
  BY DEF BeginPublish, IsActive, JobInv, TypeInv, TypeOK
<1> DEFINE change == [entry[e] EXCEPT !.published = entry[e].draft, !.revision = NextRevision(entry[e])]
<1>2. change \in EntryRow /\ change.published \in Definitions /\ change.revision = entry[e].revision + 1
      /\ change.visibility = entry[e].visibility /\ change.status = "Active" /\ entry[e].status = "Active"
  <2>1. /\ entry[e].draft \in Definitions /\ entry[e].draft \in Definitions \cup {None}
        /\ NextRevision(entry[e]) \in Nat /\ NextRevision(entry[e]) = entry[e].revision + 1
        /\ entry[e].status = "Active"
    BY <1>1 DEF EntryRow, NextRevision, BeginPublish, IsActive
  <2> QED
    BY <1>1, <2>1 DEF EntryRow
<1>3. change.published # None
  BY <1>2, NoneIsNothing
<1> HIDE DEF change
<1>4. Begin(c, e, "latest", change, TRUE)
  BY DEF BeginPublish, change
<1> QED
  BY <1>1, <1>2, <1>3, <1>4, BeginGood

LEMMA BeginRollbackGood ==
  ASSUME JobInv, NEW c \in Calls, NEW e \in Entries, BeginRollback(c, e)
  PROVE  CallTypes' /\ JobGood(c)'
<1>1. entry[e] # None /\ entry[e] \in EntryRow /\ revisions \subseteq Revision
  BY DEF BeginRollback, IsActive, JobInv, TypeInv, TypeOK
<1>2. PICK target \in revisions :
        Begin(c, e, "latest",
          [entry[e] EXCEPT !.draft = target.definition, !.published = target.definition,
                           !.revision = NextRevision(entry[e])], TRUE)
  BY DEF BeginRollback
<1> DEFINE change == [entry[e] EXCEPT !.draft = target.definition, !.published = target.definition,
                                      !.revision = NextRevision(entry[e])]
<1>3. target.definition \in Definitions
  BY <1>1 DEF Revision
<1>4. change \in EntryRow /\ change.published \in Definitions /\ change.revision = entry[e].revision + 1
      /\ change.visibility = entry[e].visibility /\ change.status = "Active" /\ entry[e].status = "Active"
  <2>1. /\ target.definition \in Definitions \cup {None}
        /\ NextRevision(entry[e]) \in Nat /\ NextRevision(entry[e]) = entry[e].revision + 1
        /\ entry[e].status = "Active"
    BY <1>1, <1>3 DEF EntryRow, NextRevision, BeginRollback, IsActive
  <2> QED
    BY <1>1, <1>3, <2>1 DEF EntryRow
<1>5. change.published # None
  BY <1>4, NoneIsNothing
<1>6. Begin(c, e, "latest", change, TRUE)
  BY <1>2
<1> HIDE DEF change
<1> QED
  BY <1>1, <1>4, <1>5, <1>6, BeginGood

LEMMA BeginStatusGood ==
  ASSUME JobInv, NEW c \in Calls, NEW e \in Entries, BeginChangeStatus(c, e)
  PROVE  CallTypes' /\ JobGood(c)'
<1>1. entry[e] # None /\ entry[e] \in EntryRow
  BY DEF BeginChangeStatus, JobInv, TypeInv, TypeOK
<1> DEFINE change == [entry[e] EXCEPT !.status = IF @ = "Active" THEN "Archived" ELSE "Active"]
           step == IF entry[e].published = None THEN "update" ELSE "latest"
<1>2. /\ change \in EntryRow
      /\ change.published = entry[e].published /\ change.revision = entry[e].revision
      /\ change.snapshot = entry[e].snapshot /\ change.visibility = entry[e].visibility
      /\ change.status # entry[e].status
  BY <1>1 DEF EntryRow
<1>3. /\ step \in {"update", "latest"}
      /\ step = "update" => change.published = None
      /\ step = "latest" => change.published # None
  BY <1>2
<1>4. Begin(c, e, step, change, FALSE)
  BY DEF BeginChangeStatus
<1> HIDE DEF change, step
<1>5. step = "update" => SamePublished(change, entry[e])
  BY <1>2, <1>3 DEF SamePublished
<1> QED
  BY <1>1, <1>2, <1>3, <1>4, <1>5, BeginGood

LEMMA ReadLatestGood ==
  ASSUME JobInv, NEW c \in Calls, ReadLatest(c)
  PROVE  CallTypes' /\ JobGood(c)'
<1>1. /\ pc \in [Calls -> Step] /\ job \in [Calls -> Job \cup {None}]
      /\ pc[c] = "latest" /\ HasEntry(c) /\ PublishesNext(c) /\ Len(snapshots) \in Nat
  BY DEF JobInv, TypeInv, TypeOK, JobsHaveEntries, Busy, JobsChangeOneThing, ReadLatest
<1> DEFINE row == [job[c].row EXCEPT !.snapshot = Len(snapshots) + 1]
           j == [job[c] EXCEPT !.row = row]
<1>2. job[c].row \in EntryRow /\ job[c] \in Job
  BY <1>1 DEF HasEntry, Job
<1>3. /\ row \in EntryRow
      /\ row.version = job[c].row.version /\ row.published = job[c].row.published
      /\ row.revision = job[c].row.revision /\ row.snapshot = Len(snapshots) + 1
      /\ row.status = job[c].row.status /\ row.visibility = job[c].row.visibility
  BY <1>1, <1>2 DEF EntryRow
<1>4. UNCHANGED tables /\ pc' = [pc EXCEPT ![c] = "list"] /\ job' = [job EXCEPT ![c] = j]
  BY DEF ReadLatest, Goto, Number
<1> HIDE DEF row
<1>5. /\ j \in Job
      /\ j.entry = job[c].entry /\ j.seen = job[c].seen /\ j.row = row /\ j.revises = job[c].revises
  BY <1>2, <1>3 DEF Job
<1> HIDE DEF j
<1>6. pc'[c] = "list" /\ job'[c] = j /\ CallTypes'
  BY <1>1, <1>4, <1>5 DEF Step, CallTypes
<1>7. HasEntry(c)'
  BY <1>1, <1>3, <1>4, <1>5, <1>6 DEF HasEntry, tables
<1>8. PublishesNext(c)'
  BY <1>1, <1>3, <1>5, <1>6 DEF PublishesNext
<1>9. Numbered(c)'
  BY <1>1, <1>3, <1>4, <1>5, <1>6 DEF Numbered, tables
<1> QED
  BY <1>6, <1>7, <1>8, <1>9 DEF JobGood, UpdatesQuietly, ItemsFresh

(* A rule that is validated is one rule less to read.                      *)
LEMMA ValidateGood ==
  ASSUME JobInv, NEW c \in Calls, ValidateRule(c)
  PROVE  CallTypes' /\ JobGood(c)'
<1>1. /\ pc \in [Calls -> Step] /\ job \in [Calls -> Job \cup {None}]
      /\ pc[c] = "latest" /\ HasEntry(c) /\ PublishesNext(c)
  BY DEF JobInv, TypeInv, TypeOK, JobsHaveEntries, Busy, JobsChangeOneThing, ValidateRule
<1>2. UNCHANGED tables
  BY DEF ValidateRule
<1>3. PICK r \in job[c].unread :
        (job' = [job EXCEPT ![c].unread = @ \ {r}] /\ pc' = pc) \/ Return(c)
  BY DEF ValidateRule
<1>4. CASE Return(c)
  BY <1>4, ReturnGood
<1>5. CASE job' = [job EXCEPT ![c].unread = @ \ {r}] /\ pc' = pc
  <2> DEFINE j == [job[c] EXCEPT !.unread = @ \ {r}]
  <2>1. job[c] \in Job
    BY <1>1 DEF HasEntry
  <2>2. /\ j \in Job
        /\ j.entry = job[c].entry /\ j.seen = job[c].seen /\ j.row = job[c].row /\ j.revises = job[c].revises
    BY <2>1 DEF Job
  <2>3. job' = [job EXCEPT ![c] = j]
    BY <1>5
  <2> HIDE DEF j
  <2>4. pc'[c] = "latest" /\ job'[c] = j /\ CallTypes'
    BY <1>1, <1>5, <2>2, <2>3 DEF CallTypes
  <2>5. HasEntry(c)'
    BY <1>1, <1>2, <2>2, <2>4 DEF HasEntry, tables
  <2>6. PublishesNext(c)'
    BY <1>1, <2>2, <2>4 DEF PublishesNext
  <2> QED
    BY <2>4, <2>5, <2>6 DEF JobGood, UpdatesQuietly, Numbered, ItemsFresh
<1> QED
  BY <1>3, <1>4, <1>5

LEMMA ListPublishedGood ==
  ASSUME JobInv, NEW c \in Calls, ListPublished(c)
  PROVE  CallTypes' /\ JobGood(c)'
<1>1. /\ pc \in [Calls -> Step] /\ job \in [Calls -> Job \cup {None}]
      /\ entry \in [Entries -> EntryRow \cup {None}] /\ VisibilitySeen
      /\ pc[c] = "list" /\ HasEntry(c) /\ PublishesNext(c) /\ Numbered(c)
  BY DEF JobInv, TypeInv, TypeOK, JobsHaveEntries, Busy, JobsChangeOneThing, ItemsAreCurrent, ListPublished
<1> DEFINE row == [entry EXCEPT ![job[c].entry] = job[c].row]
           items == [e \in Entries |-> ItemOf(row[e])]
           unread == UNION {RulesOf(e, row[e].published) : e \in {f \in Entries : Publishes(row[f])}}
           j == [job[c] EXCEPT !.items = items, !.unread = unread]
<1>2. job[c].row \in EntryRow /\ job[c] \in Job /\ job[c].entry \in Entries
  BY <1>1 DEF HasEntry, Job
<1>3. /\ \A e \in Entries : row[e] \in EntryRow \cup {None}
      /\ row[job[c].entry] = job[c].row
      /\ \A e \in Entries \ {job[c].entry} : row[e] = entry[e]
  BY <1>1, <1>2
<1>4. UNCHANGED <<tables, segment, observers>> /\ pc' = [pc EXCEPT ![c] = "commit"] /\ job' = [job EXCEPT ![c] = j]
  BY DEF ListPublished, Goto
<1> HIDE DEF row
<1>5. ASSUME NEW e \in Entries
      PROVE  /\ items[e] \in Item \cup {None} /\ Whole(items[e])
             /\ Lists(items[e], row[e], {row[e].visibility})
             /\ Publishes(row[e]) => row[e].published \in Definitions
  <2>1. row[e] \in EntryRow \cup {None}
    BY <1>3
  <2>2. Publishes(row[e]) => row[e].published \in Definitions
    BY <2>1 DEF Publishes, EntryRow
  <2> QED
    BY <2>1, <2>2, ItemOfRow
<1>6. items \in Snapshot
  BY <1>5 DEF Snapshot
<1>7. ASSUME NEW r \in unread
      PROVE  /\ r \in Entries \X Nat /\ Readable(r, items)
  <2>1. PICK e \in Entries : Publishes(row[e]) /\ r \in RulesOf(e, row[e].published)
    OBVIOUS
  <2>2. r \in Entries \X Nat /\ r[1] = e /\ r[2] \in DOMAIN Rules[row[e].published]
    BY <1>5, <2>1, RulesOfPairs
  <2>3. items[e] # None /\ items[e].definition = row[e].published /\ DOMAIN items[e].audience = DOMAIN Rules[items[e].definition]
    BY <1>5, <2>1 DEF Lists, Whole
  <2> HIDE DEF items
  <2> QED
    BY <2>2, <2>3 DEF Readable
<1>8. ASSUME NEW e \in Entries, items[e] # None, NEW n \in DOMAIN items[e].audience
      PROVE  <<e, n>> \in unread
  <2>1. Publishes(row[e])
    BY <1>5, <1>8 DEF Lists
  <2>2. n \in DOMAIN Rules[row[e].published]
    BY <1>5, <1>8, <2>1 DEF Lists, Whole
  <2>3. <<e, n>> \in RulesOf(e, row[e].published)
    BY <2>2 DEF RulesOf
  <2> QED
    BY <2>1, <2>3
<1> HIDE DEF items, unread
<1>9. ASSUME NEW e \in Entries \ {job[c].entry}
      PROVE  Lists(items[e], entry[e], shown[e])
  BY <1>1, <1>3, <1>5 DEF Lists, VisibilitySeen, Publishes
<1>10. /\ j \in Job /\ j.items = items /\ j.row = job[c].row /\ j.unread = unread
       /\ j.entry = job[c].entry /\ j.seen = job[c].seen /\ j.revises = job[c].revises
  BY <1>2, <1>6, <1>7 DEF Job
<1> HIDE DEF j
<1>11. pc'[c] = "commit" /\ job'[c] = j /\ CallTypes'
  BY <1>1, <1>4, <1>10 DEF Step, CallTypes
<1>12. HasEntry(c)'
  BY <1>1, <1>4, <1>10, <1>11 DEF HasEntry, tables
<1>13. PublishesNext(c)'
  BY <1>1, <1>10, <1>11 DEF PublishesNext
<1>14. Numbered(c)'
  BY <1>1, <1>4, <1>10, <1>11 DEF Numbered, tables
<1>15. Gathered(c)'
  BY <1>4, <1>8, <1>9, <1>10, <1>11 DEF Gathered, tables, observers
<1>16. ItemsFresh(c)'
  BY <1>2, <1>3, <1>5, <1>6, <1>7, <1>10, <1>11, <1>15 DEF ItemsFresh
<1> QED
  BY <1>11, <1>12, <1>13, <1>14, <1>16 DEF JobGood, UpdatesQuietly

LEMMA WithAudience ==
  ASSUME NEW i \in Item, NEW a \in Seq(Nat), NEW new, new = [i EXCEPT !.audience = a]
  PROVE  /\ new \in Item /\ new # None
         /\ new.definition = i.definition /\ new.revision = i.revision
         /\ new.visibility = i.visibility /\ new.audience = a
BY NoneIsNothing DEF Item, Audience

LEMMA ExceptSequence ==
  ASSUME NEW a \in Seq(Nat), NEW n \in DOMAIN a, NEW v \in Nat
  PROVE  /\ [a EXCEPT ![n] = v] \in Seq(Nat)
         /\ DOMAIN [a EXCEPT ![n] = v] = DOMAIN a
         /\ [a EXCEPT ![n] = v][n] = v
         /\ \A m \in DOMAIN a \ {n} : [a EXCEPT ![n] = v][m] = a[m]
<1>1. Len(a) \in Nat /\ a \in [1..Len(a) -> Nat] /\ n \in 1..Len(a)
  OBVIOUS
<1>2. [a EXCEPT ![n] = v] \in [1..Len(a) -> Nat]
  BY <1>1
<1>3. \A f : f \in [1..Len(a) -> Nat] => f \in Seq(Nat)
  BY <1>1
<1> QED
  BY <1>1, <1>2, <1>3

(* A rule that is read is captured as its segment is now, in its item only.*)
LEMMA CaptureGood ==
  ASSUME JobInv, NEW c \in Calls, CaptureRule(c)
  PROVE  CallTypes' /\ JobGood(c)'
<1>1. /\ pc \in [Calls -> Step] /\ job \in [Calls -> Job \cup {None}]
      /\ segment \in [Segments -> SegmentRow] /\ SegmentsSeen
      /\ pc[c] = "commit" /\ HasEntry(c) /\ PublishesNext(c) /\ Numbered(c) /\ ItemsFresh(c)
  BY DEF JobInv, TypeInv, TypeOK, JobsHaveEntries, Busy, JobsChangeOneThing, ItemsAreCurrent, CaptureRule
<1>2. UNCHANGED <<tables, segment, observers>> /\ pc' = pc
  BY DEF CaptureRule
<1>3. PICK r \in job[c].unread :
        job' = [job EXCEPT ![c].items = Capture(@, r), ![c].unread = @ \ {r}]
  BY DEF CaptureRule
<1> DEFINE e == r[1]
           n == r[2]
           old == job[c].items
           items == Capture(old, r)
           unread == job[c].unread \ {r}
           j == [job[c] EXCEPT !.items = items, !.unread = unread]
<1>4. /\ job[c] \in Job /\ r \in Entries \X Nat /\ e \in Entries /\ n \in Nat /\ r = <<e, n>>
      /\ old \in Snapshot /\ unread \in SUBSET (Entries \X Nat)
      /\ old[e] # None /\ n \in DOMAIN old[e].audience
  BY <1>1, <1>3 DEF HasEntry, Job, ItemsFresh, Readable
<1>5. /\ old[e] \in Item /\ old[e].definition \in Definitions
      /\ DOMAIN old[e].audience = DOMAIN Rules[old[e].definition]
  <2>1. old[e] \in Item
    BY <1>4 DEF Snapshot
  <2> QED
    BY <1>1, <1>4, <2>1 DEF ItemsFresh, Whole, Item
<1> DEFINE s == Rules[old[e].definition][n]
           captured == Captured(segment[s])
           audience == [old[e].audience EXCEPT ![n] = captured]
<1>6. s \in Segments
  BY <1>4, <1>5, RuleSegments
<1>7. captured \in Nat /\ segment[s] \in since[s]
  BY <1>1, <1>6 DEF Captured, SegmentRow, SegmentsSeen
<1> DEFINE item == [old[e] EXCEPT !.audience = audience]
<1>8. items = [old EXCEPT ![e] = item]
  BY DEF Capture
<1>9. job' = [job EXCEPT ![c] = j]
  BY <1>1, <1>3
<1> HIDE DEF captured, items
<1>10. /\ audience \in Seq(Nat)
       /\ DOMAIN audience = DOMAIN old[e].audience
       /\ audience[n] = captured
       /\ \A m \in DOMAIN audience \ {n} : audience[m] = old[e].audience[m]
  <2>1. old[e].audience \in Seq(Nat)
    BY <1>5 DEF Item, Audience
  <2> DEFINE a == old[e].audience
  <2> HIDE DEF a
  <2>2. a \in Seq(Nat) /\ n \in DOMAIN a
    BY <1>4, <2>1 DEF a
  <2>3. /\ [a EXCEPT ![n] = captured] \in Seq(Nat)
        /\ DOMAIN [a EXCEPT ![n] = captured] = DOMAIN a
        /\ [a EXCEPT ![n] = captured][n] = captured
        /\ \A m \in DOMAIN a \ {n} : [a EXCEPT ![n] = captured][m] = a[m]
    BY <1>7, <2>2, ExceptSequence
  <2> QED
    BY <2>3 DEF a
<1> HIDE DEF audience
<1>11. /\ item \in Item /\ item # None
       /\ item.definition = old[e].definition /\ item.revision = old[e].revision
       /\ item.visibility = old[e].visibility /\ item.audience = audience
  <2>1. item = [old[e] EXCEPT !.audience = audience]
    OBVIOUS
  <2> HIDE DEF item, old
  <2> QED
    BY <1>5, <1>10, <2>1, WithAudience
<1> HIDE DEF item
<1>12. /\ items \in Snapshot /\ items[e] = item
       /\ \A f \in Entries \ {e} : items[f] = old[f]
  BY <1>4, <1>8, <1>11 DEF Snapshot
<1> HIDE DEF unread
<1>13. /\ j \in Job /\ j.items = items /\ j.row = job[c].row /\ j.unread = unread
       /\ j.entry = job[c].entry /\ j.seen = job[c].seen /\ j.revises = job[c].revises
  BY <1>4, <1>12 DEF Job
<1> HIDE DEF j
<1>14. pc'[c] = "commit" /\ job'[c] = j /\ CallTypes'
  BY <1>1, <1>2, <1>9, <1>13 DEF CallTypes
<1>15. HasEntry(c)'
  BY <1>1, <1>2, <1>13, <1>14 DEF HasEntry, tables
<1>16. PublishesNext(c)'
  BY <1>1, <1>13, <1>14 DEF PublishesNext
<1>17. Numbered(c)'
  BY <1>1, <1>2, <1>13, <1>14 DEF Numbered, tables
<1>18. ASSUME NEW f \in Entries
       PROVE  /\ Whole(items[f])
              /\ \A row, visible : Lists(old[f], row, visible) => Lists(items[f], row, visible)
  <2>1. CASE f = e
    BY <1>4, <1>5, <1>10, <1>11, <1>12, <2>1 DEF Whole, Lists
  <2>2. CASE f # e
    BY <1>1, <1>12, <2>2 DEF ItemsFresh
  <2> QED
    BY <2>1, <2>2
<1>19. ASSUME NEW t \in unread PROVE Readable(t, items)
  <2>1. t \in job[c].unread /\ t[1] \in Entries /\ old[t[1]] # None /\ t[2] \in DOMAIN old[t[1]].audience
    BY <1>1, <1>4 DEF ItemsFresh, Readable, unread
  <2> QED
    BY <1>10, <1>11, <1>12, <2>1 DEF Readable
<1>20. Gathered(c) => Gathered(c)'
  <2> SUFFICES ASSUME Gathered(c) PROVE Gathered(c)'
    OBVIOUS
  <2>1. \A f \in Entries \ {job[c].entry} : Lists(items[f], entry[f], shown[f])
    BY <1>18 DEF Gathered
  <2>2. ASSUME NEW f \in Entries, items[f] # None, NEW m \in DOMAIN items[f].audience
        PROVE  <<f, m>> \in unread \/ CapturedSince(items[f], m)
    <3>1. CASE f = e /\ m = n
      <4>1. items[f].definition = old[e].definition /\ items[f].audience[m] = Captured(segment[s])
        BY <1>10, <1>11, <1>12, <3>1 DEF captured
      <4> QED
        BY <1>7, <3>1, <4>1 DEF CapturedSince
    <3>2. CASE ~(f = e /\ m = n)
      <4>1. /\ old[f] # None /\ m \in DOMAIN old[f].audience
            /\ items[f].definition = old[f].definition /\ items[f].audience[m] = old[f].audience[m]
        BY <1>4, <1>10, <1>11, <1>12, <2>2, <3>2
      <4>2. <<f, m>> \in job[c].unread \/ CapturedSince(old[f], m)
        BY <4>1 DEF Gathered
      <4>3. <<f, m>> # r
        BY <1>4, <3>2
      <4> QED
        BY <4>1, <4>2, <4>3 DEF CapturedSince, unread
    <3> QED
      BY <3>1, <3>2
  <2> QED
    BY <1>2, <1>13, <1>14, <2>1, <2>2 DEF Gathered, CapturedSince, tables, observers
<1>21. ItemsFresh(c)'
  <2>1. IsNext(c)' => IsNext(c)
    BY <1>2, <1>13, <1>14 DEF IsNext, tables
  <2>2. job[c].entry \in Entries
    BY <1>4 DEF Job
  <2> QED
    BY <1>1, <1>12, <1>13, <1>14, <1>18, <1>19, <1>20, <2>1, <2>2 DEF ItemsFresh
<1> QED
  BY <1>14, <1>15, <1>16, <1>17, <1>21 DEF JobGood, UpdatesQuietly

LEMMA CallsStep ==
  ASSUME JobInv, Next
  PROVE  CallTypes' /\ \A c \in Calls : JobGood(c)'
<1>1. ASSUME NEW c \in Calls, CallTypes', JobGood(c)',
             \E step, j : pc' = [pc EXCEPT ![c] = step] /\ job' = [job EXCEPT ![c] = j]
      PROVE  CallTypes' /\ \A d \in Calls : JobGood(d)'
  <2>1. ASSUME NEW d \in Calls \ {c} PROVE JobGood(d)'
    BY <1>1, OthersStay
  <2> QED
    BY <1>1, <2>1
<1>2. ASSUME NEW e \in Entries, CreateEntry(e)
      PROVE  CallTypes' /\ \A d \in Calls : JobGood(d)'
  <2>1. pc' = pc /\ job' = job
    BY <1>2 DEF CreateEntry, calls
  <2>2. CallTypes'
    BY <2>1 DEF JobInv, TypeInv, TypeOK, CallTypes
  <2> QED
    BY <2>1, <2>2, OthersKeep DEF JobGood
<1>6. ASSUME NEW s \in Segments, CreateSegment(s) \/ UpdateSegment(s) \/ ChangeSegmentStatus(s)
      PROVE  CallTypes' /\ \A d \in Calls : JobGood(d)'
  <2>1. pc' = pc /\ job' = job
    BY <1>6 DEF CreateSegment, UpdateSegment, ChangeSegmentStatus, WriteSegment, calls
  <2>2. CallTypes'
    BY <2>1 DEF JobInv, TypeInv, TypeOK, CallTypes
  <2> QED
    BY <2>1, <2>2, OthersKeep DEF JobGood
<1>3. ASSUME NEW c \in Calls, NEW e \in Entries,
             BeginUpdateDraft(c, e) \/ BeginPublish(c, e) \/ BeginRollback(c, e) \/ BeginChangeStatus(c, e)
      PROVE  CallTypes' /\ \A d \in Calls : JobGood(d)'
  <2>1. CallTypes' /\ JobGood(c)'
    BY <1>3, BeginUpdateGood, BeginPublishGood, BeginRollbackGood, BeginStatusGood
  <2>2. \E step, j : pc' = [pc EXCEPT ![c] = step] /\ job' = [job EXCEPT ![c] = j]
    BY <1>3 DEF BeginUpdateDraft, BeginPublish, BeginRollback, BeginChangeStatus, Begin, Goto
  <2> QED
    BY <1>1, <2>1, <2>2
<1>4. ASSUME NEW c \in Calls, CommitUpdate(c) \/ CommitSnapshot(c) \/ Interrupt(c)
      PROVE  CallTypes' /\ \A d \in Calls : JobGood(d)'
  <2>1. Return(c)
    BY <1>4 DEF CommitUpdate, CommitSnapshot, Interrupt
  <2>2. CallTypes' /\ JobGood(c)'
    BY <2>1, ReturnGood
  <2>3. \E step, j : pc' = [pc EXCEPT ![c] = step] /\ job' = [job EXCEPT ![c] = j]
    BY <2>1 DEF Return, Goto
  <2> QED
    BY <1>1, <2>2, <2>3
<1>5. ASSUME NEW c \in Calls, ValidateRule(c) \/ ReadLatest(c) \/ ListPublished(c) \/ CaptureRule(c)
      PROVE  CallTypes' /\ \A d \in Calls : JobGood(d)'
  <2>1. CallTypes' /\ JobGood(c)'
    BY <1>5, ValidateGood, ReadLatestGood, ListPublishedGood, CaptureGood
  <2>2. \E step, j : pc' = [pc EXCEPT ![c] = step] /\ job' = [job EXCEPT ![c] = j]
    <3>1. pc = [pc EXCEPT ![c] = pc[c]]
      BY DEF JobInv, TypeInv, TypeOK
    <3>2. CASE ValidateRule(c)
      BY <3>1, <3>2 DEF ValidateRule, Return, Goto
    <3>3. CASE ReadLatest(c) \/ ListPublished(c)
      BY <3>3 DEF ReadLatest, ListPublished, Goto
    <3>4. CASE CaptureRule(c)
      <4>1. pc' = pc /\ job \in [Calls -> Job \cup {None}]
        BY <3>4 DEF CaptureRule, JobInv, TypeInv, TypeOK
      <4>2. PICK r \in job[c].unread :
              job' = [job EXCEPT ![c].items = Capture(@, r), ![c].unread = @ \ {r}]
        BY <3>4 DEF CaptureRule
      <4> DEFINE j == [job[c] EXCEPT !.items = Capture(job[c].items, r), !.unread = job[c].unread \ {r}]
      <4>3. job' = [job EXCEPT ![c] = j]
        BY <4>1, <4>2
      <4> HIDE DEF j
      <4> QED
        BY <3>1, <4>1, <4>3
    <3> QED
      BY <1>5, <3>2, <3>3, <3>4
  <2> QED
    BY <1>1, <2>1, <2>2
<1> QED
  BY <1>2, <1>3, <1>4, <1>5, <1>6 DEF Next

LEMMA CommitFacts ==
  ASSUME JobInv, NEW c \in Calls, SnapshotWrite(c)
  PROVE  /\ job[c].entry \in Entries /\ job[c].row \in EntryRow /\ job[c].items \in Snapshot
         /\ job[c].row.published \in Definitions
         /\ job[c].row.snapshot = Len(snapshots) + 1
         /\ job[c].revises \in BOOLEAN
         /\ entry[job[c].entry] # None
         /\ HasEntry(c) /\ PublishesNext(c) /\ ItemsFresh(c) /\ Gathered(c)
<1>1. HasEntry(c) /\ PublishesNext(c) /\ ItemsFresh(c)
  BY DEF JobInv, TypeInv, JobsHaveEntries, Busy, JobsChangeOneThing, ItemsAreCurrent, SnapshotWrite
<1>2. job[c].entry \in Entries /\ job[c].row \in EntryRow /\ job[c].revises \in BOOLEAN /\ entry[job[c].entry] # None
  BY <1>1 DEF HasEntry, Job
<1>3. /\ job[c].items \in Snapshot /\ job[c].row.snapshot = Len(snapshots) + 1
      /\ job[c].row.published # None /\ Gathered(c)
  BY <1>1 DEF SnapshotWrite, ItemsFresh, PublishesNext, IsNext
<1>4. job[c].row.published \in Definitions
  BY <1>2, <1>3 DEF EntryRow
<1> QED
  BY <1>1, <1>2, <1>3, <1>4

(* By the commit every rule of every item has been read.                   *)
LEMMA CommitCaptured ==
  ASSUME JobInv, NEW c \in Calls, SnapshotWrite(c),
         NEW e \in Entries, NEW item, item = job[c].items[e], item # None
  PROVE  /\ item \in Item /\ DOMAIN item.audience = DOMAIN Rules[item.definition]
         /\ \A n \in DOMAIN item.audience :
              /\ CapturedSince(item, n)
              /\ item.audience[n] \in Nat
              /\ Rules[item.definition][n] \in Segments
<1>1. /\ job[c].items \in Snapshot /\ ItemsFresh(c) /\ Gathered(c)
      /\ pc[c] = "commit" /\ job[c].unread = {}
  BY CommitFacts DEF SnapshotWrite
<1>2. item \in Item /\ DOMAIN item.audience = DOMAIN Rules[item.definition]
  BY <1>1 DEF Snapshot, ItemsFresh, Whole
<1>3. item.definition \in Definitions /\ item.audience \in Seq(Nat)
  BY <1>2 DEF Item, Audience
<1>4. ASSUME NEW n \in DOMAIN item.audience
      PROVE  /\ item.audience[n] \in Nat
             /\ Rules[item.definition][n] \in Segments
  <2>1. item.audience[n] \in Nat
    BY <1>3
  <2> QED
    BY <1>2, <1>3, <2>1, RuleSegments
<1>5. ASSUME NEW n \in DOMAIN item.audience PROVE CapturedSince(item, n)
  BY <1>1 DEF Gathered
<1> QED
  BY <1>2, <1>4, <1>5

(* The segments and the observers after a step.                            *)
ObserverTypes ==
  /\ segment \in [Segments -> SegmentRow]
  /\ since \in [Segments -> SUBSET SegmentRow]
  /\ shown \in [Entries -> SUBSET Visibility]

LEMMA ObserversStep ==
  ASSUME JobInv, Next
  PROVE  ObserverTypes' /\ SegmentsSeen' /\ VisibilitySeen'
<1>0. /\ ObserverTypes /\ SegmentsSeen /\ VisibilitySeen
      /\ entry \in [Entries -> EntryRow \cup {None}]
  BY DEF JobInv, TypeInv, TypeOK, ObserverTypes
<1>1. ASSUME NEW e \in Entries, NEW row \in EntryRow, QuietWrite(e, row)
      PROVE  ObserverTypes' /\ SegmentsSeen' /\ VisibilitySeen'
  <2>1. /\ entry' = [entry EXCEPT ![e] = row] /\ shown' = [shown EXCEPT ![e] = @ \cup {row.visibility}]
        /\ UNCHANGED <<segment, since>>
        /\ row # None /\ row.visibility \in Visibility
    BY <1>1, NoneIsNothing DEF QuietWrite, EntryRow
  <2>2. ObserverTypes' /\ SegmentsSeen'
    BY <1>0, <2>1 DEF ObserverTypes, SegmentsSeen
  <2>3. VisibilitySeen'
    BY <1>0, <2>1 DEF ObserverTypes, VisibilitySeen
  <2> QED
    BY <2>2, <2>3
<1>2. ASSUME NEW s \in Segments, NEW row \in SegmentRow, SegmentWrite(s, row)
      PROVE  ObserverTypes' /\ SegmentsSeen' /\ VisibilitySeen'
  <2>1. /\ segment' = [segment EXCEPT ![s] = row] /\ since' = [since EXCEPT ![s] = @ \cup {row}]
        /\ entry' = entry /\ shown' = shown
        /\ row.status # "Absent" /\ row.version = segment[s].version + 1
    BY <1>2 DEF SegmentWrite, tables
  <2>2. ObserverTypes' /\ VisibilitySeen'
    BY <1>0, <2>1 DEF ObserverTypes, VisibilitySeen
  <2>3. ASSUME NEW t \in Segments
        PROVE  /\ segment'[t].status = "Absent" => segment'[t].version = 0
               /\ segment'[t] \in since'[t]
               /\ \A r \in since'[t] : r.version <= segment'[t].version
    <3>1. /\ segment[t].status = "Absent" => segment[t].version = 0
          /\ segment[t] \in since[t]
          /\ \A r \in since[t] : r.version <= segment[t].version
          /\ segment[t] \in SegmentRow /\ since[t] \subseteq SegmentRow
      BY <1>0 DEF SegmentsSeen, ObserverTypes
    <3>2. CASE t = s
      <4>1. segment'[t] = row /\ since'[t] = since[t] \cup {row}
        BY <1>0, <2>1, <3>2 DEF ObserverTypes
      <4>2. \A r \in since[t] : r.version \in Nat /\ r.version <= row.version
        BY <2>1, <3>1, <3>2 DEF SegmentRow
      <4> QED
        BY <2>1, <4>1, <4>2 DEF SegmentRow
    <3>3. CASE t # s
      BY <1>0, <2>1, <3>1, <3>3 DEF ObserverTypes
    <3> QED
      BY <3>2, <3>3
  <2> QED
    BY <2>2, <2>3 DEF SegmentsSeen
<1>3. ASSUME NEW c \in Calls, SnapshotWrite(c)
      PROVE  ObserverTypes' /\ SegmentsSeen' /\ VisibilitySeen'
  <2> DEFINE e == job[c].entry
             row == job[c].row
  <2>1. e \in Entries /\ row \in EntryRow /\ entry[e] # None
    BY <1>3, CommitFacts
  <2>2. /\ entry' = [entry EXCEPT ![e] = row] /\ UNCHANGED segment
        /\ since' = [s \in Segments |-> {segment[s]}]
        /\ shown' = [f \in Entries |-> IF entry[f] = None THEN {} ELSE {entry'[f].visibility}]
    BY <1>3 DEF SnapshotWrite
  <2> HIDE DEF e, row
  <2>3. ASSUME NEW f \in Entries
        PROVE  /\ entry'[f] = None <=> entry[f] = None
               /\ entry[f] # None => entry'[f] \in EntryRow
    BY <1>0, <2>1, <2>2, NoneIsNothing
  <2>4. ASSUME NEW f \in Entries
        PROVE  /\ shown'[f] \subseteq Visibility
               /\ IF entry'[f] = None THEN shown'[f] = {} ELSE entry'[f].visibility \in shown'[f]
    <3>1. CASE entry[f] = None
      BY <2>2, <2>3, <3>1
    <3>2. CASE entry[f] # None
      <4>1. PICK new \in EntryRow : new = entry'[f]
        BY <2>3, <3>2
      <4>2. new.visibility \in Visibility
        BY DEF EntryRow
      <4>3. shown'[f] = {new.visibility}
        BY <2>2, <3>2, <4>1
      <4> QED
        BY <4>1, <4>2, <4>3, NoneIsNothing
    <3> QED
      BY <3>1, <3>2
  <2>5. shown' = [f \in Entries |-> shown'[f]]
    BY <2>2
  <2>7. shown' \in [Entries -> SUBSET Visibility]
    BY <2>4, <2>5
  <2>8. since' \in [Segments -> SUBSET SegmentRow]
    BY <1>0, <2>2 DEF ObserverTypes
  <2>9. ObserverTypes' /\ VisibilitySeen'
    BY <1>0, <2>2, <2>4, <2>7, <2>8 DEF ObserverTypes, VisibilitySeen
  <2>6. SegmentsSeen'
    BY <1>0, <2>2 DEF SegmentsSeen, ObserverTypes, SegmentRow
  <2> QED
    BY <2>6, <2>9
<1>4. CASE UNCHANGED <<tables, segment, observers>>
  BY <1>0, <1>4 DEF tables, observers, ObserverTypes, SegmentsSeen, VisibilitySeen
<1> QED
  BY <1>1, <1>2, <1>3, <1>4, TablesStep DEF JobInv

LEMMA TablesTypes ==
  ASSUME JobInv, Next
  PROVE  /\ entry' \in [Entries -> EntryRow \cup {None}]
         /\ revisions' \subseteq Revision
         /\ snapshots' \in Seq(Snapshot)
         /\ events' \in Seq(Event)
<1>0. /\ entry \in [Entries -> EntryRow \cup {None}]
      /\ revisions \subseteq Revision
      /\ snapshots \in Seq(Snapshot)
      /\ events \in Seq(Event)
  BY DEF JobInv, TypeInv, TypeOK
<1>1. CASE \E e \in Entries, row \in EntryRow : QuietWrite(e, row)
  BY <1>0, <1>1 DEF QuietWrite
<1>2. ASSUME NEW c \in Calls, SnapshotWrite(c)
      PROVE  /\ entry' \in [Entries -> EntryRow \cup {None}]
             /\ revisions' \subseteq Revision
             /\ snapshots' \in Seq(Snapshot)
             /\ events' \in Seq(Event)
  <2> DEFINE e == job[c].entry
             row == job[c].row
  <2>1. e \in Entries /\ row \in EntryRow /\ job[c].items \in Snapshot /\ row.published \in Definitions
    BY <1>2, CommitFacts
  <2>2. row.revision \in Nat /\ row.snapshot \in Nat
    BY <2>1 DEF EntryRow
  <2>3. [entry |-> e, number |-> row.revision, definition |-> row.published, snapshot |-> row.snapshot]
          \in Revision
    BY <2>1, <2>2 DEF Revision
  <2>4. [entry |-> e, revision |-> row.revision, snapshot |-> row.snapshot] \in Event
    BY <2>1, <2>2 DEF Event
  <2>5. /\ entry' = [entry EXCEPT ![e] = row]
        /\ revisions' = revisions \cup
             IF job[c].revises
             THEN {[entry |-> e, number |-> row.revision, definition |-> row.published,
                    snapshot |-> row.snapshot]}
             ELSE {}
        /\ snapshots' = Append(snapshots, job[c].items)
        /\ events' = Append(events, [entry |-> e, revision |-> row.revision, snapshot |-> row.snapshot])
    BY <1>2 DEF SnapshotWrite
  <2>6. revisions' \subseteq Revision
    BY <1>0, <2>3, <2>5
  <2> HIDE DEF e, row
  <2> QED
    BY <1>0, <2>1, <2>4, <2>5, <2>6
<1>3. CASE \/ \E s \in Segments, row \in SegmentRow : SegmentWrite(s, row)
           \/ UNCHANGED <<tables, segment, observers>>
  BY <1>0, <1>3 DEF tables, SegmentWrite
<1> QED
  BY <1>1, <1>2, <1>3, TablesStep DEF JobInv

LEMMA JobInvInit == Init => JobInv
<1> SUFFICES ASSUME Init PROVE JobInv
  OBVIOUS
<1>1. TypeOK
  BY DEF Init, TypeOK, Step, SegmentRow
<1>2. \A c \in Calls : pc[c] = "idle"
  BY DEF Init
<1>3. SegmentsSeen /\ VisibilitySeen
  BY DEF Init, SegmentsSeen, VisibilitySeen
<1> QED
  BY <1>1, <1>2, <1>3 DEF JobInv, TypeInv, JobsHaveEntries, Busy, JobsChangeOneThing, UpdatesQuietly,
     PublishesNext, ItemsAreCurrent, Numbered, ItemsFresh

LEMMA JobInvStep == JobInv /\ [Next]_vars => JobInv'
<1>1. ASSUME JobInv, Next PROVE JobInv'
  <2>1. TypeOK'
    BY <1>1, TablesTypes, ObserversStep, CallsStep DEF TypeOK, CallTypes, ObserverTypes
  <2>2. \A c \in Calls : JobGood(c)'
    BY <1>1, CallsStep
  <2>3. SegmentsSeen' /\ VisibilitySeen'
    BY <1>1, ObserversStep
  <2> QED
    BY <2>1, <2>2, <2>3 DEF JobInv, TypeInv, JobsHaveEntries, JobsChangeOneThing, ItemsAreCurrent, JobGood
<1>2. ASSUME JobInv, UNCHANGED vars PROVE JobInv'
  <2>1. TypeInv'
    BY <1>2 DEF vars, tables, calls, observers, JobInv, TypeInv, TypeOK, JobsHaveEntries, Busy, HasEntry,
       SegmentsSeen, VisibilitySeen
  <2>2. JobsChangeOneThing'
    BY <1>2 DEF vars, tables, calls, JobInv, JobsChangeOneThing, UpdatesQuietly, PublishesNext
  <2>3. ItemsAreCurrent'
    BY <1>2 DEF vars, tables, calls, observers, JobInv, ItemsAreCurrent, Numbered, ItemsFresh, IsNext,
       Gathered, CapturedSince
  <2> QED
    BY <2>1, <2>2, <2>3 DEF JobInv
<1> QED
  BY <1>1, <1>2

(* Rows, revisions, snapshots and calls keep their types, and what a call  *)
(* read stays its entry's row until the entry's version moves.             *)
THEOREM TypeCorrect == Spec => []TypeOK
<1>1. JobInv => TypeOK
  BY DEF JobInv, TypeInv
<1> QED
  BY <1>1, JobInvInit, JobInvStep, PTL DEF Spec

-----------------------------------------------------------------------------
(* What a write does to what clients are served.                           *)

(* RevisionsAreConsecutive, of one entry and its row.                      *)
Consecutive(own, row) ==
  /\ {r.number : r \in own} = 1..row.revision
  /\ \A r, s \in own : r.number = s.number => r = s
  /\ \A r \in own : r.number = row.revision => r.definition = row.published

Own(e) == {r \in revisions : r.entry = e}

LEMMA QuietKeeps ==
  ASSUME IInv, NEW e \in Entries, NEW row \in EntryRow, QuietWrite(e, row)
  PROVE  TableInv'
<1>0. /\ TypeOK
      /\ entry \in [Entries -> EntryRow \cup {None}] /\ revisions \subseteq Revision
      /\ entry' = [entry EXCEPT ![e] = row]
      /\ UNCHANGED <<revisions, snapshots, events, since>>
      /\ row # None
  BY NoneIsNothing DEF IInv, JobInv, TypeInv, TypeOK, QuietWrite
<1>1. ASSUME NEW f \in Entries PROVE Content(ItemOf(entry'[f])) = Content(ItemOf(entry[f]))
  BY <1>0, QuietToClients
<1>2. ASSUME NEW f \in Entries
      PROVE  \/ entry'[f] = entry[f]
             \/ entry[f] = None /\ entry'[f].published = None /\ entry'[f].revision = 0
             \/ entry[f] # None /\ SamePublished(entry'[f], entry[f])
  BY <1>0 DEF QuietWrite
<1>3. RevisionsHaveEntries'
  BY <1>0 DEF RevisionsHaveEntries, IInv, TableInv
<1>4. OneEventEach' /\ SnapshotsAreOlder' /\ AudiencesNeverGoBack'
  BY <1>0 DEF OneEventEach, SnapshotsAreOlder, Whole, OlderThanSince, AudiencesNeverGoBack, IInv, TableInv
<1>5. SnapshotIsCurrent'
  BY <1>0, <1>1 DEF SnapshotIsCurrent, SnapshotAt, IInv, TableInv
<1>6. EntriesNameTheirSnapshot'
  BY <1>0, <1>1, <1>2 DEF EntriesNameTheirSnapshot, SamePublished, IInv, TableInv
<1>7. RevisionsAreConsecutive'
  <2> SUFFICES ASSUME NEW f \in Entries, entry'[f] # None
               PROVE  Consecutive(Own(f), entry'[f])
    BY <1>0 DEF RevisionsAreConsecutive, Consecutive, Own
  <2>1. CASE entry[f] # None
    <3>1. Consecutive(Own(f), entry[f])
      BY <2>1 DEF RevisionsAreConsecutive, Consecutive, Own, IInv, TableInv
    <3> QED
      BY <1>2, <2>1, <3>1 DEF Consecutive, SamePublished
  <2>2. CASE entry[f] = None
    <3>1. Own(f) = {}
      BY <2>2 DEF Own, RevisionsHaveEntries, IInv, TableInv
    <3>2. entry'[f].revision = 0
      BY <1>2, <2>2
    <3> QED
      BY <3>1, <3>2 DEF Consecutive
  <2> QED
    BY <2>1, <2>2
<1> QED
  BY <1>3, <1>4, <1>5, <1>6, <1>7 DEF TableInv

(* A rule captured for a snapshot is no newer than its segment is now.     *)
LEMMA OlderThanNow ==
  ASSUME TypeInv, SnapshotsAreOlder, NEW k \in DOMAIN snapshots, NEW e \in Entries,
         NEW item, item = snapshots[k][e], item # None
  PROVE  /\ item \in Item /\ DOMAIN item.audience = DOMAIN Rules[item.definition]
         /\ \A n \in DOMAIN item.audience :
              /\ item.audience[n] \in Nat
              /\ Rules[item.definition][n] \in Segments
              /\ item.audience[n] <= segment[Rules[item.definition][n]].version
<1>1. snapshots[k] \in Snapshot
  BY DEF TypeInv, TypeOK
<1>2. item \in Item /\ DOMAIN item.audience = DOMAIN Rules[item.definition] /\ OlderThanSince(item)
  BY <1>1 DEF Snapshot, SnapshotsAreOlder, Whole
<1>3. item.definition \in Definitions /\ item.audience \in Seq(Nat)
  BY <1>2 DEF Item, Audience
<1>4. ASSUME NEW n \in DOMAIN item.audience
      PROVE  /\ item.audience[n] \in Nat
             /\ Rules[item.definition][n] \in Segments
             /\ item.audience[n] <= segment[Rules[item.definition][n]].version
  <2>1. item.audience[n] \in Nat
    BY <1>3
  <2>2. Rules[item.definition][n] \in Segments
    BY <1>2, <1>3, RuleSegments
  <2>3. segment[Rules[item.definition][n]] \in since[Rules[item.definition][n]]
    BY <2>2 DEF TypeInv, SegmentsSeen
  <2> QED
    BY <1>2, <2>1, <2>2, <2>3 DEF OlderThanSince
<1> QED
  BY <1>2, <1>4

(* A new version of a segment is newer than all that was captured.         *)
LEMMA SegmentKeeps ==
  ASSUME IInv, NEW s \in Segments, NEW row \in SegmentRow, SegmentWrite(s, row)
  PROVE  TableInv'
<1>0. /\ TypeInv /\ TableInv /\ SnapshotsAreOlder
      /\ segment \in [Segments -> SegmentRow] /\ since \in [Segments -> SUBSET SegmentRow]
  BY DEF IInv, JobInv, TypeInv, TypeOK, TableInv
<1>1. /\ since' = [since EXCEPT ![s] = @ \cup {row}] /\ row.version = segment[s].version + 1
      /\ UNCHANGED <<entry, revisions, snapshots, events>>
  BY DEF SegmentWrite, tables
<1>2. ASSUME NEW k \in DOMAIN snapshots, NEW e \in Entries
      PROVE  Whole(snapshots[k][e]) /\ OlderThanSince(snapshots[k][e])'
  <2> DEFINE item == snapshots[k][e]
  <2>1. item' = item /\ Whole(item) /\ OlderThanSince(item)
    BY <1>0, <1>1 DEF SnapshotsAreOlder
  <2>2. ASSUME item # None, NEW n \in DOMAIN item.audience,
               NEW r \in since'[Rules[item.definition][n]]
        PROVE  item.audience[n] <= r.version
    <3> DEFINE t == Rules[item.definition][n]
    <3>1. item.audience[n] \in Nat /\ t \in Segments /\ item.audience[n] <= segment[t].version
      BY <1>0, <2>2, OlderThanNow
    <3>2. CASE r \in since[t]
      BY <2>1, <2>2, <3>2 DEF OlderThanSince
    <3>3. CASE t = s /\ r = row
      BY <1>0, <1>1, <3>1, <3>3 DEF SegmentRow
    <3> QED
      BY <1>0, <1>1, <2>2, <3>1, <3>2, <3>3
  <2> QED
    BY <1>1, <2>1, <2>2 DEF OlderThanSince
<1>3. SnapshotsAreOlder'
  BY <1>1, <1>2 DEF SnapshotsAreOlder, Whole, OlderThanSince
<1>4. RevisionsHaveEntries' /\ OneEventEach' /\ SnapshotIsCurrent' /\ EntriesNameTheirSnapshot'
  BY <1>0, <1>1 DEF TableInv, RevisionsHaveEntries, OneEventEach, SnapshotIsCurrent,
     EntriesNameTheirSnapshot, SnapshotAt
<1>5. RevisionsAreConsecutive' /\ AudiencesNeverGoBack'
  BY <1>0, <1>1 DEF TableInv, RevisionsAreConsecutive, AudiencesNeverGoBack
<1> QED
  BY <1>3, <1>4, <1>5 DEF TableInv

(* The last snapshot after a commit is the committed one, the others stay. *)
LEMMA Appended ==
  ASSUME NEW S, NEW s \in Seq(S), NEW x \in S
  PROVE  /\ Append(s, x) \in Seq(S)
         /\ Len(Append(s, x)) = Len(s) + 1
         /\ Append(s, x)[Len(s) + 1] = x
         /\ \A n \in DOMAIN s : Append(s, x)[n] = s[n]
         /\ DOMAIN s = 1..Len(s)
         /\ DOMAIN Append(s, x) = 1..(Len(s) + 1)
         /\ Len(s) \in Nat
OBVIOUS

LEMMA OneMoreRevision ==
  ASSUME NEW own \in SUBSET Revision, NEW row \in EntryRow, Consecutive(own, row),
         NEW new \in EntryRow, NEW r \in Revision,
         new.revision = row.revision + 1, r.number = new.revision, r.definition = new.published
  PROVE  Consecutive(own \cup {r}, new)
<1>0. row.revision \in Nat /\ \A t \in own : t.number \in 1..row.revision
  BY DEF Consecutive, EntryRow
<1>1. {t.number : t \in own \cup {r}} = {t.number : t \in own} \cup {r.number}
  OBVIOUS
<1>2. {t.number : t \in own \cup {r}} = 1..new.revision
  BY <1>0, <1>1 DEF Consecutive
<1>3. \A t \in own : t.number # r.number
  BY <1>0
<1> QED
  BY <1>2, <1>3 DEF Consecutive

(* What a call has captured is no newer than the segment is now.           *)
LEMMA CommitOlder ==
  ASSUME JobInv, NEW c \in Calls, SnapshotWrite(c),
         NEW e \in Entries, NEW item, item = job[c].items[e], item # None
  PROVE  /\ DOMAIN item.audience = DOMAIN Rules[item.definition]
         /\ \A n \in DOMAIN item.audience :
              /\ Rules[item.definition][n] \in Segments
              /\ item.audience[n] <= segment[Rules[item.definition][n]].version
<1>1. /\ DOMAIN item.audience = DOMAIN Rules[item.definition]
      /\ \A n \in DOMAIN item.audience :
           CapturedSince(item, n) /\ Rules[item.definition][n] \in Segments
  BY CommitCaptured
<1>2. ASSUME NEW n \in DOMAIN item.audience
      PROVE  item.audience[n] <= segment[Rules[item.definition][n]].version
  <2> DEFINE t == Rules[item.definition][n]
  <2>1. PICK row \in since[t] : item.audience[n] = Captured(row)
    BY <1>1 DEF CapturedSince
  <2>2. /\ row \in SegmentRow /\ segment[t] \in SegmentRow
        /\ row.version <= segment[t].version
    BY <1>1, <2>1 DEF JobInv, TypeInv, TypeOK, SegmentsSeen
  <2> QED
    BY <2>1, <2>2 DEF Captured, SegmentRow
<1> QED
  BY <1>1, <1>2

LEMMA SnapshotKeeps ==
  ASSUME IInv, NEW c \in Calls, SnapshotWrite(c)
  PROVE  TableInv'
<1> DEFINE e == job[c].entry
           row == job[c].row
           n == Len(snapshots) + 1
           new == [entry |-> e, number |-> row.revision, definition |-> row.published,
                   snapshot |-> row.snapshot]
           event == [entry |-> e, revision |-> row.revision, snapshot |-> row.snapshot]
<1>0. /\ TypeOK /\ TableInv /\ JobInv
      /\ entry \in [Entries -> EntryRow \cup {None}] /\ revisions \subseteq Revision
      /\ snapshots \in Seq(Snapshot) /\ events \in Seq(Event)
  BY DEF IInv, JobInv, TypeInv, TypeOK
<1>1. /\ e \in Entries /\ row \in EntryRow /\ job[c].items \in Snapshot
      /\ row.published \in Definitions /\ row.snapshot = n /\ entry[e] # None
      /\ HasEntry(c) /\ PublishesNext(c) /\ ItemsFresh(c) /\ Gathered(c)
  BY <1>0, CommitFacts
<1>2. /\ pc[c] = "commit" /\ IsNext(c) /\ job[c].seen = entry[e]
      /\ since' = [s \in Segments |-> {segment[s]}]
      /\ entry' = [entry EXCEPT ![e] = row]
      /\ revisions' = revisions \cup IF job[c].revises THEN {new} ELSE {}
      /\ snapshots' = Append(snapshots, job[c].items)
      /\ events' = Append(events, event)
  BY DEF SnapshotWrite
<1>3. row # None /\ row.revision \in Nat /\ row.published # None
  BY <1>1, NoneIsNothing DEF EntryRow
<1>4. /\ new \in Revision /\ new.entry = e /\ new.number = row.revision /\ new.definition = row.published
      /\ event \in Event /\ event.entry = e
  BY <1>1, <1>3 DEF Revision, Event, EntryRow
<1>5. /\ Len(snapshots') = n /\ snapshots'[n] = job[c].items
      /\ \A k \in DOMAIN snapshots : snapshots'[k] = snapshots[k]
      /\ DOMAIN snapshots = 1..Len(snapshots) /\ DOMAIN snapshots' = 1..n /\ Len(snapshots) \in Nat
  BY <1>0, <1>1, <1>2, Appended
<1>6. /\ Len(events') = n /\ events'[n] = event
      /\ \A k \in DOMAIN snapshots : events'[k] = events[k]
  <2>1. Len(events) = Len(snapshots)
    BY <1>0 DEF TableInv, OneEventEach
  <2> HIDE DEF event
  <2> QED
    BY <2>1, <1>0, <1>2, <1>4, <1>5, Appended
<1> HIDE DEF event, new
<1>7. \A f \in Entries : entry'[f] = IF f = e THEN row ELSE entry[f]
  BY <1>0, <1>1, <1>2
<1>8. ASSUME NEW f \in Entries PROVE Content(job[c].items[f]) = Content(ItemOf(entry'[f]))
  <2>1. job[c].items[f] \in Item \cup {None} /\ entry'[f] \in EntryRow \cup {None}
    BY <1>0, <1>1, <1>7 DEF Snapshot
  <2>2. \E visible : Lists(job[c].items[f], entry'[f], visible)
    BY <1>1, <1>2, <1>7 DEF ItemsFresh, Gathered
  <2> QED
    BY <2>1, <2>2, ListsContent
<1> HIDE DEF e, row
<1>9. RevisionsHaveEntries'
  BY <1>0, <1>1, <1>2, <1>3, <1>4, <1>7 DEF RevisionsHaveEntries, TableInv, Revision
<1>10. OneEventEach'
  BY <1>5, <1>6 DEF OneEventEach
<1>11. SnapshotIsCurrent'
  <2> SUFFICES ASSUME NEW f \in Entries PROVE Content(snapshots'[n][f]) = Content(ItemOf(entry'[f]))
    BY <1>5 DEF SnapshotIsCurrent, SnapshotAt
  <2> QED
    BY <1>5, <1>7, <1>8
<1>12. EntriesNameTheirSnapshot'
  <2> SUFFICES ASSUME NEW f \in Entries, entry'[f] # None, entry'[f].published # None
               PROVE  /\ entry'[f].snapshot \in DOMAIN snapshots'
                      /\ Content(snapshots'[entry'[f].snapshot][f]) = Content(ItemOf(entry'[f]))
                      /\ events'[entry'[f].snapshot].entry = f
    BY DEF EntriesNameTheirSnapshot
  <2>1. CASE f = e
    <3>1. entry'[f] = row /\ entry'[f].snapshot = n
      BY <1>1, <1>7, <2>1
    <3>2. Content(snapshots'[n][f]) = Content(ItemOf(entry'[f]))
      BY <1>5, <1>8
    <3> QED
      BY <1>4, <1>5, <1>6, <2>1, <3>1, <3>2
  <2>2. CASE f # e
    <3>1. entry'[f] = entry[f]
      BY <1>7, <2>2
    <3>2. /\ entry[f].snapshot \in DOMAIN snapshots
          /\ Content(snapshots[entry[f].snapshot][f]) = Content(ItemOf(entry[f]))
          /\ events[entry[f].snapshot].entry = f
      BY <1>0, <3>1 DEF TableInv, EntriesNameTheirSnapshot
    <3> QED
      BY <1>5, <1>6, <3>1, <3>2
  <2> QED
    BY <2>1, <2>2
<1>13. RevisionsAreConsecutive'
  <2> SUFFICES ASSUME NEW f \in Entries, entry'[f] # None
               PROVE  Consecutive({r \in revisions' : r.entry = f}, entry'[f])
    BY DEF RevisionsAreConsecutive, Consecutive
  <2>1. entry[f] # None => Consecutive(Own(f), entry[f])
    BY <1>0 DEF TableInv, RevisionsAreConsecutive, Consecutive, Own
  <2>2. CASE f # e
    <3>1. {r \in revisions' : r.entry = f} = Own(f) /\ entry'[f] = entry[f]
      BY <1>2, <1>4, <1>7, <2>2 DEF Own
    <3> QED
      BY <2>1, <3>1
  <2>3. CASE f = e /\ job[c].revises
    <3>1. {r \in revisions' : r.entry = f} = Own(f) \cup {new}
      BY <1>2, <1>4, <2>3 DEF Own
    <3>2. entry'[f] = row /\ row.revision = entry[f].revision + 1
      BY <1>1, <1>2, <1>7, <2>3 DEF PublishesNext, row
    <3>3. Own(f) \in SUBSET Revision /\ entry[f] \in EntryRow
      BY <1>0, <1>1, <2>3 DEF Own
    <3> QED
      BY <1>1, <1>4, <2>1, <2>3, <3>1, <3>2, <3>3, OneMoreRevision
  <2>4. CASE f = e /\ ~job[c].revises
    <3>1. {r \in revisions' : r.entry = f} = Own(f)
      BY <1>2, <2>4 DEF Own
    <3>2. entry'[f] = row /\ row.revision = entry[f].revision /\ row.published = entry[f].published
      BY <1>1, <1>2, <1>7, <2>4 DEF PublishesNext, row
    <3> QED
      BY <1>1, <2>1, <2>4, <3>1, <3>2 DEF Consecutive
  <2> QED
    BY <2>2, <2>3, <2>4
<1>14. SnapshotsAreOlder'
  <2> SUFFICES ASSUME NEW k \in 1..n, NEW f \in Entries
               PROVE  Whole(snapshots'[k][f]) /\ OlderThanSince(snapshots[k][f])'
    BY <1>5 DEF SnapshotsAreOlder, Whole
  <2> DEFINE item == snapshots'[k][f]
  <2>1. /\ item # None => DOMAIN item.audience = DOMAIN Rules[item.definition]
        /\ item # None =>
             \A m \in DOMAIN item.audience :
               /\ Rules[item.definition][m] \in Segments
               /\ item.audience[m] <= segment[Rules[item.definition][m]].version
    <3>1. CASE k \in DOMAIN snapshots
      <4>1. item = snapshots[k][f]
        BY <1>5, <3>1
      <4> QED
        BY <1>0, <3>1, <4>1, OlderThanNow DEF JobInv, TableInv
    <3>2. CASE k = n
      <4>1. item = job[c].items[f]
        BY <1>5, <3>2
      <4> QED
        BY <1>0, <4>1, CommitOlder
    <3> QED
      BY <1>5, <3>1, <3>2
  <2>2. ASSUME item # None, NEW m \in DOMAIN item.audience, NEW r \in since'[Rules[item.definition][m]]
        PROVE  item.audience[m] <= r.version
    <3>1. /\ Rules[item.definition][m] \in Segments
          /\ item.audience[m] <= segment[Rules[item.definition][m]].version
      BY <2>1, <2>2
    <3>2. r = segment[Rules[item.definition][m]]
      BY <1>2, <2>2, <3>1
    <3> QED
      BY <3>1, <3>2
  <2> QED
    BY <2>1, <2>2 DEF Whole, OlderThanSince
<1>15. AudiencesNeverGoBack'
  <2> SUFFICES ASSUME NEW k \in 1..(Len(snapshots') - 1), NEW f \in Entries, NEW g \in Entries,
                      snapshots'[k][f] # None, snapshots'[Len(snapshots')][g] # None,
                      NEW i \in DOMAIN snapshots'[k][f].audience,
                      NEW m \in DOMAIN snapshots'[Len(snapshots')][g].audience,
                      Rules[snapshots'[k][f].definition][i]
                        = Rules[snapshots'[Len(snapshots')][g].definition][m],
                      snapshots'[Len(snapshots')][g].audience[m] > 0
               PROVE  snapshots'[k][f].audience[i] <= snapshots'[Len(snapshots')][g].audience[m]
    BY DEF AudiencesNeverGoBack
  <2> DEFINE old == snapshots'[k][f]
             item == snapshots'[Len(snapshots')][g]
  <2>0. /\ k \in DOMAIN snapshots /\ old = snapshots[k][f]
        /\ item = job[c].items[g]
    BY <1>5
  <2> HIDE DEF old, item
  <2>5. /\ old # None /\ item # None
        /\ i \in DOMAIN old.audience /\ m \in DOMAIN item.audience
        /\ Rules[old.definition][i] = Rules[item.definition][m]
        /\ item.audience[m] > 0
    BY DEF old, item
  <2>1. OlderThanSince(old)
    BY <1>0, <2>0 DEF TableInv, SnapshotsAreOlder
  <2>2. CapturedSince(item, m)
    BY <1>0, <2>0, <2>5, CommitCaptured
  <2>3. PICK r \in since[Rules[item.definition][m]] : item.audience[m] = Captured(r)
    BY <2>2 DEF CapturedSince
  <2>4. item.audience[m] = r.version
    BY <2>3, <2>5 DEF Captured
  <2>6. old.audience[i] <= item.audience[m]
    BY <2>1, <2>3, <2>4, <2>5 DEF OlderThanSince
  <2> QED
    BY <2>6 DEF old, item
<1> QED
  BY <1>9, <1>10, <1>11, <1>12, <1>13, <1>14, <1>15 DEF TableInv

LEMMA SameTables ==
  ASSUME TableInv, UNCHANGED <<tables, observers>>
  PROVE  TableInv'
<1>1. RevisionsHaveEntries' /\ OneEventEach' /\ SnapshotIsCurrent' /\ EntriesNameTheirSnapshot'
  BY DEF tables, TableInv, RevisionsHaveEntries, OneEventEach, SnapshotIsCurrent,
     EntriesNameTheirSnapshot, SnapshotAt
<1>2. RevisionsAreConsecutive' /\ AudiencesNeverGoBack'
  BY DEF tables, TableInv, RevisionsAreConsecutive, AudiencesNeverGoBack
<1>3. SnapshotsAreOlder'
  BY DEF tables, observers, TableInv, SnapshotsAreOlder, Whole, OlderThanSince
<1> QED
  BY <1>1, <1>2, <1>3 DEF TableInv

LEMMA IInvInit == Init => IInv
<1> SUFFICES ASSUME Init PROVE TableInv
  BY JobInvInit DEF IInv
<1>1. revisions = {} /\ snapshots = <<>> /\ events = <<>> /\ \A e \in Entries : entry[e] = None
  BY DEF Init
<1>2. SnapshotIsCurrent
  BY <1>1 DEF SnapshotIsCurrent, SnapshotAt, ItemOf, Publishes, Content
<1> QED
  BY <1>1, <1>2 DEF TableInv, RevisionsHaveEntries, OneEventEach, EntriesNameTheirSnapshot,
     RevisionsAreConsecutive, SnapshotsAreOlder, AudiencesNeverGoBack

LEMMA IInvStep == IInv /\ [Next]_vars => IInv'
<1>1. ASSUME IInv, Next PROVE TableInv'
  <2>1. JobInv /\ TableInv
    BY <1>1 DEF IInv
  <2> QED
    BY <1>1, <2>1, TablesStep, QuietKeeps, SegmentKeeps, SnapshotKeeps, SameTables DEF JobInv
<1>2. ASSUME IInv, UNCHANGED vars PROVE TableInv'
  BY <1>2, SameTables DEF IInv, vars
<1> QED
  BY <1>1, <1>2, JobInvStep DEF IInv

(* The inductive invariant: what a call that may still commit knows of its *)
(* entry and has gathered for its snapshot is what is published now.       *)
THEOREM Invariance == Spec => []IInv
BY IInvInit, IInvStep, PTL DEF Spec

(* The newest snapshot holds exactly what the entries publish, however the *)
(* reads of concurrent publications interleave.                            *)
THEOREM CurrentSnapshot == Spec => []SnapshotIsCurrent
<1>1. IInv => SnapshotIsCurrent
  BY DEF IInv, TableInv
<1> QED
  BY <1>1, Invariance, PTL

(* A published entry points at the snapshot that made it what it is.       *)
THEOREM SnapshotsAreNamed == Spec => []EntriesNameTheirSnapshot
<1>1. IInv => EntriesNameTheirSnapshot
  BY DEF IInv, TableInv
<1> QED
  BY <1>1, Invariance, PTL

(* Publications and rollbacks that race number an entry's revisions one by *)
(* one, and the last revision is the published one.                        *)
THEOREM ConsecutiveRevisions == Spec => []RevisionsAreConsecutive
<1>1. IInv => RevisionsAreConsecutive
  BY DEF IInv, TableInv
<1> QED
  BY <1>1, Invariance, PTL

(* Of the segments their rules refer to, clients are never served an older *)
(* version than before, though each publication reads them one by one for  *)
(* all the entries, and others change them meanwhile.                      *)
THEOREM AudiencesMoveOn == Spec => []AudiencesNeverGoBack
<1>1. IInv => AudiencesNeverGoBack
  BY DEF IInv, TableInv
<1> QED
  BY <1>1, Invariance, PTL

-----------------------------------------------------------------------------
(* Refinement.                                                             *)

(* An entry that was never published has no revisions.                     *)
LEMMA UnpublishedIsNew ==
  ASSUME IInv, NEW e \in Entries, entry[e] # None, entry[e].published = None
  PROVE  entry[e].revision = 0
<1> DEFINE own == {r \in revisions : r.entry = e}
<1>1. entry[e] \in EntryRow /\ revisions \subseteq Revision
  BY DEF IInv, JobInv, TypeInv, TypeOK
<1>2. /\ {r.number : r \in own} = 1..entry[e].revision
      /\ \A r \in own : r.number = entry[e].revision => r.definition = entry[e].published
  BY DEF IInv, TableInv, RevisionsAreConsecutive
<1>3. entry[e].revision \in Nat
  BY <1>1 DEF EntryRow
<1>4. CASE entry[e].revision # 0
  <2>1. entry[e].revision \in {r.number : r \in own}
    BY <1>2, <1>3, <1>4
  <2>2. PICK r \in own : r.number = entry[e].revision
    BY <2>1
  <2>3. r.definition \in Definitions /\ r.definition = None
    BY <1>1, <1>2, <2>2 DEF Revision
  <2> QED
    BY <2>3, NoneIsNothing
<1> QED
  BY <1>4

(* What is released of an entry, as its row says.                          *)
LEMMA ReleasedOf ==
  ASSUME NEW row \in EntryRow \cup {None}
  PROVE  LET out == row = None \/ row.published = None IN
         /\ ~out => [definition |-> row.published, revision |-> row.revision] \in Release
         /\ ~out => [definition |-> row.published, revision |-> row.revision] # None
         /\ Publishes(row) <=> ~out /\ row.status # "Archived"
<1>1. row # None /\ row.published # None => row.published \in Definitions /\ row.revision \in Nat
  BY DEF EntryRow
<1>2. row # None => row.status \in {"Active", "Archived"}
  BY DEF EntryRow
<1> QED
  BY <1>1, <1>2, NoneIsNothing DEF Release, Publishes

LEMMA QuietIsVisibility ==
  ASSUME IInv, NEW e \in Entries, NEW row \in EntryRow, QuietWrite(e, row)
  PROVE  Feed!ChangeVisibility(e)
<1>1. /\ entry \in [Entries -> EntryRow \cup {None}]
      /\ entry' = [entry EXCEPT ![e] = row]
      /\ shown' = [shown EXCEPT ![e] = @ \cup {row.visibility}]
      /\ UNCHANGED <<snapshots, segment, since>>
      /\ row # None /\ row.visibility \in Visibility
  BY NoneIsNothing DEF IInv, JobInv, TypeInv, TypeOK, QuietWrite, EntryRow
<1>2. ASSUME NEW f \in Entries
      PROVE  /\ entry'[f] = IF f = e THEN row ELSE entry[f]
             /\ entry'[f] = None \/ entry'[f].published = None
                  <=> entry[f] = None \/ entry[f].published = None
             /\ ~(entry[f] = None \/ entry[f].published = None) =>
                  /\ entry'[f].published = entry[f].published
                  /\ entry'[f].revision = entry[f].revision
                  /\ entry'[f].status = entry[f].status
  BY <1>1 DEF QuietWrite, SamePublished
<1>3. Released' = Released
  BY <1>2 DEF Released
<1>4. Withdrawn' = Withdrawn
  BY <1>2 DEF Withdrawn
<1>5. VisibilityNow' = [VisibilityNow EXCEPT ![e] = row.visibility]
  BY <1>1, <1>2 DEF VisibilityNow
<1>6. SnapshotAt(Len(snapshots))' = SnapshotAt(Len(snapshots)) /\ Len(snapshots)' = Len(snapshots)
  BY <1>1 DEF SnapshotAt
<1> QED
  BY <1>1, <1>3, <1>4, <1>5, <1>6 DEF Feed!ChangeVisibility, Feed!releases

LEMMA SegmentIsChanged ==
  ASSUME IInv, NEW s \in Segments, NEW row \in SegmentRow, SegmentWrite(s, row)
  PROVE  Feed!ChangeSegment(s)
<1>1. /\ segment \in [Segments -> SegmentRow]
      /\ segment' = [segment EXCEPT ![s] = row]
      /\ since' = [since EXCEPT ![s] = @ \cup {row}]
      /\ UNCHANGED <<entry, snapshots, shown>>
      /\ row.status \in {"Active", "Archived"} /\ row.version = segment[s].version + 1
  BY DEF IInv, JobInv, TypeInv, TypeOK, SegmentWrite, tables
<1>2. row = [status |-> row.status, version |-> segment[s].version + 1]
  BY <1>1 DEF SegmentRow
<1>3. segment'[s] = row
  BY <1>1
<1>4. Released' = Released /\ Withdrawn' = Withdrawn /\ VisibilityNow' = VisibilityNow
  BY <1>1 DEF Released, Withdrawn, VisibilityNow
<1>5. SnapshotAt(Len(snapshots))' = SnapshotAt(Len(snapshots)) /\ Len(snapshots)' = Len(snapshots)
  BY <1>1 DEF SnapshotAt
<1>6. \E status \in {"Active", "Archived"} :
        segment' = [segment EXCEPT ![s] = [status |-> status, version |-> segment[s].version + 1]]
  BY <1>1, <1>2
<1> QED
  BY <1>1, <1>3, <1>4, <1>5, <1>6 DEF Feed!ChangeSegment, Feed!releases

(* A commit serves all the entries, as they are released by it.            *)
LEMMA CommitServes ==
  ASSUME IInv, NEW c \in Calls, SnapshotWrite(c)
  PROVE  Feed!Serve
<1> DEFINE e == job[c].entry
           row == job[c].row
           items == job[c].items
<1>0. /\ JobInv /\ VisibilitySeen /\ snapshots \in Seq(Snapshot)
      /\ entry \in [Entries -> EntryRow \cup {None}]
  BY DEF IInv, JobInv, TypeInv, TypeOK
<1>1. /\ e \in Entries /\ row \in EntryRow /\ items \in Snapshot /\ entry[e] # None
      /\ Lists(items[e], row, {row.visibility}) /\ row.visibility = entry[e].visibility
      /\ \A f \in Entries \ {e} : Lists(items[f], entry[f], shown[f])
  BY <1>0, CommitFacts DEF SnapshotWrite, PublishesNext, ItemsFresh, Gathered
<1>2. /\ entry' = [entry EXCEPT ![e] = row] /\ UNCHANGED segment
      /\ snapshots' = Append(snapshots, items)
      /\ since' = [s \in Segments |-> {segment[s]}]
      /\ shown' = [f \in Entries |-> IF entry[f] = None THEN {} ELSE {entry'[f].visibility}]
  BY DEF SnapshotWrite
<1>3. ASSUME NEW f \in Entries, NEW item, item = items[f], item # None
      PROVE  /\ DOMAIN item.audience = DOMAIN Rules[item.definition]
             /\ \A n \in DOMAIN item.audience :
                  \E r \in since[Rules[item.definition][n]] : item.audience[n] = Captured(r)
  BY <1>0, <1>3, CommitCaptured DEF CapturedSince
<1>4. /\ Len(snapshots)' = Len(snapshots) + 1 /\ Len(snapshots) \in Nat
      /\ snapshots'[Len(snapshots) + 1] = items
  BY <1>0, <1>1, <1>2, Appended
<1> HIDE DEF items, row, e
<1>5. SnapshotAt(Len(snapshots))' = items
  BY <1>4 DEF SnapshotAt
<1>6. ASSUME NEW f \in Entries
      PROVE  /\ entry'[f] \in EntryRow \cup {None}
             /\ entry'[f] = None <=> entry[f] = None
             /\ entry[f] # None => entry'[f].visibility = entry[f].visibility
             /\ Lists(items[f], entry'[f], shown[f])
  <2>1. entry'[f] = IF f = e THEN row ELSE entry[f]
    BY <1>0, <1>1, <1>2
  <2>2. row # None
    BY <1>1, NoneIsNothing
  <2>3. Lists(items[e], row, shown[e])
    BY <1>0, <1>1 DEF VisibilitySeen, Lists
  <2> QED
    BY <1>0, <1>1, <2>1, <2>2, <2>3
<1>7. VisibilityNow' = VisibilityNow
  BY <1>6 DEF VisibilityNow
<1>8. shown' = [f \in Entries |-> IF VisibilityNow[f] = None THEN {} ELSE {VisibilityNow[f]}]
  <2>1. \A f \in Entries : entry[f] # None => entry[f].visibility # None
    BY <1>0, NoneIsNothing DEF EntryRow
  <2> QED
    BY <1>2, <1>6, <2>1 DEF VisibilityNow
<1>9. DOMAIN items = Entries
  BY <1>1 DEF Snapshot
<1>10. ASSUME NEW f \in Entries
       PROVE  IF Released'[f] = None \/ f \in Withdrawn'
              THEN items[f] = None
              ELSE /\ items[f].definition = Released'[f].definition
                   /\ items[f].revision = Released'[f].revision
                   /\ items[f].visibility \in shown[f]
                   /\ items[f] # None
  <2>1. PICK new : new = entry'[f]
    OBVIOUS
  <2>2. new \in EntryRow \cup {None} /\ Lists(items[f], new, shown[f])
    BY <1>6, <2>1
  <2>3. Released'[f] = IF new = None \/ new.published = None THEN None
                       ELSE [definition |-> new.published, revision |-> new.revision]
    BY <2>1 DEF Released
  <2>4. f \in Withdrawn' <=> new # None /\ new.published # None /\ new.status = "Archived"
    BY <2>1 DEF Withdrawn
  <2>5. Publishes(new) <=> ~(Released'[f] = None \/ f \in Withdrawn')
    BY <2>2, <2>3, <2>4, ReleasedOf
  <2>6. CASE Publishes(new)
    <3>1. Released'[f].definition = new.published /\ Released'[f].revision = new.revision
      BY <2>3, <2>6 DEF Publishes
    <3> QED
      BY <2>2, <2>5, <2>6, <3>1 DEF Lists
  <2>7. CASE ~Publishes(new)
    BY <2>2, <2>5, <2>7 DEF Lists
  <2> QED
    BY <2>6, <2>7
<1>11. ASSUME NEW f \in Entries
       PROVE  IF Released'[f] = None \/ f \in Withdrawn'
              THEN items[f] = None
              ELSE Feed!Serves(items[f], f)
  <2>1. CASE Released'[f] = None \/ f \in Withdrawn'
    BY <1>10, <2>1
  <2>2. CASE ~(Released'[f] = None \/ f \in Withdrawn')
    <3>1. PICK item : item = items[f]
      OBVIOUS
    <3>2. /\ item.definition = Released'[f].definition /\ item.revision = Released'[f].revision
          /\ item.visibility \in shown[f] /\ item # None
      BY <1>10, <2>2, <3>1
    <3>3. /\ DOMAIN item.audience = DOMAIN Rules[item.definition]
          /\ \A n \in DOMAIN item.audience :
               \E r \in since[Rules[item.definition][n]] : item.audience[n] = Captured(r)
      BY <1>3, <3>1, <3>2
    <3>4. Feed!Serves(item, f)
      BY <3>2, <3>3 DEF Feed!Serves, Feed!Captured, Captured
    <3> QED
      BY <2>2, <3>1, <3>4
  <2> QED
    BY <2>1, <2>2
<1> QED
  BY <1>2, <1>4, <1>5, <1>7, <1>8, <1>9, <1>11 DEF Feed!Serve

(* A commit releases, withdraws or returns the entry of its call.          *)
LEMMA CommitReleases ==
  ASSUME IInv, NEW c \in Calls, SnapshotWrite(c)
  PROVE  \E e \in Entries : Feed!Release(e) \/ Feed!Withdraw(e) \/ Feed!ReturnEntry(e)
<1> DEFINE e == job[c].entry
           row == job[c].row
           old == entry[e]
<1>0. JobInv /\ entry \in [Entries -> EntryRow \cup {None}]
  BY DEF IInv, JobInv, TypeInv, TypeOK
<1>1. /\ e \in Entries /\ row \in EntryRow /\ row.published \in Definitions /\ old # None
      /\ job[c].revises =>
           row.revision = old.revision + 1 /\ row.status = "Active" /\ old.status = "Active"
      /\ ~job[c].revises =>
           row.revision = old.revision /\ row.published = old.published /\ row.status # old.status
  BY <1>0, CommitFacts DEF SnapshotWrite, PublishesNext
<1>2. entry' = [entry EXCEPT ![e] = row]
  BY DEF SnapshotWrite
<1>3. Feed!Serve
  BY CommitServes
<1> HIDE DEF row, e
<1>4. /\ \A f \in Entries : entry'[f] = IF f = e THEN row ELSE entry[f]
      /\ old \in EntryRow /\ row # None /\ row.published # None
  BY <1>0, <1>1, <1>2, NoneIsNothing
<1>5. VisibilityNow[e] # None
  <2>1. old.visibility \in Visibility
    BY <1>4 DEF EntryRow
  <2> QED
    BY <1>1, <2>1, NoneIsNothing DEF VisibilityNow
<1>6. CASE job[c].revises
  <2> DEFINE new == [definition |-> row.published, revision |-> row.revision]
             last == IF Released[e] = None THEN 0 ELSE Released[e].revision
  <2>1. last = old.revision
    <3>1. CASE old.published = None
      BY <1>1, <3>1, UnpublishedIsNew DEF Released
    <3>2. CASE old.published # None
      <4>1. Released[e] = [definition |-> old.published, revision |-> old.revision]
        BY <1>1, <3>2 DEF Released
      <4>2. Released[e] # None
        BY <1>1, <1>4, <3>2, <4>1, ReleasedOf
      <4> QED
        BY <4>1, <4>2
    <3> QED
      BY <3>1, <3>2
  <2>2. new = [definition |-> row.published, revision |-> last + 1]
    BY <1>1, <1>6, <2>1
  <2>3. Released' = [Released EXCEPT ![e] = new]
    BY <1>1, <1>4 DEF Released
  <2>4. Withdrawn' = Withdrawn /\ e \notin Withdrawn
    BY <1>1, <1>4, <1>6 DEF Withdrawn
  <2>5. Feed!LastRevision(e) = last
    BY DEF Feed!LastRevision
  <2>6. \E d \in Definitions :
          Released' = [Released EXCEPT ![e] = [definition |-> d, revision |-> Feed!LastRevision(e) + 1]]
    BY <1>1, <2>2, <2>3, <2>5
  <2>7. Feed!Release(e)
    BY <1>3, <1>5, <2>4, <2>6 DEF Feed!Release
  <2> QED
    BY <1>1, <2>7
<1>7. CASE ~job[c].revises
  <2>1. Released' = Released
    BY <1>1, <1>4, <1>7 DEF Released
  <2>2. old.status \in {"Active", "Archived"} /\ row.status \in {"Active", "Archived"}
    BY <1>1, <1>4 DEF EntryRow
  <2>3. CASE old.status = "Active"
    <3>1. row.status = "Archived"
      BY <1>1, <1>7, <2>2, <2>3
    <3>2. Withdrawn' = Withdrawn \cup {e} /\ e \notin Withdrawn
      BY <1>1, <1>4, <2>3, <3>1 DEF Withdrawn
    <3>3. Released[e] # None
      BY <1>1, <1>4, <1>7, ReleasedOf DEF Released
    <3>4. Feed!Withdraw(e)
      BY <1>3, <2>1, <3>2, <3>3 DEF Feed!Withdraw
    <3> QED
      BY <1>1, <3>4
  <2>4. CASE old.status = "Archived"
    <3>1. row.status = "Active"
      BY <1>1, <1>7, <2>2, <2>4
    <3>2. Withdrawn' = Withdrawn \ {e} /\ e \in Withdrawn
      BY <1>1, <1>4, <1>7, <2>4, <3>1 DEF Withdrawn
    <3>3. Feed!ReturnEntry(e)
      BY <1>3, <2>1, <3>2 DEF Feed!ReturnEntry
    <3> QED
      BY <1>1, <3>3
  <2> QED
    BY <2>2, <2>3, <2>4
<1> QED
  BY <1>6, <1>7

LEMMA FeedStep == IInv /\ [Next]_vars => [Feed!Next]_(Feed!feedVars)
<1> SUFFICES ASSUME IInv, [Next]_vars PROVE [Feed!Next]_(Feed!feedVars)
  OBVIOUS
<1>1. ASSUME UNCHANGED <<tables, segment, observers>> PROVE UNCHANGED Feed!feedVars
  BY <1>1 DEF Feed!feedVars, Feed!releases, tables, observers, Released, Withdrawn, VisibilityNow, SnapshotAt
<1>2. CASE UNCHANGED vars
  BY <1>1, <1>2 DEF vars
<1>3. CASE Next
  <2>1. ASSUME NEW e \in Entries, NEW row \in EntryRow, QuietWrite(e, row) PROVE Feed!Next
    BY <2>1, QuietIsVisibility DEF Feed!Next
  <2>2. ASSUME NEW s \in Segments, NEW row \in SegmentRow, SegmentWrite(s, row) PROVE Feed!Next
    BY <2>2, SegmentIsChanged DEF Feed!Next
  <2>3. ASSUME NEW c \in Calls, SnapshotWrite(c) PROVE Feed!Next
    BY <2>3, CommitReleases DEF Feed!Next
  <2> QED
    BY <1>1, <1>3, <2>1, <2>2, <2>3, TablesStep DEF IInv, JobInv
<1> QED
  BY <1>2, <1>3

(* Racing publications look like one configuration that releases, withdraws*)
(* or returns one entry at a time, and serves all of them with segments and*)
(* visibilities of the time: ConfigPublication implements ConfigFeed.      *)
THEOREM RefinesFeed == Spec => ImplementsFeed
<1>1. Init => Feed!Init
  <2> SUFFICES ASSUME Init PROVE Feed!Init
    OBVIOUS
  <2>1. /\ \A e \in Entries : entry[e] = None
        /\ Len(snapshots) = 0
    BY DEF Init
  <2>2. Released = [e \in Entries |-> None] /\ Withdrawn = {} /\ VisibilityNow = [e \in Entries |-> None]
    BY <2>1 DEF Released, Withdrawn, VisibilityNow
  <2>3. SnapshotAt(Len(snapshots)) = [e \in Entries |-> None]
    BY <2>1 DEF SnapshotAt
  <2> QED
    BY <2>1, <2>2, <2>3 DEF Init, Feed!Init
<1> QED
  BY <1>1, FeedStep, Invariance, PTL DEF Spec, ImplementsFeed, Feed!Spec

-----------------------------------------------------------------------------
(* The client: the callers of one snapshot cache, and its refresh lock.    *)

Steps == {"idle", "wait", "locked", "request", "response"}

ClientTypeInv ==
  /\ version \in 0..MaxPublished
  /\ cache \in [Keys -> Cached \cup {Nothing}]
  /\ permits \in Nat
  /\ watched \in [Keys -> 0..MaxPublished \cup {Nothing}]
  /\ faults \in 0..MaxFaults
  /\ at \in [Callers -> Steps]
  /\ call \in [Callers -> Call \cup {Nothing}]
  /\ cached \in [Callers -> Cached \cup {Nothing}]
  /\ response \in [Callers -> 0..MaxPublished \cup {Nothing}]
  /\ answer \in [Callers -> Answer \cup {Nothing}]

(* Under the refresh lock.                                                 *)
Holds(c) == at[c] \in {"locked", "request", "response"}

(* One caller at a time holds the lock, whatever context it refreshes.     *)
LockInv ==
  /\ permits \in {0, 1}
  /\ \A c \in Callers : Holds(c) => permits = 0
  /\ \A c, d \in Callers : Holds(c) /\ Holds(d) => c = d

(* Nobody knows of a version that was not published.                       *)
VersionInv ==
  /\ \A k \in Keys : cache[k] # Nothing => cache[k].version <= version
  /\ \A c \in Callers :
       /\ call[c] # Nothing => call[c].since <= version
       /\ at[c] # "idle" => call[c] # Nothing

(* Between its second look and its answer a caller's entry is the cached   *)
(* one: it may age, but nobody replaces it.                                *)
SameEntry(c) ==
  /\ cached[c] = Nothing <=> cache[KeyOf[c]] = Nothing
  /\ cached[c] # Nothing => cached[c].version = cache[KeyOf[c]].version

HeldInv == \A c \in Callers : at[c] \in {"request", "response"} => SameEntry(c)

(* What the server sent is as new as the cache, and as the question.       *)
ResponseInv ==
  \A c \in Callers : at[c] = "response" =>
    /\ response[c] \in 0..MaxPublished
    /\ response[c] <= version
    /\ cache[KeyOf[c]] # Nothing => cache[KeyOf[c]].version <= response[c]
    /\ call[c].since <= response[c]

ClientIInv ==
  /\ ClientTypeInv /\ LockInv /\ VersionInv /\ HeldInv /\ ResponseInv
  /\ ListenersAreRight /\ ForcedAnswersAreCurrent

-----------------------------------------------------------------------------
(* How a call may end: it throws, it answers from the cache without being  *)
(* forced, it falls back, or it has what the server sent.                  *)
Fair(c, result) ==
  \/ result = Nothing
  \/ /\ result \in Answer
     /\ \/ ~call'[c].force
        \/ result.lkg
        \/ result.version >= call'[c].since

LEMMA InitIInv == ClientInit => ClientIInv
BY CallersAsk, ClientBounds
DEF ClientInit, ClientIInv, ClientTypeInv, LockInv, VersionInv, HeldInv, ResponseInv, Holds, Steps,
    ListenersAreRight, ForcedAnswersAreCurrent

(* A call that returns keeps the shape of the callers' variables.          *)
LEMMA Returns ==
  ASSUME ClientIInv, NEW c \in Callers, NEW result, ReturnAnswer(c, result), Fair(c, result),
         call' \in [Callers -> Call \cup {Nothing}],
         \A d \in Callers \ {c} : call'[d] = call[d]
  PROVE  /\ at' \in [Callers -> Steps] /\ at'[c] = "idle"
         /\ \A d \in Callers \ {c} : /\ at'[d] = at[d]
                                     /\ cached'[d] = cached[d]
                                     /\ response'[d] = response[d]
         /\ cached' \in [Callers -> Cached \cup {Nothing}]
         /\ response' \in [Callers -> 0..MaxPublished \cup {Nothing}]
         /\ answer' \in [Callers -> Answer \cup {Nothing}]
         /\ ForcedAnswersAreCurrent'
<1>1. /\ at' \in [Callers -> Steps] /\ at'[c] = "idle"
      /\ \A d \in Callers \ {c} : /\ at'[d] = at[d]
                                  /\ cached'[d] = cached[d]
                                  /\ response'[d] = response[d]
      /\ cached' \in [Callers -> Cached \cup {Nothing}]
      /\ response' \in [Callers -> 0..MaxPublished \cup {Nothing}]
      /\ answer' \in [Callers -> Answer \cup {Nothing}]
  BY DEF ClientIInv, ClientTypeInv, ReturnAnswer, MoveTo, Fair, Steps
<1>2. /\ answer'[c] = result
      /\ \A d \in Callers \ {c} : answer'[d] = answer[d]
  BY DEF ClientIInv, ClientTypeInv, ReturnAnswer
<1>3. ForcedAnswersAreCurrent'
  BY <1>1, <1>2 DEF ClientIInv, Fair, ForcedAnswersAreCurrent
<1>. QED  BY <1>1, <1>3

-----------------------------------------------------------------------------
(* The steps of the environment.                                           *)
LEMMA PublishStep == ClientIInv /\ Publish => ClientIInv'
<1> SUFFICES ASSUME ClientIInv, Publish PROVE ClientIInv'
  OBVIOUS
<1>1. ClientTypeInv' /\ LockInv' /\ HeldInv' /\ ListenersAreRight' /\ ForcedAnswersAreCurrent'
  BY ClientBounds
  DEF ClientIInv, ClientTypeInv, LockInv, HeldInv, SameEntry, Holds, ListenersAreRight,
      ForcedAnswersAreCurrent, Publish, callers
<1>2. VersionInv' /\ ResponseInv'
  BY ClientBounds
  DEF ClientIInv, ClientTypeInv, VersionInv, ResponseInv, Publish, callers, Cached, Call
<1>. QED  BY <1>1, <1>2 DEF ClientIInv

LEMMA AgeStep == ASSUME NEW k \in Keys, ClientIInv, Age(k) PROVE ClientIInv'
<1>1. /\ cache' \in [Keys -> Cached \cup {Nothing}]
      /\ \A j \in Keys : /\ cache'[j] = Nothing <=> cache[j] = Nothing
                         /\ cache[j] # Nothing => cache'[j].version = cache[j].version
  <2>1. cache[k] \in Cached /\ cache[k] # Nothing
    BY DEF ClientIInv, ClientTypeInv, Age
  <2>2. PICK a \in Ages : cache' = [cache EXCEPT ![k].age = a]
    BY DEF Age, Ages
  <2>3. /\ [cache[k] EXCEPT !.age = a] \in Cached
        /\ [cache[k] EXCEPT !.age = a].version = cache[k].version
    BY <2>1, <2>2 DEF Cached
  <2>4. [cache[k] EXCEPT !.age = a] # Nothing
    BY <2>3, NothingIsDistinct
  <2>. QED  BY <2>1, <2>2, <2>3, <2>4 DEF ClientIInv, ClientTypeInv
<1>2. ClientTypeInv' /\ LockInv' /\ ForcedAnswersAreCurrent'
  BY <1>1 DEF ClientIInv, ClientTypeInv, LockInv, Holds, ForcedAnswersAreCurrent, Age, callers
<1>3. VersionInv' /\ ListenersAreRight'
  BY <1>1 DEF ClientIInv, VersionInv, ListenersAreRight, Age, callers
<1>4. HeldInv'
  <2>. SUFFICES ASSUME NEW c \in Callers, at'[c] \in {"request", "response"}
                PROVE  SameEntry(c)'
    BY DEF HeldInv
  <2>1. KeyOf[c] \in Keys /\ SameEntry(c) /\ cached' = cached
    BY CallersAsk DEF ClientIInv, HeldInv, Age, callers
  <2>2. /\ cache'[KeyOf[c]] = Nothing <=> cache[KeyOf[c]] = Nothing
        /\ cache[KeyOf[c]] # Nothing => cache'[KeyOf[c]].version = cache[KeyOf[c]].version
    BY <1>1, <2>1
  <2>. QED  BY <2>1, <2>2 DEF SameEntry
<1>5. ResponseInv'
  <2>. SUFFICES ASSUME NEW c \in Callers, at'[c] = "response"
                PROVE  /\ response'[c] \in 0..MaxPublished
                       /\ response'[c] <= version'
                       /\ cache'[KeyOf[c]] # Nothing => cache'[KeyOf[c]].version <= response'[c]
                       /\ call'[c].since <= response'[c]
    BY DEF ResponseInv
  <2>1. KeyOf[c] \in Keys /\ at' = at /\ response' = response /\ version' = version /\ call' = call
    BY CallersAsk DEF Age, callers
  <2>2. /\ cache'[KeyOf[c]] = Nothing <=> cache[KeyOf[c]] = Nothing
        /\ cache[KeyOf[c]] # Nothing => cache'[KeyOf[c]].version = cache[KeyOf[c]].version
    BY <1>1, <2>1
  <2>3. /\ response[c] \in 0..MaxPublished
        /\ response[c] <= version
        /\ cache[KeyOf[c]] # Nothing => cache[KeyOf[c]].version <= response[c]
        /\ call[c].since <= response[c]
    BY <2>1 DEF ClientIInv, ResponseInv
  <2>. QED  BY <2>1, <2>2, <2>3
<1>. QED  BY <1>2, <1>3, <1>4, <1>5 DEF ClientIInv

-----------------------------------------------------------------------------
(* What the steps of one caller c, other than the one that fills the cache,*)
(* leave to show: the state keeps its shape, the lock is passed on or kept,*)
(* and what c itself holds is right.                                       *)
LEMMA CallerKeepsInv ==
  ASSUME ClientIInv, NEW c \in Callers,
         UNCHANGED <<version, cache, watched>>,
         ClientTypeInv',
         \A d \in Callers \ {c} :
            /\ at'[d] = at[d] /\ call'[d] = call[d]
            /\ cached'[d] = cached[d] /\ response'[d] = response[d],
         \/ permits' = permits /\ (Holds(c) <=> Holds(c)')
         \/ permits = 1 /\ permits' = 0 /\ Holds(c)'
         \/ permits' = permits + 1 /\ Holds(c) /\ ~Holds(c)',
         call'[c] # Nothing => call'[c].since <= version,
         at'[c] # "idle" => call'[c] # Nothing,
         at'[c] \in {"request", "response"} => SameEntry(c)',
         at'[c] = "response" =>
            /\ response'[c] = version
            /\ call'[c].since <= version,
         ForcedAnswersAreCurrent'
  PROVE  ClientIInv'
<1>1. LockInv'
  BY DEF ClientIInv, LockInv, Holds, ClientTypeInv
<1>2. VersionInv'
  BY DEF ClientIInv, VersionInv
<1>3. HeldInv'
  BY DEF ClientIInv, HeldInv, SameEntry
<1>4. ResponseInv'
  BY CallersAsk DEF ClientIInv, ResponseInv, VersionInv, ClientTypeInv
<1>5. ListenersAreRight'
  BY DEF ClientIInv, ListenersAreRight
<1>. QED  BY <1>1, <1>2, <1>3, <1>4, <1>5 DEF ClientIInv

-----------------------------------------------------------------------------
(* The steps of a caller.                                                  *)
LEMMA AskStep == ASSUME NEW c \in Callers, ClientIInv, Ask(c) PROVE ClientIInv'
<1>. DEFINE found == cache[KeyOf[c]]
<1>1. PICK force \in BOOLEAN :
        /\ call' = [call EXCEPT ![c] = [force |-> force, since |-> version]]
        /\ IF IsFresh(found, force)
           THEN ReturnAnswer(c, [version |-> found.version, lkg |-> FALSE])
           ELSE /\ MoveTo(c, "wait")
                /\ cached' = [cached EXCEPT ![c] = found]
                /\ answer' = [answer EXCEPT ![c] = Nothing]
                /\ UNCHANGED response
  BY DEF Ask
<1>2. /\ at[c] = "idle" /\ UNCHANGED shared
      /\ KeyOf[c] \in Keys /\ found \in Cached \cup {Nothing}
  BY CallersAsk DEF Ask, ClientIInv, ClientTypeInv
<1>3. /\ [force |-> force, since |-> version] \in Call
      /\ [force |-> force, since |-> version] # Nothing
  BY NothingIsDistinct DEF ClientIInv, ClientTypeInv, Call
<1>4. /\ call' \in [Callers -> Call \cup {Nothing}]
      /\ call'[c] = [force |-> force, since |-> version]
      /\ \A d \in Callers \ {c} : call'[d] = call[d]
  BY <1>1, <1>3 DEF ClientIInv, ClientTypeInv
<1>5. CASE IsFresh(found, force)
  <2>. DEFINE result == [version |-> found.version, lkg |-> FALSE]
  <2>1. ReturnAnswer(c, result)
    BY <1>1, <1>5
  <2>2. ~force /\ result \in Answer
    BY <1>2, <1>5 DEF IsFresh, Cached, Answer
  <2>3. Fair(c, result)
    BY <1>4, <2>2 DEF Fair
  <2>. HIDE DEF result
  <2>4. /\ at' \in [Callers -> Steps] /\ at'[c] = "idle"
        /\ \A d \in Callers \ {c} : /\ at'[d] = at[d]
                                    /\ cached'[d] = cached[d]
                                    /\ response'[d] = response[d]
        /\ cached' \in [Callers -> Cached \cup {Nothing}]
        /\ response' \in [Callers -> 0..MaxPublished \cup {Nothing}]
        /\ answer' \in [Callers -> Answer \cup {Nothing}]
        /\ ForcedAnswersAreCurrent'
    BY <1>4, <2>1, <2>3, Returns
  <2>5. ClientTypeInv'
    BY <1>2, <1>4, <2>4 DEF ClientIInv, ClientTypeInv, shared
  <2>6. ~Holds(c) /\ ~Holds(c)'
    BY <1>2, <2>4 DEF Holds
  <2>. QED
    BY <1>2, <1>4, <2>4, <2>5, <2>6, CallerKeepsInv DEF shared, ClientIInv, ClientTypeInv
<1>6. CASE ~IsFresh(found, force)
  <2>1. /\ MoveTo(c, "wait")
        /\ cached' = [cached EXCEPT ![c] = found]
        /\ answer' = [answer EXCEPT ![c] = Nothing]
        /\ UNCHANGED response
    BY <1>1, <1>6
  <2>2. /\ at' \in [Callers -> Steps] /\ at'[c] = "wait"
        /\ \A d \in Callers \ {c} : /\ at'[d] = at[d]
                                    /\ cached'[d] = cached[d]
                                    /\ answer'[d] = answer[d]
        /\ cached' \in [Callers -> Cached \cup {Nothing}]
        /\ answer' \in [Callers -> Answer \cup {Nothing}] /\ answer'[c] = Nothing
    BY <1>2, <2>1 DEF ClientIInv, ClientTypeInv, MoveTo, Steps
  <2>3. ForcedAnswersAreCurrent'
    BY <1>4, <2>2 DEF ClientIInv, ForcedAnswersAreCurrent
  <2>4. ClientTypeInv'
    BY <1>2, <1>4, <2>1, <2>2 DEF ClientIInv, ClientTypeInv, shared
  <2>5. ~Holds(c) /\ ~Holds(c)'
    BY <1>2, <2>2 DEF Holds
  <2>. QED
    BY <1>2, <1>3, <1>4, <2>1, <2>2, <2>3, <2>4, <2>5, CallerKeepsInv DEF shared, ClientIInv, ClientTypeInv
<1>. QED  BY <1>5, <1>6

LEMMA AcquireLockStep == ASSUME NEW c \in Callers, ClientIInv, AcquireLock(c) PROVE ClientIInv'
<1>1. /\ at' \in [Callers -> Steps] /\ at'[c] = "locked" /\ at[c] = "wait"
      /\ \A d \in Callers \ {c} : at'[d] = at[d]
  BY DEF AcquireLock, MoveTo, ClientIInv, ClientTypeInv, Steps
<1>2. permits = 1 /\ permits' = 0 /\ Holds(c)'
  BY <1>1 DEF AcquireLock, ClientIInv, LockInv, Holds
<1>3. ClientTypeInv' /\ ForcedAnswersAreCurrent'
  BY <1>1, <1>2 DEF AcquireLock, ClientIInv, ClientTypeInv, ForcedAnswersAreCurrent
<1>4. (call'[c] # Nothing => call'[c].since <= version) /\ call'[c] # Nothing
  BY <1>1 DEF AcquireLock, ClientIInv, VersionInv
<1>. QED  BY <1>1, <1>2, <1>3, <1>4, CallerKeepsInv DEF AcquireLock

LEMMA CancelWaitStep == ASSUME NEW c \in Callers, ClientIInv, CancelWait(c) PROVE ClientIInv'
<1>1. /\ at[c] = "wait" /\ ReturnAnswer(c, Nothing) /\ Fair(c, Nothing)
      /\ UNCHANGED <<version, cache, permits, watched, call>>
      /\ faults' \in 0..MaxFaults
  BY ClientBounds DEF CancelWait, Fair, ClientIInv, ClientTypeInv
<1>2. /\ at' \in [Callers -> Steps] /\ at'[c] = "idle"
      /\ \A d \in Callers \ {c} : /\ at'[d] = at[d]
                                  /\ cached'[d] = cached[d]
                                  /\ response'[d] = response[d]
      /\ cached' \in [Callers -> Cached \cup {Nothing}]
      /\ response' \in [Callers -> 0..MaxPublished \cup {Nothing}]
      /\ answer' \in [Callers -> Answer \cup {Nothing}]
      /\ ForcedAnswersAreCurrent'
  BY <1>1, Returns DEF ClientIInv, ClientTypeInv
<1>3. ClientTypeInv'
  BY <1>1, <1>2 DEF ClientIInv, ClientTypeInv
<1>4. ~Holds(c) /\ ~Holds(c)'
  BY <1>1, <1>2 DEF Holds
<1>. QED  BY <1>1, <1>2, <1>3, <1>4, CallerKeepsInv DEF ClientIInv, VersionInv

LEMMA RecheckStep == ASSUME NEW c \in Callers, ClientIInv, Recheck(c) PROVE ClientIInv'
<1>. DEFINE found == cache[KeyOf[c]]
<1>1. /\ at[c] = "locked" /\ Holds(c) /\ UNCHANGED <<version, cache, watched, faults, call>>
      /\ KeyOf[c] \in Keys /\ found \in Cached \cup {Nothing}
      /\ call[c] # Nothing /\ call[c] \in Call /\ call[c].since <= version
  BY CallersAsk DEF Recheck, Holds, ClientIInv, ClientTypeInv, VersionInv
<1>2. CASE IsFresh(found, call[c].force)
  <2>. DEFINE result == [version |-> found.version, lkg |-> FALSE]
  <2>1. ReturnAnswer(c, result) /\ permits' = permits + 1
    BY <1>2 DEF Recheck, ReadUnderLock
  <2>2. ~call[c].force /\ result \in Answer
    BY <1>1, <1>2 DEF IsFresh, Cached, Answer
  <2>3. Fair(c, result)
    BY <1>1, <2>2 DEF Fair
  <2>. HIDE DEF result
  <2>4. /\ at' \in [Callers -> Steps] /\ at'[c] = "idle"
        /\ \A d \in Callers \ {c} : /\ at'[d] = at[d]
                                    /\ cached'[d] = cached[d]
                                    /\ response'[d] = response[d]
        /\ cached' \in [Callers -> Cached \cup {Nothing}]
        /\ response' \in [Callers -> 0..MaxPublished \cup {Nothing}]
        /\ answer' \in [Callers -> Answer \cup {Nothing}]
        /\ ForcedAnswersAreCurrent'
    BY <1>1, <2>1, <2>3, Returns DEF ClientIInv, ClientTypeInv
  <2>5. ClientTypeInv'
    BY <1>1, <2>1, <2>4 DEF ClientIInv, ClientTypeInv
  <2>6. ~Holds(c)'
    BY <2>4 DEF Holds
  <2>. QED
    BY <1>1, <2>1, <2>4, <2>5, <2>6, CallerKeepsInv DEF ClientIInv
<1>3. CASE ~IsFresh(found, call[c].force)
  <2>1. /\ MoveTo(c, "request")
        /\ cached' = [cached EXCEPT ![c] = found]
        /\ UNCHANGED <<permits, response, answer>>
    BY <1>3 DEF Recheck, ReadUnderLock
  <2>2. /\ at' \in [Callers -> Steps] /\ at'[c] = "request"
        /\ \A d \in Callers \ {c} : at'[d] = at[d] /\ cached'[d] = cached[d]
        /\ cached' \in [Callers -> Cached \cup {Nothing}] /\ cached'[c] = found
    BY <1>1, <2>1 DEF ClientIInv, ClientTypeInv, MoveTo, Steps
  <2>3. ClientTypeInv' /\ ForcedAnswersAreCurrent' /\ Holds(c)'
    BY <1>1, <2>1, <2>2 DEF ClientIInv, ClientTypeInv, ForcedAnswersAreCurrent, Holds
  <2>4. SameEntry(c)'
    BY <1>1, <2>2 DEF SameEntry
  <2>. QED
    BY <1>1, <2>1, <2>2, <2>3, <2>4, CallerKeepsInv DEF ClientIInv
<1>. QED  BY <1>2, <1>3

LEMMA ServeStep == ASSUME NEW c \in Callers, ClientIInv, Serve(c) PROVE ClientIInv'
<1>1. /\ at[c] = "request" /\ at' \in [Callers -> Steps] /\ at'[c] = "response"
      /\ response' \in [Callers -> 0..MaxPublished \cup {Nothing}] /\ response'[c] = version
      /\ \A d \in Callers \ {c} : at'[d] = at[d] /\ response'[d] = response[d]
      /\ UNCHANGED <<shared, call, cached, answer>>
  BY DEF Serve, Served, MoveTo, ClientIInv, ClientTypeInv, Steps
<1>2. ClientTypeInv' /\ ForcedAnswersAreCurrent' /\ Holds(c) /\ Holds(c)'
  BY <1>1 DEF ClientIInv, ClientTypeInv, ForcedAnswersAreCurrent, Holds, shared
<1>3. SameEntry(c)'
  BY <1>1 DEF ClientIInv, HeldInv, SameEntry, shared
<1>4. call'[c] # Nothing /\ call'[c].since <= version
  BY <1>1 DEF ClientIInv, VersionInv
<1>. QED  BY <1>1, <1>2, <1>3, <1>4, CallerKeepsInv DEF shared

LEMMA FailStep == ASSUME NEW c \in Callers, ClientIInv, Fail(c) PROVE ClientIInv'
<1>1. PICK result \in {LastKnownGood(c), Nothing} : ReturnAnswer(c, result)
  BY DEF Fail
<1>2. /\ Holds(c) /\ UNCHANGED <<version, cache, watched, call>>
      /\ permits' = permits + 1 /\ faults' \in 0..MaxFaults
  BY ClientBounds DEF Fail, Holds, ClientIInv, ClientTypeInv
<1>3. Fair(c, result)
  <2>1. cached[c] # Nothing => cached[c] \in Cached
    BY DEF ClientIInv, ClientTypeInv
  <2>2. CASE result = Nothing
    BY <2>2 DEF Fair
  <2>3. CASE cached[c] # Nothing /\ result = [version |-> cached[c].version, lkg |-> TRUE]
    <3>1. cached[c].version \in 0..MaxPublished
      BY <2>1, <2>3 DEF Cached
    <3>2. result \in Answer /\ result.lkg
      BY <2>3, <3>1 DEF Answer
    <3>. QED  BY <3>2 DEF Fair
  <2>. QED  BY <2>2, <2>3 DEF LastKnownGood
<1>4. /\ at' \in [Callers -> Steps] /\ at'[c] = "idle"
      /\ \A d \in Callers \ {c} : /\ at'[d] = at[d]
                                  /\ cached'[d] = cached[d]
                                  /\ response'[d] = response[d]
      /\ cached' \in [Callers -> Cached \cup {Nothing}]
      /\ response' \in [Callers -> 0..MaxPublished \cup {Nothing}]
      /\ answer' \in [Callers -> Answer \cup {Nothing}]
      /\ ForcedAnswersAreCurrent'
  BY <1>1, <1>2, <1>3, Returns DEF ClientIInv, ClientTypeInv
<1>5. ClientTypeInv' /\ ~Holds(c)'
  BY <1>2, <1>4 DEF ClientIInv, ClientTypeInv, Holds
<1>. QED  BY <1>2, <1>4, <1>5, CallerKeepsInv DEF ClientIInv, VersionInv

(* Filling the cache: nobody else is under the lock, the entry c was held  *)
(* against is still the cached one, and listeners hear of every change.    *)
LEMMA ReceiveStep == ASSUME NEW c \in Callers, ClientIInv, Receive(c) PROVE ClientIInv'
<1>. DEFINE k == KeyOf[c]
            found == [version |-> response[c], age |-> "fresh"]
            result == [version |-> response[c], lkg |-> FALSE]
<1>1. /\ at[c] = "response" /\ Holds(c) /\ k \in Keys
      /\ response[c] \in 0..MaxPublished /\ response[c] <= version
      /\ cache[k] # Nothing => cache[k].version <= response[c]
      /\ call[c].since <= response[c] /\ SameEntry(c)
      /\ UNCHANGED <<version, faults, call>>
      /\ permits' = permits + 1
      /\ cache' = [cache EXCEPT ![k] = found]
      /\ ReturnAnswer(c, result)
  BY CallersAsk DEF Receive, Holds, ClientIInv, ResponseInv, HeldInv
<1>2. found \in Cached /\ found # Nothing /\ result \in Answer
  BY <1>1, NothingIsDistinct DEF Cached, Ages, Answer
<1>3. Fair(c, result)
  BY <1>1, <1>2 DEF Fair
<1>4. /\ at' \in [Callers -> Steps] /\ at'[c] = "idle"
      /\ \A d \in Callers \ {c} : /\ at'[d] = at[d]
                                  /\ cached'[d] = cached[d]
                                  /\ response'[d] = response[d]
      /\ cached' \in [Callers -> Cached \cup {Nothing}]
      /\ response' \in [Callers -> 0..MaxPublished \cup {Nothing}]
      /\ answer' \in [Callers -> Answer \cup {Nothing}]
      /\ ForcedAnswersAreCurrent'
  BY <1>1, <1>3, Returns DEF ClientIInv, ClientTypeInv
<1>5. /\ cache' \in [Keys -> Cached \cup {Nothing}] /\ cache'[k] = found
      /\ \A j \in Keys \ {k} : cache'[j] = cache[j]
  BY <1>1, <1>2 DEF ClientIInv, ClientTypeInv
<1>6. /\ watched' \in [Keys -> 0..MaxPublished \cup {Nothing}] /\ watched'[k] = response[c]
      /\ \A j \in Keys \ {k} : watched'[j] = watched[j]
  <2>1. CASE (cached[c] # Nothing /\ cached[c].version # response[c]) \/ cache[k] = Nothing
    BY <1>1, <2>1 DEF Receive, ClientIInv, ClientTypeInv
  <2>2. CASE ~((cached[c] # Nothing /\ cached[c].version # response[c]) \/ cache[k] = Nothing)
    <3>1. watched' = watched
      BY <2>2 DEF Receive
    <3>2. cache[k].version = response[c] /\ cache[k] # Nothing
      BY <1>1, <2>2 DEF SameEntry
    <3>3. watched[k] = response[c]
      BY <1>1, <3>2 DEF ClientIInv, ListenersAreRight
    <3>. QED  BY <3>1, <3>3 DEF ClientIInv, ClientTypeInv
  <2>. QED  BY <2>1, <2>2
<1>7. ~Holds(c)' /\ permits = 0 /\ \A d \in Callers : ~Holds(d)'
  <2>1. \A d \in Callers \ {c} : ~Holds(d)
    BY <1>1 DEF ClientIInv, LockInv
  <2>. QED  BY <1>1, <1>4, <2>1 DEF ClientIInv, LockInv, Holds
<1>8. ClientTypeInv' /\ LockInv'
  BY <1>1, <1>4, <1>5, <1>6, <1>7 DEF ClientIInv, ClientTypeInv, LockInv
<1>9. VersionInv'
  BY <1>1, <1>4, <1>5 DEF ClientIInv, VersionInv
<1>10. HeldInv' /\ ResponseInv'
  BY <1>7 DEF HeldInv, ResponseInv, Holds
<1>11. ListenersAreRight'
  BY <1>5, <1>6 DEF ClientIInv, ListenersAreRight
<1>. QED  BY <1>4, <1>8, <1>9, <1>10, <1>11 DEF ClientIInv

LEMMA StutteringStep == ClientIInv /\ UNCHANGED clientVars => ClientIInv'
BY DEF ClientIInv, ClientTypeInv, LockInv, Holds, VersionInv, HeldInv, SameEntry, ResponseInv,
       ListenersAreRight, ForcedAnswersAreCurrent, clientVars, shared, callers

LEMMA NextIInv == ClientIInv /\ [ClientNext]_clientVars => ClientIInv'
BY PublishStep, AgeStep, AskStep, AcquireLockStep, CancelWaitStep, RecheckStep, ServeStep,
   ReceiveStep, FailStep, StutteringStep DEF ClientNext, CallerStep

LEMMA ClientInvariance == ClientSpec => []ClientIInv
BY InitIInv, NextIInv, PTL DEF ClientSpec

-----------------------------------------------------------------------------
(* One who follows AsterloomConfigClient.SnapshotUpdated always knows the  *)
(* version GetSnapshotAsync has in its cache, however refreshes of several *)
(* contexts wait for the one lock, fail or are cancelled.                  *)
THEOREM ListenersAlwaysRight == ClientSpec => []ListenersAreRight
BY ClientInvariance, PTL DEF ClientIInv

(* A forced GetSnapshotAsync whose answer is not marked last-known-good    *)
(* answers with nothing older than what was published when it was asked.   *)
THEOREM ForcedAnswersAlwaysCurrent == ClientSpec => []ForcedAnswersAreCurrent
BY ClientInvariance, PTL DEF ClientIInv

(* No refresh replaces a cached snapshot by an older one: the lock orders  *)
(* a refresh's question after the answer that filled the cache.            *)
THEOREM TheCacheNeverGoesBack == ClientSpec => CacheNeverGoesBack
<1>. DEFINE Forward == \A k \in Keys : cache[k] # Nothing =>
                          cache'[k] # Nothing /\ cache'[k].version >= cache[k].version
<1>1. ASSUME ClientIInv, UNCHANGED cache PROVE Forward
  BY <1>1 DEF ClientIInv, ClientTypeInv, Cached
<1>2. ASSUME ClientIInv, NEW j \in Keys, Age(j) PROVE Forward
  <2>. SUFFICES ASSUME NEW k \in Keys, cache[k] # Nothing
                PROVE  cache'[k] # Nothing /\ cache'[k].version >= cache[k].version
    OBVIOUS
  <2>1. cache[k] \in Cached /\ cache[j] \in Cached
    BY <1>2 DEF ClientIInv, ClientTypeInv, Age
  <2>2. PICK a \in Ages : cache' = [cache EXCEPT ![j].age = a]
    BY <1>2 DEF Age, Ages
  <2>3. /\ [cache[j] EXCEPT !.age = a] \in Cached
        /\ [cache[j] EXCEPT !.age = a].version = cache[j].version
    BY <2>1, <2>2 DEF Cached
  <2>4. [cache[j] EXCEPT !.age = a] # Nothing
    BY <2>3, NothingIsDistinct
  <2>5. cache[k].version \in 0..MaxPublished
    BY <2>1 DEF Cached
  <2>. QED  BY <1>2, <2>2, <2>3, <2>4, <2>5, ClientBounds DEF ClientIInv, ClientTypeInv
<1>3. ASSUME ClientIInv, NEW c \in Callers, Receive(c) PROVE Forward
  <2>. SUFFICES ASSUME NEW k \in Keys, cache[k] # Nothing
                PROVE  cache'[k] # Nothing /\ cache'[k].version >= cache[k].version
    OBVIOUS
  <2>1. /\ response[c] \in 0..MaxPublished /\ KeyOf[c] \in Keys
        /\ cache[KeyOf[c]] # Nothing => cache[KeyOf[c]].version <= response[c]
    BY <1>3, CallersAsk DEF Receive, ClientIInv, ResponseInv
  <2>2. [version |-> response[c], age |-> "fresh"] # Nothing
    BY <2>1, NothingIsDistinct DEF Cached, Ages
  <2>3. cache[k] \in Cached /\ cache[k].version \in 0..MaxPublished
    BY <1>3 DEF ClientIInv, ClientTypeInv, Cached
  <2>4. cache' = [cache EXCEPT ![KeyOf[c]] = [version |-> response[c], age |-> "fresh"]]
    BY <1>3 DEF Receive
  <2>5. CASE k = KeyOf[c]
    BY <1>3, <2>1, <2>2, <2>3, <2>4, <2>5, ClientBounds DEF ClientIInv, ClientTypeInv
  <2>6. CASE k # KeyOf[c]
    BY <1>3, <2>3, <2>4, <2>6, ClientBounds DEF ClientIInv, ClientTypeInv
  <2>. QED  BY <2>5, <2>6
<1>4. ClientIInv /\ [ClientNext]_clientVars => [Forward]_clientVars
  <2>. SUFFICES ASSUME ClientIInv, ClientNext PROVE Forward
    OBVIOUS
  <2>1. \/ UNCHANGED cache
        \/ \E j \in Keys : Age(j)
        \/ \E c \in Callers : Receive(c)
    BY DEF ClientNext, Publish, Ask, AcquireLock, CancelWait, CallerStep, Recheck, Serve, Fail, shared
  <2>. QED  BY <1>1, <1>2, <1>3, <2>1
<1>. QED  BY <1>4, ClientInvariance, PTL DEF ClientSpec, CacheNeverGoesBack
=============================================================================
