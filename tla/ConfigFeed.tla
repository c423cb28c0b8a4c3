----------------------------- MODULE ConfigFeed -----------------------------
(***************************************************************************)
(* What the configuration of an environment promises its clients: it has   *)
(* versions, each brought about by one release - the next revision of one  *)
(* entry, or one entry withdrawn or returned - and clients are served all  *)
(* the entries as they are released then.  Who is given which value is     *)
(* another matter: the segments of the rules, and the visibility of an     *)
(* entry, change when they like, and every release serves all the entries  *)
(* with them as they were at some time since the release before, each rule *)
(* at a time of its own.                                                   *)
(***************************************************************************)
EXTENDS Naturals, Sequences

CONSTANTS
  Entries,      \* configuration entries
  Definitions,  \* what an entry may say
  Segments,     \* targeting segments
  Rules,        \* the segments of a definition's rules, in order
  Visibility,
  None

VARIABLES
  published,    \* entry -> the definition and revision last released, or None
  withdrawn,    \* the released entries that are archived
  visibility,   \* entry -> its visibility, or None
  segment,      \* segment -> status and version
  since, shown, \* what segments and visibilities were since the last release
  served,       \* what clients are served of each entry, or None
  version       \* the version of what they are served

releases == <<published, withdrawn, served, version>>
feedVars == <<releases, visibility, segment, since, shown>>

Init ==
  /\ published = [e \in Entries |-> None]
  /\ withdrawn = {}
  /\ visibility = [e \in Entries |-> None]
  /\ segment = [s \in Segments |-> [status |-> "Absent", version |-> 0]]
  /\ since = [s \in Segments |-> {segment[s]}]
  /\ shown = [e \in Entries |-> {}]
  /\ served = [e \in Entries |-> None]
  /\ version = 0

(* A new version of a segment.                                             *)
ChangeSegment(s) ==
  /\ \E status \in {"Active", "Archived"} :
       segment' = [segment EXCEPT ![s] = [status |-> status, version |-> segment[s].version + 1]]
  /\ since' = [since EXCEPT ![s] = @ \cup {segment'[s]}]
  /\ UNCHANGED <<releases, visibility, shown>>

(* An entry is created, or its draft says who may see it.                  *)
ChangeVisibility(e) ==
  /\ \E v \in Visibility :
       /\ visibility' = [visibility EXCEPT ![e] = v]
       /\ shown' = [shown EXCEPT ![e] = @ \cup {v}]
  /\ UNCHANGED <<releases, segment, since>>

(* The version of its segment a rule is served with; 0 leaves it out.      *)
Captured(row) == IF row.status = "Active" THEN row.version ELSE 0

(* The item is the entry as it is released, for an audience of the time.   *)
Serves(item, e) ==
  /\ item.definition = published'[e].definition
  /\ item.revision = published'[e].revision
  /\ item.visibility \in shown[e]
  /\ DOMAIN item.audience = DOMAIN Rules[item.definition]
  /\ \A n \in DOMAIN item.audience :
       \E row \in since[Rules[item.definition][n]] : item.audience[n] = Captured(row)

Serve ==
  /\ DOMAIN served' = Entries
  /\ \A e \in Entries :
       IF published'[e] = None \/ e \in withdrawn' THEN served'[e] = None ELSE Serves(served'[e], e)
  /\ version' = version + 1
  /\ since' = [s \in Segments |-> {segment[s]}]
  /\ shown' = [e \in Entries |-> IF visibility[e] = None THEN {} ELSE {visibility[e]}]
  /\ UNCHANGED <<visibility, segment>>

LastRevision(e) == IF published[e] = None THEN 0 ELSE published[e].revision

(* The next revision of an entry, by publishing or rolling back.           *)
Release(e) ==
  /\ visibility[e] # None /\ e \notin withdrawn
  /\ \E d \in Definitions : published' =
       [published EXCEPT ![e] = [definition |-> d, revision |-> LastRevision(e) + 1]]
  /\ UNCHANGED withdrawn
  /\ Serve

(* A released entry is archived.                                           *)
Withdraw(e) ==
  /\ published[e] # None /\ e \notin withdrawn
  /\ withdrawn' = withdrawn \cup {e}
  /\ UNCHANGED published
  /\ Serve

(* ... and restored.                                                       *)
ReturnEntry(e) ==
  /\ e \in withdrawn
  /\ withdrawn' = withdrawn \ {e}
  /\ UNCHANGED published
  /\ Serve

Next ==
  \/ \E s \in Segments : ChangeSegment(s)
  \/ \E e \in Entries : ChangeVisibility(e) \/ Release(e) \/ Withdraw(e) \/ ReturnEntry(e)

Spec == Init /\ [][Next]_feedVars
=============================================================================
