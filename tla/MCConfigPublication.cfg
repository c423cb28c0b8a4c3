\* Two management calls at a time on two entries, and a segment that changes.
\* Deadlock is not checked: at the bound on changes nothing is left to do.
CONSTANTS
  e1 = e1
  e2 = e2
  d1 = d1
  d2 = d2
  s1 = s1
  Entries = {e1, e2}
  Definitions = {d1, d2}
  Segments = {s1}
  Rules <- Targeted
  Visibility = {client, server}
  Position <- KeyOrder
  Calls = {c1, c2}
  MaxVersion <- OneBusyEntry
  DraftsAt <- DraftAfterPublication
  MaxSnapshots = 3
  MaxSegment = 2
  None = None
SYMMETRY Symmetry
SPECIFICATION Spec
INVARIANTS
  TypeOK
  SnapshotIsCurrent
  AudiencesNeverGoBack
PROPERTIES
  ImplementsFeed
CHECK_DEADLOCK FALSE
