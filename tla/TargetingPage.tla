--------------------------- MODULE TargetingPage ---------------------------
(***************************************************************************)
(* The page of targeting segments: a list, one segment in the editor, and  *)
(* a simulation of it on the server.  A button is disabled only by the     *)
(* mark of its own operation.                                              *)
(***************************************************************************)
EXTENDS Console

\* The page opens with nothing under way.
Open(p, s) == Opened(p, s) /\ pending = None

-----------------------------------------------------------------------------
\* The commands.

ListSegments == Displayed
GetSegment(c, id) == AskFor(c, id)
CreateSegment(c, id) == Ask(c, "create", id, 0, 0)
UpdateSegment(c, copy) == Ask(c, "edit", copy.id, copy.version, copy.form)
ArchiveSegment(c, copy) == Ask(c, "archive", copy.id, copy.version, 0)
RestoreSegment(c, copy) == Ask(c, "restore", copy.id, copy.version, 0)
SimulateTargeting(c, id) == Ask(c, "read", id, 0, 0)

-----------------------------------------------------------------------------
\* The editor.  A record of the list is what its answer said of it.

Row(id) == Copy(id, rows[id])

Selected == editor # None /\ editor.version > 0

\* No segment is selected any more; its fields stay filled.
ResetCollectionState ==
    /\ editor' = IF editor = None THEN None ELSE [editor EXCEPT !.version = 0]
    /\ report' = None

\* changeTenant, changeApplication, changeEnvironment.
ChangeScope(s) == Select(s) /\ ResetCollectionState /\ UNCHANGED pending

\* changeQuery and changeIncludeArchived.
ChangeFilter(s) == ChangeScope(s)

\* The fields are filled from the record.
SegmentIntoEditor(id, version) == editor' = Copy(id, version) /\ report' = None

\* An update keeps the simulation of the segment as it was.
UpdateIntoEditor(id, version) == editor' = Copy(id, version) /\ UNCHANGED report

\* A change of status keeps the fields as well; if another segment was opened
\* since the click, the fields are those of that one, of no version of this.
StatusIntoEditor(id, version) ==
    /\ editor' = [id |-> id, version |-> version,
                  form |-> IF editor.id = id THEN editor.form ELSE 0]
    /\ UNCHANGED report

-----------------------------------------------------------------------------
\* What the panels offer.

Inspectable == {id \in ListSegments : pending # <<"get", id>>}
StatusButtons == {id \in ListSegments : pending # <<"status", id>>}
CreateSegmentPanel == {id \in Ids : ScopeOf[id] = scope /\ pending # <<"create", id>>}
EditSegmentPanel ==
    /\ Selected
    /\ pending # <<"update", editor.id>>
    /\ IsActive(editor.id, editor.version)
SimulationForm == pending # <<"simulate", editor.id>>
SimulatorPanel == Selected /\ SimulationForm

-----------------------------------------------------------------------------
\* The handlers.

RunMutation(c) == Answered(c, Writes) /\ Refresh(c)

\* The row is replaced by the answer, newer though it may be, and a request
\* under way is dropped.
ReplaceSegmentInCollection(id, version) ==
    /\ rows' = IF rows[id] > 0 /\ ScopeOf[id] = scope
               THEN [rows EXCEPT ![id] = version] ELSE rows
    /\ fetch' = IF fetch # None /\ fetch.of = scope THEN None ELSE fetch
    /\ UNCHANGED <<loaded, failed>>

MutationOver(c) ==
    LET call == calls[c] IN
    /\ Refreshed(c)
    /\ Return(c)
    /\ pending' = None
    /\ \/ ~call.ok /\ UNCHANGED <<copies, cache>>
       \/ call.ok /\ call.op = "create" /\ SegmentIntoEditor(call.id, call.version)
                  /\ UNCHANGED cache
       \/ call.ok /\ call.op = "edit" /\ UpdateIntoEditor(call.id, call.version)
                  /\ ReplaceSegmentInCollection(call.id, call.version)
       \/ /\ call.ok /\ call.op \in {"archive", "restore"}
          /\ IF call.inHand THEN StatusIntoEditor(call.id, call.version)
                                            ELSE UNCHANGED copies
          /\ ReplaceSegmentInCollection(call.id, call.version)

InspectSegment(c) ==
    /\ \E id \in Inspectable : GetSegment(c, id) /\ Busy("get", id)

SegmentAnswered(c) ==
    /\ Answered(c, {"get", "miss"})
    /\ Return(c)
    /\ pending' = None
    /\ IF calls[c].ok THEN SegmentIntoEditor(calls[c].id, calls[c].version)
                      ELSE UNCHANGED copies
    /\ UNCHANGED cache

SubmitCreate(c) ==
    /\ \E id \in CreateSegmentPanel : CreateSegment(c, id) /\ Busy("create", id)

SubmitUpdate(c) ==
    /\ EditSegmentPanel
    /\ UpdateSegment(c, editor)
    /\ Busy("update", editor.id)

ChangeStatus(c) ==
    /\ \E id \in StatusButtons :
          /\ IF IsActive(id, rows[id]) THEN ArchiveSegment(c, Row(id))
                                       ELSE RestoreSegment(c, Row(id))
          /\ Busy("status", id)

SubmitSimulation(c) ==
    /\ SimulatorPanel
    /\ SimulateTargeting(c, editor.id)
    /\ Busy("simulate", editor.id)

SimulationAnswered(c) ==
    /\ Answered(c, {"read"})
    /\ Return(c)
    /\ pending' = None
    /\ report' = IF calls[c].ok THEN [id |-> calls[c].id, version |-> calls[c].version]
                               ELSE report
    /\ UNCHANGED <<editor, cache>>

Next ==
    \/ \E s \in Scopes : ChangeScope(s) \/ ChangeFilter(s)
    \/ \E c \in Calls :
          \/ InspectSegment(c) \/ SubmitCreate(c) \/ SubmitUpdate(c) \/ ChangeStatus(c)
          \/ SubmitSimulation(c)
          \/ RunMutation(c) \/ MutationOver(c) \/ SegmentAnswered(c)
          \/ SimulationAnswered(c)
=============================================================================
