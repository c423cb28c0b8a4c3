---------------------------- MODULE ConfigPage ----------------------------
(***************************************************************************)
(* The page of dynamic configuration: a list of entries, one entry in the  *)
(* editor with its draft, and results about it (validation, diff, preview). *)
(* The buttons of the list are never disabled; those of the editor are     *)
(* while something is pending.                                             *)
(***************************************************************************)
EXTENDS Console

\* The page opens with nothing under way.
Open(p, s) == Opened(p, s) /\ pending = None

-----------------------------------------------------------------------------
\* The commands.  Every write names the version of the copy it was decided on;
\* the results are about whatever draft the service holds.

ListConfigEntries == Displayed
GetConfigEntry(c, id) == AskFor(c, id)
CreateConfigEntry(c, id) == Ask(c, "create", id, 0, 0)
UpdateConfigDraft(c, copy) == Ask(c, "edit", copy.id, copy.version, copy.form)
ValidateConfigDraft(c, copy) == Ask(c, "read", copy.id, 0, 0)
DiffConfigDraft(c, copy) == Ask(c, "read", copy.id, 0, 0)
PublishConfigEntry(c, copy) == Ask(c, "act", copy.id, copy.version, 0)
RollbackConfigEntry(c, copy) == Ask(c, "act", copy.id, copy.version, 0)
ArchiveConfigEntry(c, copy) == Ask(c, "archive", copy.id, copy.version, 0)
RestoreConfigEntry(c, copy) == Ask(c, "restore", copy.id, copy.version, 0)
PreviewConfigValue(c, copy) == Ask(c, "read", copy.id, 0, 0)
GetConfigSnapshot(c) == Look(c)
CheckConfigUpdates(c) == Look(c)

-----------------------------------------------------------------------------
\* The editor.  A record of the list is what its answer said of it.

Row(id) == Copy(id, rows[id])

ResetCollectionState ==
    /\ editor' = None
    /\ report' = None

LoadIntoEditor(id, version) ==
    /\ editor' = Copy(id, version)
    /\ report' = None

SelectScope(s) ==
    /\ Select(s)
    /\ ResetCollectionState
    /\ UNCHANGED pending

-----------------------------------------------------------------------------
\* What the panels offer.

EntryList == ListConfigEntries
Archivable == {id \in EntryList : IsActive(id, rows[id])}
CreateForm == {id \in Ids : ScopeOf[id] = scope /\ pending # <<"create", id>>}
EditorButtons == editor # None /\ Idle
DraftButtons == EditorButtons /\ IsActive(editor.id, editor.version)
RevisionButtons == editor # None /\ IsActive(editor.id, editor.version)
PreviewButton == editor # None

-----------------------------------------------------------------------------
\* The handlers.  A mutation asks for the lists again before it reports, and
\* loads what it was answered into the editor.

RunMutation(c) == Answered(c, Writes) /\ Refresh(c)

MutationOver(c) ==
    /\ Refreshed(c)
    /\ Return(c)
    /\ pending' = None
    /\ IF calls[c].ok /\ (calls[c].op \in {"archive", "restore"} => calls[c].inHand)
       THEN LoadIntoEditor(calls[c].id, calls[c].version)
       ELSE UNCHANGED copies
    /\ UNCHANGED cache

InspectEntry(c) ==
    /\ \E id \in EntryList : GetConfigEntry(c, id) /\ Busy("other", Something)

EntryAnswered(c) ==
    /\ Answered(c, {"get", "miss"})
    /\ Return(c)
    /\ pending' = None
    /\ IF calls[c].ok THEN LoadIntoEditor(calls[c].id, calls[c].version)
                      ELSE UNCHANGED copies
    /\ UNCHANGED cache

SubmitCreate(c) ==
    /\ \E id \in CreateForm : CreateConfigEntry(c, id) /\ Busy("create", id)

SubmitDraft(c) == DraftButtons /\ UpdateConfigDraft(c, editor) /\ Busy("other", Something)

ValidateDraft(c) == DraftButtons /\ ValidateConfigDraft(c, editor) /\ Busy("other", Something)

InspectDiff(c) == EditorButtons /\ DiffConfigDraft(c, editor) /\ Busy("other", Something)

PublishCurrent(c) == DraftButtons /\ PublishConfigEntry(c, editor) /\ Busy("other", Something)

RollbackCurrent(c) == RevisionButtons /\ RollbackConfigEntry(c, editor) /\ Busy("other", Something)

ChangeStatus(c) ==
    /\ \E id \in EntryList :
          /\ IF id \in Archivable THEN ArchiveConfigEntry(c, Row(id))
                                  ELSE RestoreConfigEntry(c, Row(id))
          /\ Busy("other", Something)

RunPreview(c) == PreviewButton /\ PreviewConfigValue(c, editor) /\ Busy("other", Something)

\* A result is shown in the editor that is there when it arrives.
ResultAnswered(c) ==
    /\ Answered(c, {"read"})
    /\ Return(c)
    /\ pending' = None
    /\ report' = IF calls[c].ok THEN [id |-> calls[c].id, version |-> calls[c].version]
                               ELSE report
    /\ UNCHANGED <<editor, cache>>

FetchRuntimeSnapshot(c) == GetConfigSnapshot(c) /\ Busy("other", Something)

CheckUpdates(c) == CheckConfigUpdates(c) /\ Busy("other", Something)

SnapshotAnswered(c) ==
    /\ Answered(c, {"look"})
    /\ Return(c)
    /\ pending' = None
    /\ UNCHANGED <<copies, cache>>

Next ==
    \/ \E s \in Scopes : SelectScope(s)
    \/ \E c \in Calls :
          \/ InspectEntry(c) \/ SubmitCreate(c) \/ SubmitDraft(c) \/ ValidateDraft(c)
          \/ InspectDiff(c) \/ PublishCurrent(c) \/ RollbackCurrent(c)
          \/ ChangeStatus(c) \/ RunPreview(c) \/ FetchRuntimeSnapshot(c)
          \/ CheckUpdates(c)
          \/ RunMutation(c) \/ MutationOver(c) \/ EntryAnswered(c)
          \/ ResultAnswered(c) \/ SnapshotAnswered(c)
=============================================================================
