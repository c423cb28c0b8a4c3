---------------------------- MODULE FeaturePage ----------------------------
(***************************************************************************)
(* The page of feature flags: a list of flags, one flag in the editor with *)
(* its draft, and results about it (validation, evaluation).  A button is  *)
(* disabled by some of the page's marks: the editor's by every one, those  *)
(* of a row by the marks that end in the row's id.                         *)
(***************************************************************************)
EXTENDS Console

\* The page opens with nothing under way.
Open(p, s) == Opened(p, s) /\ pending = None

-----------------------------------------------------------------------------
\* The commands.

ListFlags == Listed
GetFlag(c, id) == AskFor(c, id)
CreateFlag(c, id) == Ask(c, "create", id, 0, 0)
UpdateFlagDraft(c, copy) == Ask(c, "edit", copy.id, copy.version, copy.form)
ValidateFlagDraft(c, copy) == Ask(c, "read", copy.id, 0, 0)
PublishFlag(c, copy) == Ask(c, "act", copy.id, copy.version, 0)
RollbackFlag(c, copy) == Ask(c, "act", copy.id, copy.version, 0)
ArchiveFlag(c, copy) == Ask(c, "archive", copy.id, copy.version, 0)
RestoreFlag(c, copy) == Ask(c, "restore", copy.id, copy.version, 0)
SimulateFlag(c, copy) == Ask(c, "read", copy.id, 0, 0)
EvaluateFlag(c, copy) == Ask(c, "read", copy.id, 0, 0)

-----------------------------------------------------------------------------
\* The editor.  A record of the list is what its answer said of it.

Row(id) == Copy(id, rows[id])

ResetCollectionState == editor' = None /\ report' = None

\* (As it would be if the results were left standing.)
LoadFlagBesideReport(id, version) ==
    /\ editor' = Copy(id, version)
    /\ UNCHANGED report

LoadFlagIntoEditor(id, version) ==
    /\ editor' = Copy(id, version)
    /\ report' = None

\* changeTenant, changeApplication, changeEnvironment.
ChangeScope(s) == Select(s) /\ ResetCollectionState /\ UNCHANGED pending

\* changeListFilter.
ChangeFilter(s) == ChangeScope(s)

-----------------------------------------------------------------------------
\* What the panels offer.  The marks "get" and "flag" end in the flag's id.

Inspectable == {id \in ListFlags : pending # <<"get", id>>}
StatusButtons == {id \in ListFlags : pending \notin {<<"get", id>>, <<"flag", id>>}}
CreateFlagPanel == {id \in Ids : ScopeOf[id] = scope /\ pending # <<"create", id>>}
DraftPanel == editor # None /\ Idle /\ IsActive(editor.id, editor.version)
RevisionPanel == editor # None /\ Idle /\ IsActive(editor.id, editor.version)
EvaluationPanel == editor # None /\ Idle

-----------------------------------------------------------------------------
\* The handlers.

RunMutation(c) == Answered(c, Writes) /\ Refresh(c)

\* (As it would be if the answer were not loaded into the editor.)
MutationOverUnseen(c) ==
    /\ Refreshed(c)
    /\ Return(c)
    /\ pending' = None
    /\ UNCHANGED <<copies, cache>>

MutationOver(c) ==
    /\ Refreshed(c)
    /\ Return(c)
    /\ pending' = None
    /\ IF calls[c].ok /\ (calls[c].op \in {"archive", "restore"} => calls[c].inHand)
       THEN LoadFlagIntoEditor(calls[c].id, calls[c].version)
       ELSE UNCHANGED copies
    /\ UNCHANGED cache

InspectFlag(c) ==
    /\ \E id \in Inspectable : GetFlag(c, id) /\ Busy("get", id)

FlagAnswered(c) ==
    /\ Answered(c, {"get", "miss"})
    /\ Return(c)
    /\ pending' = None
    /\ IF calls[c].ok THEN LoadFlagIntoEditor(calls[c].id, calls[c].version)
                      ELSE UNCHANGED copies
    /\ UNCHANGED cache

SubmitCreate(c) ==
    /\ \E id \in CreateFlagPanel : CreateFlag(c, id) /\ Busy("create", id)

SubmitDraft(c) == DraftPanel /\ UpdateFlagDraft(c, editor) /\ Busy("flag", editor.id)

ValidateDraft(c) == DraftPanel /\ ValidateFlagDraft(c, editor) /\ Busy("flag", editor.id)

PublishCurrent(c) == DraftPanel /\ PublishFlag(c, editor) /\ Busy("flag", editor.id)

RollbackCurrent(c) == RevisionPanel /\ RollbackFlag(c, editor) /\ Busy("other", editor.id)

ChangeStatus(c) ==
    /\ \E id \in StatusButtons :
          /\ IF IsActive(id, rows[id]) THEN ArchiveFlag(c, Row(id)) ELSE RestoreFlag(c, Row(id))
          /\ Busy("flag", id)

RunEvaluation(c) ==
    /\ EvaluationPanel
    /\ SimulateFlag(c, editor) \/ EvaluateFlag(c, editor)
    /\ Busy("other", editor.id)

ResultAnswered(c) ==
    /\ Answered(c, {"read"})
    /\ Return(c)
    /\ pending' = None
    /\ report' = IF calls[c].ok THEN [id |-> calls[c].id, version |-> calls[c].version]
                               ELSE report
    /\ UNCHANGED <<editor, cache>>

Next ==
    \/ \E s \in Scopes : ChangeScope(s) \/ ChangeFilter(s)
    \/ \E c \in Calls :
          \/ InspectFlag(c) \/ SubmitCreate(c) \/ SubmitDraft(c) \/ ValidateDraft(c)
          \/ PublishCurrent(c) \/ RollbackCurrent(c) \/ ChangeStatus(c)
          \/ RunEvaluation(c)
          \/ RunMutation(c) \/ MutationOver(c) \/ FlagAnswered(c) \/ ResultAnswered(c)
=============================================================================
