---------------------------- MODULE ReleasePage ----------------------------
(***************************************************************************)
(* The page of desktop releases: channels, releases, artifacts and signing *)
(* keys.  A release is active here while it is a draft; what comes after   *)
(* (published, paused, superseded) is one state.                           *)
(***************************************************************************)
EXTENDS Inspectors

\* The page opens with nothing under way.
Open(p, s) == Opened(p, s) /\ pending = NotBusy

-----------------------------------------------------------------------------
\* The commands.

ListReleaseSigningKeys == Listed
CreateReleaseSigningKey(c, id) == Ask(c, "create", id, 0, 0)
ArchiveReleaseSigningKey(c, key) == Ask(c, "archive", key.id, key.version, 0)
RestoreReleaseSigningKey(c, key) == Ask(c, "restore", key.id, key.version, 0)
ListReleaseChannels == Listed
GetReleaseChannel(c, id) == Reading(c, id)
CreateReleaseChannel(c, id) == Ask(c, "create", id, 0, 0)
UpdateReleaseChannel(c, channel) ==
    Ask(c, "edit", channel.id, channel.version, channel.form)
ArchiveReleaseChannel(c, channel) == Ask(c, "archive", channel.id, channel.version, 0)
RestoreReleaseChannel(c, channel) == Ask(c, "restore", channel.id, channel.version, 0)
ListReleaseArtifacts == Listed
GetReleaseArtifact(c, id) == Reading(c, id)
CreateReleaseArtifactUpload(c, id) == Ask(c, "create", id, 0, 0)
ArchiveReleaseArtifact(c, artifact) ==
    Ask(c, "archive", artifact.id, artifact.version, 0)
ListDesktopReleases == Listed
GetDesktopRelease(c, id) == Reading(c, id)
CreateDesktopRelease(c, id) == Ask(c, "create", id, 0, 0)
UpdateDesktopReleaseDraft(c, release) ==
    Ask(c, "edit", release.id, release.version, release.form)
ValidateDesktopRelease(c, release) == Ask(c, "read", release.id, release.version, 0)
\* The release stops being a draft; the call carries the version validated.
PublishDesktopRelease(c, release, validated) ==
    Ask(c, "archive", release.id, release.version, validated)
PauseDesktopRelease(c, release) == Ask(c, "touch", release.id, release.version, 0)
PromoteDesktopRelease(c, release) == Ask(c, "touch", release.id, release.version, 0)
GetReleaseManifest(c, release) == Ask(c, "look", release.id, release.version, 0)
SimulateReleaseUpdate(c) == Look(c)

-----------------------------------------------------------------------------
\* Channels.  One with an active release cannot be archived: the model's has
\* none.

ChannelList(c) ==
    \E id \in ListReleaseChannels :
        \/ Choose(id)
        \/ ReadFree(id) /\ GetReleaseChannel(c, id)

SubmitChannel(c) ==
    /\ Free(Card("create"))
    /\ \E id \in Fresh : CreateReleaseChannel(c, id) /\ Performs(c, Card("create"))

ChannelInspector(c) ==
    /\ InHand
    /\ Free(editor)
    /\ \/ IsActive(editor.id, editor.version) /\ UpdateReleaseChannel(c, editor)
       \/ IsActive(editor.id, editor.version) /\ ArchiveReleaseChannel(c, editor)
       \/ ~IsActive(editor.id, editor.version) /\ RestoreReleaseChannel(c, editor)
    /\ Performs(c, editor)

RecordChanged(c) == Changed(c, StillBusy(calls[c].id, calls[c].version))
RecordRead(c) == ReadingOver(c, StillBusy(calls[c].id, calls[c].version))

ChannelsPanel(c) ==
    /\ page = "channels"
    /\ ChannelList(c) \/ SubmitChannel(c) \/ ChannelInspector(c)

-----------------------------------------------------------------------------
\* Releases.

ReleaseList(c) ==
    \E id \in ListDesktopReleases :
        \/ Choose(id)
        \/ ReadFree(id) /\ GetDesktopRelease(c, id)

ReleaseForm == {id \in Fresh : Free(Card("create"))}

SubmitRelease(c) ==
    \E id \in ReleaseForm : CreateDesktopRelease(c, id) /\ Performs(c, Card("create"))

Draft == IsActive(editor.id, editor.version)

Validate(c) == Free(editor) /\ ValidateDesktopRelease(c, editor) /\ Performs(c, editor)

\* The result is shown by the inspector that asked, if it is still there.
Validated(c) ==
    /\ Answered(c, {"read"})
    /\ Return(c)
    /\ report' = IF calls[c].ok /\ (\E waits \in pending.busy : waits.by = c)
                 THEN [id |-> calls[c].id, version |-> calls[c].version] ELSE report
    /\ pending' = [pending EXCEPT !.busy = Without(c, @)]
    /\ UNCHANGED <<editor, cache>>

\* A draft is published once a validation found it valid.
Publish(c) ==
    /\ Free(editor)
    /\ Draft
    /\ report # None
    /\ PublishDesktopRelease(c, editor, report.version)
    /\ Performs(c, editor)

LoadManifest(c) == Free(editor) /\ ~Draft /\ GetReleaseManifest(c, editor) /\ Performs(c, editor)

ReleaseButtons(c) ==
    /\ Free(editor)
    /\ Draft
    /\ UpdateDesktopReleaseDraft(c, editor)
    /\ Performs(c, editor)

\* A rollback reads the release again and names the version it reads.
Rollback(c) ==
    Ask(c, IF ScopeOf[editor.id] = scope THEN "get" ELSE "miss", editor.id, editor.version, 0)

\* The buttons of a release that was published.
RolloutControls(c) ==
    /\ Free(editor)
    /\ ~Draft
    /\ PauseDesktopRelease(c, editor) \/ PromoteDesktopRelease(c, editor) \/ Rollback(c)
    /\ Performs(c, editor)

RollbackDesktopRelease(c) ==
    /\ Answered(c, {"get"})
    /\ calls[c].ok
    /\ calls[c].sent > 0
    /\ calls' = [calls EXCEPT ![c].op = "touch", ![c].sent = calls[c].version,
                              ![c].stage = "sent", ![c].ok = FALSE, ![c].version = 0]
    /\ UNCHANGED <<page, services, scope, cache, copies, pending, acked, told, clicks, raced>>

RollbackNotRead(c) ==
    /\ Answered(c, {"get", "miss"})
    /\ ~calls[c].ok
    /\ calls[c].sent > 0
    /\ Return(c)
    /\ pending' = [pending EXCEPT !.busy = Without(c, @)]
    /\ UNCHANGED <<copies, cache>>

ReleaseInspector(c) ==
    /\ InHand
    /\ Validate(c) \/ Publish(c) \/ LoadManifest(c) \/ ReleaseButtons(c) \/ RolloutControls(c)

\* One simulation at a time.
SimulationReady == Free(Card("simulation"))

SimulationCard(c) ==
    /\ SimulationReady
    /\ SimulateReleaseUpdate(c)
    /\ Performs(c, Card("simulation"))

ReleasesPanel(c) ==
    /\ page = "releases"
    /\ \/ ReleaseList(c) \/ SubmitRelease(c) \/ ReleaseInspector(c) \/ SimulationCard(c)
       \/ Validated(c) \/ LookOver(c) \/ RollbackDesktopRelease(c) \/ RollbackNotRead(c)

-----------------------------------------------------------------------------
\* Artifacts.  The upload cards begin and complete an upload before they
\* report the artifact; the module VelopackUpload has the steps of one.

ArtifactList(c) ==
    \E id \in ListReleaseArtifacts :
        \/ Choose(id)
        \/ ReadFree(id) /\ GetReleaseArtifact(c, id)

UploadForm == {id \in Fresh : Free(Card("create"))}

UploadArtifact(c) ==
    \E id \in UploadForm : CreateReleaseArtifactUpload(c, id) /\ Performs(c, Card("create"))

ArtifactInspector(c) ==
    /\ InHand
    /\ Free(editor)
    /\ IsActive(editor.id, editor.version)
    /\ ArchiveReleaseArtifact(c, editor)
    /\ Performs(c, editor)

ArtifactsPanel(c) ==
    /\ page = "artifacts"
    /\ ArtifactList(c) \/ UploadArtifact(c) \/ ArtifactInspector(c)

-----------------------------------------------------------------------------
\* Signing keys: rows and a form, and one mark for all of them.

CreateKey(c) ==
    /\ pending.busy = {}
    /\ \E id \in Fresh : CreateReleaseSigningKey(c, id) /\ Performs(c, Card("create"))

ChangeKey(c) ==
    /\ pending.busy = {}
    /\ \E id \in ListReleaseSigningKeys :
          /\ IF IsActive(id, rows[id]) THEN ArchiveReleaseSigningKey(c, Row(id))
                                       ELSE RestoreReleaseSigningKey(c, Row(id))
          /\ Performs(c, Card("keys"))

KeyChanged(c) == Answered(c, Writes) /\ calls[c].ok /\ Refresh(c)

SigningKeysPanel(c) ==
    page = "signingKeys" /\ (CreateKey(c) \/ ChangeKey(c) \/ KeyChanged(c))

-----------------------------------------------------------------------------
Next ==
    \/ \E s \in Scopes : SelectScope(s)
    \/ page # "signingKeys" /\ LetGo
    \/ \E c \in Calls :
          \/ ChannelsPanel(c) \/ ReleasesPanel(c) \/ ArtifactsPanel(c) \/ SigningKeysPanel(c)
          \/ page # "signingKeys" /\ RecordChanged(c)
          \/ RecordRead(c) /\ calls[c].sent = 0
          \/ Done(c)
=============================================================================
