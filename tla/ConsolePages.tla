---------------------------- MODULE ConsolePages ----------------------------
(***************************************************************************)
(* The console as one administrator sees it: one page open, the services   *)
(* behind it, and other administrators who change the same records.  Each  *)
(* page is a module of its own; here they are put side by side, because    *)
(* what they promise is the same.                                          *)
(***************************************************************************)
EXTENDS Console

Config == INSTANCE ConfigPage
Feature == INSTANCE FeaturePage
Targeting == INSTANCE TargetingPage
Platform == INSTANCE PlatformPage
Authorization == INSTANCE AuthorizationPage
Identity == INSTANCE IdentityPage
Mail == INSTANCE MailPage
Telemetry == INSTANCE TelemetryPage
Release == INSTANCE ReleasePage
Analytics == INSTANCE AnalyticsPage
Storage == INSTANCE StoragePage
Audit == INSTANCE AuditPage

EditorPanels == {"config", "feature", "targeting"}
PlatformPanels == {"tenants", "applications", "environments", "memberships"}
AuthorizationPanels == {"permissions", "roles", "bindings", "policies", "simulator"}
IdentityPanels == {"users", "applicationMemberships", "clients", "apiScopes"}
MailPanels == {"accounts", "deliveries"}
TelemetryPanels == {"sources", "settings", "records", "health"}
ReleasePanels == {"channels", "releases", "artifacts", "signingKeys"}
AnalyticsPanels == {"schemas", "writeKeys", "events"}
StoragePanels == {"buckets", "objects"}

InspectorPanels ==
    MailPanels \cup TelemetryPanels \cup ReleasePanels \cup AnalyticsPanels \cup {"audit"}

\* Records that are written once and never changed.
Immutable == {"audit", "events", "records", "health"}

\* Panels that ask for their list after a command that failed, too.
AlwaysRefresh == EditorPanels \cup PlatformPanels \cup AuthorizationPanels \cup IdentityPanels

\* Panels whose copy in hand is always the answer of a command or of a read
\* that was asked for.  On the others a row is also taken in hand as it is in
\* the list, or what is shown is fetched again when SWR sees fit.
FilledFromAnswers == EditorPanels \cup {"accounts", "deliveries"}

-----------------------------------------------------------------------------
Existing == <<[active |-> TRUE, fields |-> 1]>>

Init ==
    /\ history \in [Ids -> {<<>>, Existing}]
    /\ \E p \in Pages, s \in Scopes :
          \/ p = "config" /\ Config!Open(p, s)
          \/ p = "feature" /\ Feature!Open(p, s)
          \/ p = "targeting" /\ Targeting!Open(p, s)
          \/ p \in PlatformPanels /\ Platform!Open(p, s)
          \/ p \in AuthorizationPanels /\ Authorization!Open(p, s)
          \/ p \in IdentityPanels /\ Identity!Open(p, s)
          \/ p \in MailPanels /\ Mail!Open(p, s)
          \/ p \in TelemetryPanels /\ Telemetry!Open(p, s)
          \/ p \in ReleasePanels /\ Release!Open(p, s)
          \/ p \in AnalyticsPanels /\ Analytics!Open(p, s)
          \/ p \in StoragePanels /\ Storage!Open(p, s)
          \/ p = "audit" /\ Audit!Open(p, s)

Handlers ==
    \/ page = "config" /\ Config!Next
    \/ page = "feature" /\ Feature!Next
    \/ page = "targeting" /\ Targeting!Next
    \/ page \in PlatformPanels /\ Platform!Next
    \/ page \in AuthorizationPanels /\ Authorization!Next
    \/ page \in IdentityPanels /\ Identity!Next
    \/ page \in MailPanels /\ Mail!Next
    \/ page \in TelemetryPanels /\ Telemetry!Next
    \/ page \in ReleasePanels /\ Release!Next
    \/ page \in AnalyticsPanels /\ Analytics!Next
    \/ page \in StoragePanels /\ Storage!Next
    \/ page = "audit" /\ Audit!Next

\* What other administrators may do.
Others == IF page \in Immutable THEN {"create"} ELSE {"create", "edit", "archive", "restore"}

Next ==
    \/ Handlers
    \/ \E c \in Calls : Commit(c) \/ Reads(c) \/ Conflict(c) \/ Refuse(c)
    \/ \E id \in Ids : Elsewhere(id, Others)
    \/ Revalidate \/ ListArrives \/ ListFails

Spec == Init /\ [][Next]_vars

-----------------------------------------------------------------------------
Call ==
    [op : Operations, id : Ids, sent : 0 .. MaxVersion, form : 0 .. MaxVersion,
     inHand : BOOLEAN, stage : Stages, ok : BOOLEAN, version : 0 .. MaxVersion]

Copies == [id : Ids, version : 0 .. MaxVersion, form : 0 .. MaxVersion]

Requests == [of : Scopes, seen : [Ids -> 0 .. MaxVersion], by : Calls]

ASSUME RecordsAssumption == None \notin Call \cup Copies \cup Requests

\* Only calls that are under way are waited for.
PendingOK ==
    IF page \notin InspectorPanels \cup StoragePanels
    THEN \/ pending = None
         \/ pending[2] \in Ids /\ \E c \in Calls : calls[c] # None
    ELSE /\ pending.reading \in Ids \cup {None}
         /\ \A waits \in pending.busy : calls[waits.by] # None

\* The state keeps its shape; the page never holds a version of a record that
\* the services have not made, and in an inspector never a record without one.
TypeOK ==
    /\ page \in Pages
    /\ \A id \in Ids : history[id] \in Seq([active : BOOLEAN, fields : Versions])
    /\ scope \in Scopes
    /\ rows \in [Ids -> 0 .. MaxVersion]
    /\ \A id \in Ids : rows[id] <= Version(id)
    /\ loaded \subseteq Scopes /\ failed \subseteq Scopes
    /\ fetch \in Requests \cup {None}
    /\ editor \in Copies \cup {None}
    /\ editor # None => /\ editor.version <= Version(editor.id)
                        /\ editor.form <= Version(editor.id)
                        /\ page \in InspectorPanels => editor.version > 0
    /\ report # None => report.version <= Version(report.id)
    /\ calls \in [Calls -> Call \cup {None}]
    /\ PendingOK
    /\ acked \in [Ids -> 0 .. MaxVersion] /\ told \in [Ids -> 0 .. MaxVersion]
    /\ blind \in BOOLEAN /\ raced \in BOOLEAN
    /\ clicks \in 0 .. MaxClicks

-----------------------------------------------------------------------------
\* What an administrator relies on.  Sessions in which calls overlap are left
\* out where raced is named: see the README for what happens in those.

\* An edit that the services accept replaces content its author was shown:
\* nobody's change is overwritten unseen, however lists, answers and other
\* administrators interleave.  Not so on the pages of the platform, whose
\* forms take the version from the list (see TenantEditsReplaceWhatWasRead),
\* and on that of segments, which keeps the fields when the status changes.
EditsReplaceWhatWasRead == blind => page \in {"targeting"} \cup PlatformPanels

\* The forms of a tenant replace only what their author was shown, as the
\* message of a conflict has it ("This resource changed in another session.
\* Latest data loaded; review it and retry.").
TenantEditsReplaceWhatWasRead == page = "tenants" => ~blind

Quiet == fetch = None /\ \A c \in Calls : calls[c] = None

\* On the panels filled from answers: when nothing is under way, the copy in
\* hand is at least as new as the write the page reported last, and on the
\* pages of entries, flags and segments of the scope that is selected.
EditorShowsOwnWrites ==
    page \in FilledFromAnswers /\ ~raced /\ Quiet /\ InHand =>
        /\ editor.version >= acked[editor.id]
        /\ page \in EditorPanels => ScopeOf[editor.id] = scope

\* When nothing is under way and the list could be fetched, it shows at least
\* the writes the page reported; and on the pages that say "Latest data
\* loaded", at least the changes of others they told of.
QuietListIsAsReported ==
    ~raced /\ Quiet /\ scope \in loaded \ failed =>
        \A id \in Ids : ScopeOf[id] = scope =>
            /\ rows[id] >= acked[id]
            /\ page \in AlwaysRefresh => rows[id] >= told[id]

\* A validation, diff, preview or evaluation that is shown is about the copy
\* in hand or about a newer one, never about one that was replaced.
ResultsAreNotOlder ==
    ~raced /\ report # None /\ page # "targeting" =>
        editor # None /\ editor.id = report.id /\ report.version >= editor.version

\* What publishes a draft release is the draft a validation found valid,
\* although the validation reads whatever draft the service holds.
PublishesWhatWasValidated ==
    page = "releases" =>
        \A c \in Calls :
            calls[c] # None /\ calls[c].stage = "sent" /\ calls[c].op = "archive" /\ Accepts(calls[c])
                => calls[c].form = calls[c].sent
=============================================================================
