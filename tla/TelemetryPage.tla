--------------------------- MODULE TelemetryPage ---------------------------
(***************************************************************************)
(* The pages of telemetry: the sources and the settings of an environment, *)
(* the records that were received, which are never changed, and the errors *)
(* among them.                                                             *)
(***************************************************************************)
EXTENDS Inspectors

\* The page opens with nothing under way.
Open(p, s) == Opened(p, s) /\ pending = NotBusy

-----------------------------------------------------------------------------
\* The commands.

ListTelemetrySources == Listed
GetTelemetrySource(c, id) == Reading(c, id)
CreateTelemetrySource(c, id) == Ask(c, "create", id, 0, 0)
UpdateTelemetrySource(c, source) == Ask(c, "edit", source.id, source.version, source.form)
ArchiveTelemetrySource(c, source) == Ask(c, "archive", source.id, source.version, 0)
RestoreTelemetrySource(c, source) == Ask(c, "restore", source.id, source.version, 0)
\* The first update is one of the defaults, which have version 0.
UpdateTelemetrySettings(c, settings) ==
    Ask(c, "set", settings.id, settings.version, settings.form)
ListTelemetryRecords == Listed
GetTelemetryDiagnosticLink(c) == Look(c)

-----------------------------------------------------------------------------
\* Sources.

\* The card stands in the inspector's place until a source is in hand: it is
\* another card then.
Waiting(id, version) == IF editor = None THEN {} ELSE StillBusy(id, version)

ChooseSource(id) ==
    /\ TakeInHand(id, rows[id])
    /\ pending' = [pending EXCEPT !.busy = Waiting(id, rows[id])]
    /\ UNCHANGED <<page, services, scope, cache, calls, acked, told, clicks, raced>>

SourceList(c) ==
    \E id \in ListTelemetrySources :
        \/ ChooseSource(id)
        \/ ReadFree(id) /\ GetTelemetrySource(c, id)

SubmitSource(c) ==
    /\ Free(Card("create"))
    /\ \E id \in Fresh : CreateTelemetrySource(c, id) /\ Performs(c, Card("create"))

SourceInspector(c) ==
    /\ InHand
    /\ Free(editor)
    /\ \/ IsActive(editor.id, editor.version) /\ UpdateTelemetrySource(c, editor)
       \/ IsActive(editor.id, editor.version) /\ ArchiveTelemetrySource(c, editor)
       \/ ~IsActive(editor.id, editor.version) /\ RestoreTelemetrySource(c, editor)
    /\ Performs(c, editor)

SourceChanged(c) == Changed(c, Waiting(calls[c].id, calls[c].version))

SourceRead(c) == ReadingOver(c, Waiting(calls[c].id, calls[c].version))

SourcesPanel(c) ==
    /\ page = "sources"
    /\ \/ SourceList(c) \/ SubmitSource(c) \/ SourceInspector(c)
       \/ SourceChanged(c) \/ Done(c) \/ SourceRead(c)

-----------------------------------------------------------------------------
\* Settings: one record, the cache's own, with a card per version of it.

Settings == {id \in Ids : ScopeOf[id] = scope /\ scope \in loaded}

SubmitSettings(c) ==
    \E id \in Settings :
        /\ Free(Row(id))
        /\ UpdateTelemetrySettings(c, Row(id))
        /\ Performs(c, Row(id))

\* The answer is put into the cache, and a request under way is dropped.
SettingsChanged(c) ==
    /\ Answered(c, Writes)
    /\ Return(c)
    /\ pending' = [pending EXCEPT !.busy = Without(c, @)]
    /\ IF calls[c].ok
       THEN /\ rows' = [rows EXCEPT ![calls[c].id] = calls[c].version]
            /\ fetch' = None
            /\ UNCHANGED <<loaded, failed>>
       ELSE UNCHANGED cache
    /\ UNCHANGED copies

SettingsCard(c) == page = "settings" /\ (SubmitSettings(c) \/ SettingsChanged(c))

-----------------------------------------------------------------------------
\* Records, and the errors beside the card that asks for a diagnostic link.
\* A signal, a query and a page choose a list as an environment does.

ChooseRecord == \E id \in ListTelemetryRecords : Choose(id)

QueryRecords(s) == ChooseList(s)

RecordsPanel == page = "records" /\ (ChooseRecord \/ \E s \in Scopes : QueryRecords(s))

DiagnosticLinkCard(c) ==
    /\ Free(Card("link"))
    /\ GetTelemetryDiagnosticLink(c)
    /\ Performs(c, Card("link"))

HealthPanel(c) == page = "health" /\ (DiagnosticLinkCard(c) \/ LookOver(c))

Next ==
    \/ \E s \in Scopes : SelectScope(s)
    \/ RecordsPanel
    \/ \E c \in Calls : SourcesPanel(c) \/ SettingsCard(c) \/ HealthPanel(c)
=============================================================================
