--------------------------- MODULE AnalyticsPage ---------------------------
(***************************************************************************)
(* The pages of analytics: event schemas and write keys, and the events    *)
(* that were received, which are never changed.                            *)
(***************************************************************************)
EXTENDS Inspectors

\* The page opens with nothing under way.
Open(p, s) == Opened(p, s) /\ pending = NotBusy

-----------------------------------------------------------------------------
\* The commands.

ListAnalyticsSchemas == Listed
GetAnalyticsSchema(c, id) == Reading(c, id)
CreateAnalyticsSchema(c, id) == Ask(c, "create", id, 0, 0)
UpdateAnalyticsSchema(c, schema) == Ask(c, "edit", schema.id, schema.version, schema.form)
UpdateAnalyticsRetention(c, schema) ==
    Ask(c, "touch", schema.id, schema.version, schema.form)
ArchiveAnalyticsSchema(c, schema) == Ask(c, "archive", schema.id, schema.version, 0)
RestoreAnalyticsSchema(c, schema) == Ask(c, "restore", schema.id, schema.version, 0)
ListAnalyticsWriteKeys == Listed
CreateAnalyticsWriteKey(c, id) == Ask(c, "create", id, 0, 0)
RotateAnalyticsWriteKey(c, key) == Ask(c, "act", key.id, key.version, 0)
RevokeAnalyticsWriteKey(c, key) == Ask(c, "archive", key.id, key.version, 0)
ListAnalyticsEvents == Listed
GetAnalyticsEvent(c, id) == Reading(c, id)
QueryAnalytics(c) == Look(c)
ExportAnalyticsEvents(c) == Look(c)

-----------------------------------------------------------------------------
\* Schemas.

SchemaList(c) ==
    \E id \in ListAnalyticsSchemas :
        \/ Choose(id)
        \/ ReadFree(id) /\ GetAnalyticsSchema(c, id)

SubmitSchema(c) ==
    /\ Free(Card("create"))
    /\ \E id \in Fresh : CreateAnalyticsSchema(c, id) /\ Performs(c, Card("create"))

\* The retention may be changed whether the schema is active or not.
SchemaInspector(c) ==
    /\ InHand
    /\ Free(editor)
    /\ \/ IsActive(editor.id, editor.version) /\ UpdateAnalyticsSchema(c, editor)
       \/ IsActive(editor.id, editor.version) /\ ArchiveAnalyticsSchema(c, editor)
       \/ ~IsActive(editor.id, editor.version) /\ RestoreAnalyticsSchema(c, editor)
       \/ UpdateAnalyticsRetention(c, editor)
    /\ Performs(c, editor)

SchemasPanel(c) ==
    /\ page = "schemas"
    /\ \/ SchemaList(c) \/ SubmitSchema(c) \/ SchemaInspector(c)
       \/ Changed(c, StillBusy(calls[c].id, calls[c].version))
       \/ ReadingOver(c, StillBusy(calls[c].id, calls[c].version))

-----------------------------------------------------------------------------
\* Write keys: rows and a form, and one mark for all of them.  A key that was
\* revoked stays revoked.

CreateKey(c) ==
    /\ pending.busy = {}
    /\ \E id \in Fresh : CreateAnalyticsWriteKey(c, id) /\ Performs(c, Card("create"))

PerformKey(c) ==
    /\ pending.busy = {}
    /\ \E id \in ListAnalyticsWriteKeys :
          /\ IsActive(id, rows[id])
          /\ RotateAnalyticsWriteKey(c, Row(id)) \/ RevokeAnalyticsWriteKey(c, Row(id))
          /\ Performs(c, Card("keys"))

\* (As it would be if the list were not asked for again.)
KeyChangedAlone(c) ==
    /\ Answered(c, Writes)
    /\ calls[c].ok
    /\ calls' = [calls EXCEPT ![c].stage = "refreshing"]
    /\ UNCHANGED <<page, services, scope, cache, copies, pending, acked, told, clicks, raced>>

KeyChanged(c) == Answered(c, Writes) /\ calls[c].ok /\ Refresh(c)

WriteKeysCard(c) == page = "writeKeys" /\ (CreateKey(c) \/ PerformKey(c) \/ KeyChanged(c))

-----------------------------------------------------------------------------
\* Events.  The filters are no scope of their own here: those applied let the
\* event in hand go.

EventStream(c) ==
    \E id \in ListAnalyticsEvents :
        \/ Choose(id)
        \/ ReadFree(id) /\ GetAnalyticsEvent(c, id)

QueryCard(c) == Free(Card("query")) /\ QueryAnalytics(c) /\ Performs(c, Card("query"))

ExportCard(c) == Free(Card("export")) /\ ExportAnalyticsEvents(c) /\ Performs(c, Card("export"))

ExplorerPanel(c) ==
    /\ page = "events"
    /\ \/ EventStream(c) \/ QueryCard(c) \/ ExportCard(c)
       \/ LookOver(c) \/ ReadingOver(c, pending.busy)

ApplyFilters == page = "events" /\ LetGo

Next ==
    \/ \E s \in Scopes : SelectScope(s)
    \/ ApplyFilters
    \/ \E c \in Calls :
          \/ SchemasPanel(c) \/ WriteKeysCard(c) \/ ExplorerPanel(c)
          \/ page # "events" /\ Done(c)
=============================================================================
