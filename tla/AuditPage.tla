----------------------------- MODULE AuditPage -----------------------------
(***************************************************************************)
(* The page of the audit trail: a list that is filtered and paged, and the *)
(* detail of one event.  A scope is here one setting of the filters        *)
(* together with the page of the list that was reached.  An event belongs  *)
(* to one scope; one that several settings list is there as a record for   *)
(* each, for events are never changed and so cannot get out of step.       *)
(***************************************************************************)
EXTENDS Inspectors

\* The page opens with nothing under way.
Open(p, s) == Opened(p, s) /\ pending = NotBusy

-----------------------------------------------------------------------------
\* The commands.  An event is read by its id, whatever the filters are.

ListAuditEvents == Displayed
GetAuditEvent(c, id) == Ask(c, "get", id, 0, 0)
ExportAuditEvents(c) == Look(c)

-----------------------------------------------------------------------------
\* The filters and the pages.

\* applyFilters and clearFilters let the event in hand go, and not the answer
\* of a showDetail that is still to come, whatever the filters were before.
ApplyFilters(s) == ChooseList(s)

\* Previous and Next leave the event in hand.
TurnPage(s) == SelectScope(s)

\* The other events of the same request: this one stays in hand.
Correlate(s) == InHand /\ SelectScope(s)

-----------------------------------------------------------------------------
\* The events.  While one is read no other can be asked for.

Viewable == {id \in ListAuditEvents : pending.reading = None}

ShowDetail(c) ==
    \E id \in Viewable :
        /\ GetAuditEvent(c, id)
        /\ pending' = [pending EXCEPT !.reading = id]
        /\ UNCHANGED copies

\* The answer is taken in hand; after an error the event before it stays.
DetailShown(c) == ReadingOver(c, pending.busy)

Exportable == Free(Card("export"))

DownloadExport(c) ==
    /\ Exportable
    /\ ExportAuditEvents(c)
    /\ Performs(c, Card("export"))

ExportOver(c) == LookOver(c)

Next ==
    \/ \E s \in Scopes : ApplyFilters(s) \/ TurnPage(s) \/ Correlate(s)
    \/ \E c \in Calls : ShowDetail(c) \/ DetailShown(c) \/ DownloadExport(c) \/ ExportOver(c)
=============================================================================
