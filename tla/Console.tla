------------------------------ MODULE Console ------------------------------
(***************************************************************************)
(* What every page of the web console is made of: the commands it sends to *)
(* the management services and the answers that come back whenever they    *)
(* do, the list a page shows from the SWR cache, the copy of one record    *)
(* that the page has in hand, and other administrators who change the same *)
(* records.  The modules <Page>Page extend this one, each with the         *)
(* handlers of one page.                                                   *)
(*                                                                         *)
(* The services answer every write with the record's next version, so a    *)
(* copy of a record is known by the record's id and its version.           *)
(***************************************************************************)
EXTENDS Integers, Sequences, FiniteSets

CONSTANTS Pages,      \* pages the administrator may have open
          Ids,        \* records
          Scopes,     \* what the selectors choose: tenant, application, environment
          ScopeOf,    \* the scope each record lives in
          Calls,      \* commands and reads in flight at a time
          MaxVersion, \* bound: versions of a record
          MaxClicks,  \* bound: commands, reads and selections of the administrator
          None

ASSUME ScopesAssumption == ScopeOf \in [Ids -> Scopes]
ASSUME VersionsAssumption == MaxVersion \in Nat \ {0}
ASSUME ClicksAssumption == MaxClicks \in Nat
ASSUME IdsAssumption == Ids # {}
ASSUME NoneAssumption == None \notin Calls

VARIABLES
    page,    \* the page that is open
    history, \* services: the versions of each record, the last one current
    scope,   \* the scope selected
    rows,    \* SWR cache: version of each record in the list of its scope
    loaded,  \* scopes whose list the cache holds
    fetch,   \* the list request of a handler under way, or None
    failed,  \* scopes whose list a handler could not refresh since
    editor,  \* the copy in hand and the version its fields were filled from
    report,  \* the copy the validation or simulation result shown is about
    pending, \* what the page marks as under way, if anything: its buttons look at it
    calls,   \* commands and reads in flight
    acked,   \* newest version of each record the page reported as its own write
    told,    \* newest version of each record the page told of as someone else's
    blind,   \* an edit replaced content its author had never been shown
    clicks,  \* commands, reads and selections so far
    raced    \* calls overlapped, the scope changed under one, or one was
             \* about a record of another scope

services == <<history, blind>>
cache == <<rows, loaded, fetch, failed>>
copies == <<editor, report>>
vars == <<page, services, scope, cache, copies, pending, calls, acked, told, clicks, raced>>

Versions == 1 .. MaxVersion
Writes == {"create", "send", "edit", "set", "archive", "restore", "act", "touch"}
Operations == Writes \cup {"get", "miss", "read", "look"}
Stages == {"sent", "answered", "refreshing"}

Version(id) == Len(history[id])

\* The version that wrote the fields of a copy: archiving and publishing make
\* a new version and leave them alone.
Fields(id, version) == history[id][version].fields
IsActive(id, version) == history[id][version].active

-----------------------------------------------------------------------------
\* The services.  A write names the version it was decided on.

\* The version a write appends, in terms of what the call asks for.
Written(call) ==
    LET next == Version(call.id) + 1 IN
    CASE call.op = "archive" -> [active |-> FALSE, fields |-> Fields(call.id, call.sent)]
      [] call.op = "restore" -> [active |-> TRUE, fields |-> Fields(call.id, call.sent)]
      [] call.op = "act" -> [active |-> TRUE, fields |-> Fields(call.id, call.sent)]
      [] call.op = "touch" -> [active |-> IsActive(call.id, call.sent),
                               fields |-> Fields(call.id, call.sent)]
      [] OTHER -> [active |-> TRUE, fields |-> next]

Accepts(call) ==
    /\ Version(call.id) < MaxVersion
    /\ call.sent = Version(call.id)
    /\ \/ call.op \in {"create", "send"} /\ call.sent = 0
       \/ call.op = "set"
       \/ call.op = "touch" /\ call.sent > 0
       \/ call.op \in {"edit", "archive", "act"} /\ call.sent > 0 /\ IsActive(call.id, call.sent)
       \/ call.op = "restore" /\ call.sent > 0 /\ ~IsActive(call.id, call.sent)

Answer(c, ok, version) ==
    calls' = [calls EXCEPT ![c].stage = "answered", ![c].ok = ok, ![c].version = version]

\* A write is accepted; its answer may be lost on the way back.
Commit(c) ==
    LET call == calls[c] IN
    /\ call # None
    /\ call.stage = "sent"
    /\ Accepts(call)
    /\ history' = [history EXCEPT ![call.id] = Append(@, Written(call))]
    /\ blind' = (blind \/ /\ call.op \in {"edit", "set"}
                          /\ call.sent > 0
                          /\ \/ call.form = 0
                             \/ Fields(call.id, call.form) # Fields(call.id, call.sent))
    /\ \/ Answer(c, TRUE, Version(call.id) + 1)
       \/ Answer(c, FALSE, 0)
    /\ UNCHANGED <<page, scope, cache, copies, pending, acked, told, clicks, raced>>

\* A read is answered from the current version, whatever copy it was asked
\* for; and so is a message that was sent before under the same id.
Reads(c) ==
    /\ calls[c] # None
    /\ calls[c].stage = "sent"
    /\ \/ calls[c].op \in {"get", "read", "look"}
       \/ calls[c].op = "send" /\ Version(calls[c].id) > 0
    /\ Answer(c, TRUE, Version(calls[c].id))
    /\ UNCHANGED <<page, services, scope, cache, copies, pending, acked, told, clicks, raced>>

\* A write named an older version: the answer says that the record changed.
Conflicts(call) == call.op \in Writes \ {"create", "send"} /\ call.sent # Version(call.id)

Conflict(c) ==
    /\ calls[c] # None
    /\ calls[c].stage = "sent"
    /\ Conflicts(calls[c])
    /\ Answer(c, FALSE, Version(calls[c].id))
    /\ UNCHANGED <<page, services, scope, cache, copies, pending, acked, told, clicks, raced>>

\* A request is refused for another reason, or never arrives.
Refuse(c) ==
    /\ calls[c] # None
    /\ calls[c].stage = "sent"
    /\ Answer(c, FALSE, 0)
    /\ UNCHANGED <<page, services, scope, cache, copies, pending, acked, told, clicks, raced>>

\* Another administrator creates, edits, archives or restores the record.
Elsewhere(id, commands) ==
    /\ Version(id) < MaxVersion
    /\ \E op \in commands :
          LET call == [op |-> op, id |-> id, sent |-> Version(id)] IN
          /\ (op = "create") = (Version(id) = 0)
          /\ Accepts(call)
          /\ history' = [history EXCEPT ![id] = Append(@, Written(call))]
    /\ UNCHANGED <<page, blind, scope, cache, copies, pending, calls, acked, told, clicks, raced>>

-----------------------------------------------------------------------------
\* The list: one SWR entry per scope, keepPreviousData.

\* The rows shown: those of the scope selected, or of one left while its list
\* has not arrived.
Displayed ==
    LET shown == IF scope \in loaded THEN {scope} ELSE loaded
    IN {id \in Ids : rows[id] > 0 /\ ScopeOf[id] \in shown}

\* The rows of a list that is not shown while another scope's is awaited.
Listed == {id \in Displayed : ScopeOf[id] = scope}

\* A list of scope s arrives that was read when the versions were these.
Show(s, versions) ==
    /\ rows' = [id \in Ids |-> IF ScopeOf[id] = s THEN versions[id] ELSE rows[id]]
    /\ loaded' = loaded \cup {s}
    /\ failed' = failed \ {s}

\* The list is asked for on its own: the page opens, the scope changed, the
\* window gets the focus, the network is back.  Its answer joins the request
\* of a handler; whether and when there is one (a list asked for less than two
\* seconds ago is not) the page cannot tell, and a failure leaves the rows.
Revalidate ==
    /\ ~(fetch # None /\ fetch.of = scope)
    /\ Show(scope, [id \in Ids |-> Version(id)])
    /\ UNCHANGED <<page, services, scope, fetch, copies, pending, calls, acked, told, clicks, raced>>

\* mutate(): a request of its own, whose answer replaces that of any older one.
Mutate(c) == fetch' = [of |-> scope, seen |-> [id \in Ids |-> Version(id)], by |-> c]

\* Is the request that handler c awaits still under way?
Awaits(c) == fetch # None /\ fetch.by = c

ListArrives ==
    /\ fetch # None
    /\ Show(fetch.of, fetch.seen)
    /\ fetch' = None
    /\ UNCHANGED <<page, services, scope, copies, pending, calls, acked, told, clicks, raced>>

\* The old rows stay.
ListFails ==
    /\ fetch # None
    /\ failed' = failed \cup {fetch.of}
    /\ fetch' = None
    /\ UNCHANGED <<page, services, scope, rows, loaded, copies, pending, calls, acked, told,
                   clicks, raced>>

Click == clicks < MaxClicks /\ clicks' = clicks + 1

\* A session in which calls overlap is followed on, but what its list and its
\* editor ought to show is no longer kept account of.
Nothing == [id \in Ids |-> 0]
Races(here) ==
    /\ raced' = (raced \/ here)
    /\ IF raced' THEN acked' = Nothing /\ told' = Nothing
                 ELSE UNCHANGED <<acked, told>>

\* Another scope is selected.
Select(s) ==
    /\ s # scope
    /\ Click
    /\ scope' = s
    /\ Races(\E c \in Calls : calls[c] # None)
    /\ UNCHANGED <<page, services, cache, calls>>

-----------------------------------------------------------------------------
\* What the handlers are made of.

\* A copy is in hand.  (The targeting page keeps the fields of one it let go.)
InHand == editor # None /\ editor.version > 0

Copy(id, version) == [id |-> id, version |-> version, form |-> version]

\* A command or read is sent: the version it names and the one the fields it
\* carries were filled from.  The handler goes on with the page as it was at
\* the click: it remembers whether the record was in hand.
Ask(c, op, id, version, form) ==
    /\ calls[c] = None
    /\ Click
    /\ calls' = [calls EXCEPT ![c] =
                    [op |-> op, id |-> id, sent |-> version, form |-> form,
                     inHand |-> /\ op \in {"archive", "restore"}
                                /\ InHand
                                /\ editor.id = id,
                     stage |-> "sent", ok |-> FALSE, version |-> 0]]
    /\ Races((op # "look" /\ ScopeOf[id] # scope) \/ \E d \in Calls : calls[d] # None)
    /\ UNCHANGED <<page, services, scope, cache>>

\* A read of a record by id in the scope selected, not in that of the row.
AskFor(c, id) == Ask(c, IF ScopeOf[id] = scope THEN "get" ELSE "miss", id, 0, 0)

\* A read that is about no record: what it answers is shown and nothing else.
Something == CHOOSE id \in Ids : TRUE
Look(c) == Ask(c, "look", Something, 0, 0)

\* The page marks itself busy with something and leaves the rest as it is.
Busy(key, id) == pending' = <<key, id>> /\ UNCHANGED copies
Idle == pending = None

\* The answer of call c, of one of these kinds, is there.
Answered(c, ops) == calls[c] # None /\ calls[c].stage = "answered" /\ calls[c].op \in ops

\* The handler asks for the list again and waits for it before it goes on.
AskForList(c) ==
    /\ Mutate(c)
    /\ calls' = [calls EXCEPT ![c].stage = "refreshing"]
    /\ UNCHANGED <<page, services, scope, rows, loaded, failed, acked, told, clicks, raced>>
Refresh(c) == AskForList(c) /\ UNCHANGED <<copies, pending>>
Refreshed(c) == calls[c] # None /\ calls[c].stage = "refreshing" /\ ~Awaits(c)

\* The handler returns; it has reported its success or the conflict.
Return(c) ==
    /\ calls' = [calls EXCEPT ![c] = None]
    /\ acked' = IF ~raced /\ calls[c].ok /\ calls[c].op \in Writes
                THEN [acked EXCEPT ![calls[c].id] = calls[c].version]
                ELSE acked
    /\ told' = IF ~raced /\ ~calls[c].ok /\ calls[c].version > 0
               THEN [told EXCEPT ![calls[c].id] = calls[c].version]
               ELSE told
    /\ UNCHANGED <<page, services, scope, clicks, raced>>

\* The page opens on one scope and asks for its list, with nothing under way.
Opened(p, s) ==
    /\ page = p
    /\ scope = s
    /\ rows = Nothing
    /\ loaded = {}
    /\ fetch = None
    /\ failed = {}
    /\ editor = None
    /\ report = None
    /\ calls = [c \in Calls |-> None]
    /\ acked = Nothing
    /\ told = Nothing
    /\ blind = FALSE
    /\ clicks = 0
    /\ raced = FALSE
=============================================================================
