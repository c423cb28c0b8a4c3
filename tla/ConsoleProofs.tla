---------------------------- MODULE ConsoleProofs ----------------------------
(***************************************************************************)
(* Safety of the console's pages for any set of records, scopes and calls, *)
(* any number of versions and of clicks: the invariant IInv, that every    *)
(* step of every page keeps it, and what follows from it.                  *)
(*                                                                         *)
(* A page's handlers all do a few things only: they send a call, ask for   *)
(* the list, return, take a copy in hand or let it go.  So the proof has   *)
(* three layers.  The first says what the operators of Console do to the   *)
(* calls, field by field.  The second has one lemma for each thing that a  *)
(* handler does, under the conditions that the pages meet: SentKeepsIInv,  *)
(* AskedKeepsIInv, OverKeepsIInv, TurnKeepsIInv, SelectKeepsIInv, and one  *)
(* for each step of the services and of the list.  The third shows, page   *)
(* by page and action by action, that the handlers meet the conditions.    *)
(* A page's module is an instance of its own, so its copies of Console's   *)
(* operators are first shown to be those of Console (<Page>IsConsole).     *)
(***************************************************************************)
EXTENDS ConsolePages, Inspectors, TLAPS

\* Call c is under way.
Flying(c) == calls[c] # None

\* Pages whose pending is a record of who waits.
Waited == InspectorPanels \cup StoragePanels

\* Pages whose forms may carry other fields than those of the version named.
Loose == {"targeting"} \cup PlatformPanels

\* What the page knows of a record it listed, once it may be shown.
Up(id, version) ==
    /\ version >= acked[id]
    /\ page \in AlwaysRefresh => version >= told[id]

-----------------------------------------------------------------------------
\* The services' versions are numbered from 1 and stay within the bound.
HistoryInv ==
    /\ history \in [Ids -> Seq([active : BOOLEAN, fields : Versions])]
    /\ \A id \in Ids : Version(id) \in 0 .. MaxVersion

\* No list has a version of a record that the services have not made.
ListTypeInv ==
    /\ scope \in Scopes
    /\ rows \in [Ids -> 0 .. MaxVersion]
    /\ \A id \in Ids : rows[id] <= Version(id)
    /\ loaded \subseteq Scopes
    /\ failed \subseteq Scopes
    /\ fetch \in Requests \cup {None}
    /\ fetch # None => \A id \in Ids : fetch.seen[id] <= Version(id)

\* Nor has the copy in hand, and its fields come from no later version.
EditorTypeInv ==
    /\ editor \in Copies \cup {None}
    /\ editor # None => /\ editor.version <= Version(editor.id)
                        /\ editor.form <= Version(editor.id)
                        /\ page \in InspectorPanels => editor.version > 0

\* Nor has the result shown.
ReportTypeInv ==
    report # None => /\ report \in [id : Ids, version : 0 .. MaxVersion]
                     /\ report.version <= Version(report.id)

CallTypeInv == calls \in [Calls -> Call \cup {None}]

AccountTypeInv ==
    /\ acked \in [Ids -> 0 .. MaxVersion]
    /\ told \in [Ids -> 0 .. MaxVersion]
    /\ \A id \in Ids : acked[id] <= Version(id) /\ told[id] <= Version(id)
    /\ raced \in BOOLEAN
    /\ clicks \in 0 .. MaxClicks
    /\ page \in Pages

\* Who waits, waits for a call that is under way; the reading of a row makes
\* nobody wait, but the rollback of a release does, whose read names a version.
PendingInv ==
    IF page \in Waited
    THEN /\ {"reading", "busy"} \subseteq DOMAIN pending
         /\ pending.reading \in Ids \cup {None}
         /\ \A waits \in pending.busy :
               /\ waits.by \in Calls
               /\ Flying(waits.by)
               /\ calls[waits.by].op \in {"get", "miss"} => calls[waits.by].sent > 0
         /\ page = "objects" =>
               /\ "upload" \in DOMAIN pending
               /\ pending.upload \in Copies \cup {None}
    ELSE pending # None => pending[2] \in Ids /\ \E c \in Calls : Flying(c)

\* What a call under way has been answered: nothing yet while it is sent, a
\* version that there is when it is a success, none when it is a failed read.
\* A list is asked for after writes alone, in an inspector after those that
\* succeeded.
CallOK(c) ==
    /\ calls[c].stage = "sent" => calls[c].version = 0 /\ ~calls[c].ok
    /\ calls[c].version <= Version(calls[c].id)
    /\ calls[c].ok /\ calls[c].op \in Writes \cup {"get"} => calls[c].version > 0
    /\ calls[c].op = "get" => Version(calls[c].id) > 0
    /\ calls[c].op = "miss" => ~calls[c].ok
    /\ ~calls[c].ok /\ calls[c].op \notin Writes => calls[c].version = 0
    /\ calls[c].stage = "refreshing" => calls[c].op \in Writes
    /\ calls[c].stage = "refreshing" /\ page \in Waited => calls[c].ok
    /\ calls[c].op \in {"get", "miss"} /\ page # "releases" => calls[c].sent = 0
    /\ calls[c].inHand /\ page = "targeting" => editor # None

CallInv == \A c \in Calls : Flying(c) => CallOK(c)

\* A form is filled from the version its copy names, and a command carries the
\* form of the version it names, but on the pages of the platform and of
\* segments; so nothing is replaced blindly on any other.
FormInv ==
    /\ editor # None /\ page # "targeting" => editor.form = editor.version
    /\ \A c \in Calls :
          Flying(c) /\ calls[c].op \in {"edit", "set"} /\ page \notin Loose
              => calls[c].form = calls[c].sent
    /\ blind \in BOOLEAN
    /\ blind => page \in Loose

\* The result shown is about the copy in hand, at its version or a later one.
ReportFits == report # None => /\ editor # None
                                 /\ editor.id = report.id
                                 /\ report.version >= editor.version

\* A read whose result would be shown is about the copy in hand, and its answer
\* is not older than that copy.
AsksAbout(c) ==
    calls[c].op = "read" =>
        /\ editor # None
        /\ editor.id = calls[c].id
        /\ calls[c].stage = "answered" /\ calls[c].ok => calls[c].version >= editor.version

\* A waiter on the page of releases: a card, or the inspector of the copy in hand.
WaiterOK(waits) ==
    \/ waits.of.version = 0 /\ calls[waits.by].op # "read"
    \/ editor # None /\ waits.of = editor /\ AsksAbout(waits.by)

\* A command that publishes a draft carries a version the validation saw, not
\* older than the version it names and not newer than the services' last.
PublishOK(c) ==
    calls[c].op = "archive" => /\ calls[c].form >= calls[c].sent
                               /\ calls[c].form <= Version(calls[c].id)

ReportInv ==
    /\ page \notin {"config", "feature", "targeting", "releases"} => report = None
    /\ page \in {"config", "feature"} /\ ~raced =>
          ReportFits /\ \A c \in Calls : Flying(c) => AsksAbout(c)
    /\ page = "releases" =>
          /\ ReportFits
          /\ \A waits \in pending.busy : WaiterOK(waits)
          /\ \A c \in Calls : Flying(c) => PublishOK(c)

\* While calls do not overlap there is one at most, it is about a record of the
\* scope selected, and its answer is not older than what the page reported.
OneCallInv ==
    ~raced =>
        /\ \A c, d \in Calls : Flying(c) /\ Flying(d) => c = d
        /\ \A c \in Calls : Flying(c) /\ calls[c].op # "look" => ScopeOf[calls[c].id] = scope
        /\ \A c \in Calls :
              Flying(c) /\ calls[c].stage # "sent" /\ (calls[c].ok \/ calls[c].version > 0)
                  => /\ calls[c].op # "look" => calls[c].version >= acked[calls[c].id]
                     /\ calls[c].op # "look" => calls[c].version >= told[calls[c].id]

\* While calls do not overlap the copy in hand has what the page reported, is
\* of the scope selected, and is not left behind by the handler under way.
EditorInv ==
    ~raced /\ page \in FilledFromAnswers =>
        /\ InHand => editor.version >= acked[editor.id]
        /\ InHand /\ page \in EditorPanels => ScopeOf[editor.id] = scope
        /\ \A c \in Calls : Flying(c) =>
              /\ calls[c].stage = "refreshing" /\ page \in {"deliveries"} =>
                    /\ editor # None
                    /\ editor.id = calls[c].id
                    /\ editor.version = calls[c].version
              /\ calls[c].op \in {"archive", "restore"} /\ ~calls[c].inHand /\ page \in EditorPanels =>
                    ~(InHand /\ editor.id = calls[c].id)

\* A list that is shown has what the page reported.
ListedUp == \A s \in loaded \ failed, id \in Ids : ScopeOf[id] = s => Up(id, rows[id])

\* A list that is under way will have it, and what its handler is to report.
FetchOK ==
    fetch # None =>
        /\ fetch.of = scope
        /\ \A id \in Ids : Up(id, fetch.seen[id])
        /\ Flying(fetch.by)
        /\ calls[fetch.by].stage = "refreshing"
        /\ fetch.seen[calls[fetch.by].id] >= calls[fetch.by].version

\* A list that is there has what the handler that asked for it is to report.
CaughtUp(c) ==
    calls[c].stage = "refreshing" /\ fetch = None /\ scope \in loaded \ failed
        => rows[calls[c].id] >= calls[c].version

ListInv ==
    ~raced => ListedUp /\ FetchOK /\ \A c \in Calls : Flying(c) => CaughtUp(c)

IInv ==
    /\ HistoryInv /\ ListTypeInv /\ EditorTypeInv /\ ReportTypeInv /\ CallTypeInv
    /\ AccountTypeInv /\ PendingInv /\ CallInv /\ FormInv /\ ReportInv /\ OneCallInv
    /\ EditorInv /\ ListInv

-----------------------------------------------------------------------------
(***************************************************************************)
(* What the steps of the module Console do to the calls, field by field.   *)
(***************************************************************************)

\* No call but c changes.
Alone(c) == \A d \in Calls \ {c} : calls'[d] = calls[d]

SameRequest(c) ==
    /\ calls'[c] # None
    /\ calls'[c].op = calls[c].op
    /\ calls'[c].id = calls[c].id
    /\ calls'[c].sent = calls[c].sent
    /\ calls'[c].form = calls[c].form
    /\ calls'[c].inHand = calls[c].inHand

\* The accounts while calls may overlap.
Raced(here) ==
    /\ raced' \in BOOLEAN
    /\ ~raced' <=> ~raced /\ ~here
    /\ raced' => acked' = Nothing /\ told' = Nothing
    /\ ~raced' => acked' = acked /\ told' = told

Sent(c, op, id, sent, form) ==
    /\ calls[c] = None
    /\ calls'[c] # None
    /\ calls'[c].op = op
    /\ calls'[c].id = id
    /\ calls'[c].sent = sent
    /\ calls'[c].form = form
    /\ calls'[c].inHand <=> op \in {"archive", "restore"} /\ InHand /\ editor.id = id
    /\ calls'[c].stage = "sent"
    /\ ~calls'[c].ok
    /\ calls'[c].version = 0
    /\ Alone(c)
    /\ CallTypeInv'
    /\ clicks' \in 0 .. MaxClicks
    /\ Raced((op # "look" /\ ScopeOf[id] # scope) \/ \E d \in Calls : Flying(d))
    /\ UNCHANGED <<page, services, scope, cache>>

\* A field of a call that is under way.
LEMMA CallFields ==
    ASSUME CallTypeInv, NEW c \in Calls, Flying(c)
    PROVE  /\ calls[c] \in Call
           /\ calls[c].op \in Operations /\ calls[c].id \in Ids
           /\ calls[c].sent \in 0 .. MaxVersion /\ calls[c].form \in 0 .. MaxVersion
           /\ calls[c].inHand \in BOOLEAN /\ calls[c].stage \in Stages
           /\ calls[c].ok \in BOOLEAN /\ calls[c].version \in 0 .. MaxVersion
BY DEF CallTypeInv, Flying, Call

LEMMA CallTypeStep ==
    ASSUME CallTypeInv, NEW c \in Calls, NEW new \in Call, calls' = [calls EXCEPT ![c] = new]
    PROVE  CallTypeInv' /\ Alone(c) /\ calls'[c] = new /\ calls'[c] # None
BY RecordsAssumption DEF CallTypeInv, Alone

LEMMA RacesFields ==
    ASSUME raced \in BOOLEAN, NEW here \in BOOLEAN, Races(here)
    PROVE  Raced(here)
BY DEF Races, Raced

LEMMA AskSends ==
    ASSUME CallTypeInv, AccountTypeInv, NEW c \in Calls,
           NEW op \in Operations, NEW id \in Ids,
           NEW sent \in 0 .. MaxVersion, NEW form \in 0 .. MaxVersion,
           Ask(c, op, id, sent, form)
    PROVE  Sent(c, op, id, sent, form)
<1> DEFINE held == op \in {"archive", "restore"} /\ InHand /\ editor.id = id
           new == [op |-> op, id |-> id, sent |-> sent, form |-> form, inHand |-> held,
                   stage |-> "sent", ok |-> FALSE, version |-> 0]
           here == (op # "look" /\ ScopeOf[id] # scope) \/ \E d \in Calls : Flying(d)
<1>1. held \in BOOLEAN /\ here \in BOOLEAN
  OBVIOUS
<1>2. calls' = [calls EXCEPT ![c] = new] /\ calls[c] = None
  BY DEF Ask
<1>3. new \in Call
  BY <1>1, VersionsAssumption DEF Call, Stages
<1>4. Races(here)
  BY DEF Ask, Flying
<1>5. Raced(here)
  BY <1>1, <1>4, RacesFields DEF AccountTypeInv
<1>6. CallTypeInv' /\ Alone(c) /\ calls'[c] = new /\ calls'[c] # None
  BY <1>2, <1>3, CallTypeStep
<1>7. clicks' \in 0 .. MaxClicks
  BY ClicksAssumption DEF Ask, Click, AccountTypeInv
<1>8. UNCHANGED <<page, services, scope, cache>>
  BY DEF Ask
<1>9. /\ new.op = op /\ new.id = id /\ new.sent = sent /\ new.form = form /\ (new.inHand <=> held)
      /\ new.stage = "sent" /\ ~new.ok /\ new.version = 0
  OBVIOUS
<1>10. QED
  BY <1>2, <1>5, <1>6, <1>7, <1>8, <1>9 DEF Sent

\* A call is answered.
Back(c, ok, version) ==
    /\ SameRequest(c)
    /\ calls'[c].stage = "answered"
    /\ calls'[c].ok = ok
    /\ calls'[c].version = version
    /\ Alone(c)
    /\ CallTypeInv'

LEMMA AnswerComesBack ==
    ASSUME CallTypeInv, NEW c \in Calls, Flying(c), NEW ok \in BOOLEAN,
           NEW version \in 0 .. MaxVersion, Answer(c, ok, version)
    PROVE  Back(c, ok, version)
<1> DEFINE new == [calls[c] EXCEPT !.stage = "answered", !.ok = ok, !.version = version]
<1>1. calls[c] \in Call
  BY CallFields
<1>2. new \in Call
  BY <1>1 DEF Call, Stages
<1>3. calls' = [calls EXCEPT ![c] = new]
  BY DEF Answer, CallTypeInv
<1>4. /\ new.op = calls[c].op /\ new.id = calls[c].id /\ new.sent = calls[c].sent
      /\ new.form = calls[c].form /\ new.inHand = calls[c].inHand
      /\ new.stage = "answered" /\ new.ok = ok /\ new.version = version
  BY <1>1 DEF Call
<1> HIDE DEF new
<1>5. CallTypeInv' /\ Alone(c) /\ calls'[c] = new /\ calls'[c] # None
  BY <1>2, <1>3, CallTypeStep
<1>6. QED
  BY <1>4, <1>5 DEF Back, SameRequest

\* The handler asks for the list.
Asks(c) ==
    /\ SameRequest(c)
    /\ calls'[c].stage = "refreshing"
    /\ calls'[c].ok = calls[c].ok
    /\ calls'[c].version = calls[c].version
    /\ Alone(c)
    /\ CallTypeInv'
    /\ fetch' \in Requests /\ fetch' # None
    /\ fetch'.of = scope /\ fetch'.by = c
    /\ \A id \in Ids : fetch'.seen[id] = Version(id)
    /\ UNCHANGED <<page, services, rows, loaded, failed>>

LEMMA MutateAsks ==
    ASSUME CallTypeInv, ListTypeInv, HistoryInv, NEW c \in Calls, Flying(c), Mutate(c),
           calls' = [calls EXCEPT ![c].stage = "refreshing"],
           UNCHANGED <<page, services, rows, loaded, failed>>
    PROVE  Asks(c)
<1> DEFINE new == [op |-> calls[c].op, id |-> calls[c].id, sent |-> calls[c].sent,
                   form |-> calls[c].form, inHand |-> calls[c].inHand,
                   stage |-> "refreshing", ok |-> calls[c].ok, version |-> calls[c].version]
<1>1. calls[c] \in Call
  BY CallFields
<1>2. new \in Call
  BY <1>1 DEF Call, Stages
<1> DEFINE changed == [calls[c] EXCEPT !.stage = "refreshing"]
<1>3. changed = new /\ calls' = [calls EXCEPT ![c] = changed]
  BY <1>1 DEF CallTypeInv, Call
<1> HIDE DEF changed
<1>4. CallTypeInv' /\ Alone(c) /\ calls'[c] = new /\ calls'[c] # None
  BY <1>2, <1>3, CallTypeStep
<1>5. fetch' \in Requests
  BY DEF Mutate, Requests, HistoryInv, ListTypeInv
<1>6. fetch' # None
  BY <1>5, RecordsAssumption
<1>7. fetch'.of = scope /\ fetch'.by = c /\ \A id \in Ids : fetch'.seen[id] = Version(id)
  BY DEF Mutate
<1>8. QED
  BY <1>4, <1>5, <1>6, <1>7 DEF Asks, SameRequest

LEMMA AskForListAsks ==
    ASSUME CallTypeInv, ListTypeInv, HistoryInv, NEW c \in Calls, Flying(c), AskForList(c)
    PROVE  Asks(c) /\ UNCHANGED <<scope, acked, told, clicks, raced>>
BY MutateAsks DEF AskForList

\* The handler returns.
Over(c) ==
    /\ calls'[c] = None
    /\ Alone(c)
    /\ CallTypeInv'
    /\ acked' \in [Ids -> 0 .. MaxVersion]
    /\ told' \in [Ids -> 0 .. MaxVersion]
    /\ \A id \in Ids :
          /\ acked'[id] = IF ~raced /\ calls[c].ok /\ calls[c].op \in Writes /\ id = calls[c].id
                          THEN calls[c].version ELSE acked[id]
          /\ told'[id] = IF ~raced /\ ~calls[c].ok /\ calls[c].version > 0 /\ id = calls[c].id
                         THEN calls[c].version ELSE told[id]
    /\ UNCHANGED <<page, services, scope, clicks, raced>>

LEMMA ReturnIsOver ==
    ASSUME CallTypeInv, AccountTypeInv, NEW c \in Calls, Flying(c), Return(c)
    PROVE  Over(c)
<1>1. calls[c].version \in 0 .. MaxVersion /\ calls[c].id \in Ids
  BY CallFields
<1>2. calls'[c] = None /\ Alone(c) /\ CallTypeInv'
  BY DEF Return, CallTypeInv, Alone
<1>3. /\ acked' \in [Ids -> 0 .. MaxVersion]
      /\ told' \in [Ids -> 0 .. MaxVersion]
  BY <1>1 DEF Return, AccountTypeInv
<1>4. \A id \in Ids :
          /\ acked'[id] = IF ~raced /\ calls[c].ok /\ calls[c].op \in Writes /\ id = calls[c].id
                          THEN calls[c].version ELSE acked[id]
          /\ told'[id] = IF ~raced /\ ~calls[c].ok /\ calls[c].version > 0 /\ id = calls[c].id
                         THEN calls[c].version ELSE told[id]
  BY <1>1 DEF Return, AccountTypeInv
<1>5. QED
  BY <1>2, <1>3, <1>4 DEF Over, Return

-----------------------------------------------------------------------------
(***************************************************************************)
(* The steps of the pages, by what they may do to the copy in hand, to the *)
(* result shown and to who waits.                                          *)
(***************************************************************************)

\* The copy in hand stays, is let go, or is another one that was read.
Handed ==
    \/ editor' = editor
    \/ editor' = None /\ page # "targeting"
    \/ /\ editor' \in Copies /\ editor' # None
       /\ editor'.version <= Version(editor'.id)
       /\ editor'.form <= Version(editor'.id)
       /\ page \in InspectorPanels => editor'.version > 0
       /\ page # "targeting" => editor'.form = editor'.version

\* The result shown stays or goes; with another copy in hand it goes.
Reported ==
    \/ report' = report /\ (editor' = editor \/ page \notin {"config", "feature", "releases"})
    \/ report' = None

\* The result that call c brought is shown.
Result(c) ==
    /\ report' = [id |-> calls[c].id, version |-> calls[c].version]
    /\ editor' = editor
    /\ calls[c].op = "read" /\ calls[c].stage = "answered" /\ calls[c].ok
    /\ page \in {"config", "feature", "targeting", "releases"}
    /\ page = "releases" => \E waits \in pending.busy : waits.by = c

MarksOK ==
    /\ {"reading", "busy"} \subseteq DOMAIN pending'
    /\ pending'.reading \in Ids \cup {None}
    /\ page = "objects" => /\ "upload" \in DOMAIN pending'
                           /\ pending'.upload \in Copies \cup {None}

\* Nobody begins to wait, and none for a call that is gone.
StillWaiting(gone) ==
    page \in Waited =>
        /\ MarksOK
        /\ \A waits \in pending'.busy :
              /\ waits \in pending.busy
              /\ waits.by \notin gone
              /\ page = "releases" /\ editor' # editor => waits.of.version = 0

\* What a page may send.
MayAsk(op, id, sent, form) ==
    /\ op \in {"edit", "set"} /\ page \notin Loose => form = sent
    /\ op = "read" /\ page \in {"config", "feature", "releases"} =>
          editor # None /\ editor.id = id
    /\ op \in {"get", "miss"} /\ page # "releases" => sent = 0
    /\ op = "get" => Version(id) > 0
    /\ op = "archive" /\ page = "releases" => form >= sent /\ form <= Version(id)

\* Who waits for it.
Waits(c, op, sent) ==
    IF page \in Waited
    THEN /\ MarksOK
         /\ \A waits \in pending'.busy :
               \/ waits \in pending.busy
               \/ /\ waits.by = c
                  /\ op \in {"get", "miss"} => sent > 0
                  /\ page = "releases" =>
                        \/ waits.of.version = 0 /\ op # "read"
                        \/ editor # None /\ waits.of = editor
    ELSE pending'[2] \in Ids

-----------------------------------------------------------------------------
\* Nothing is fetched for the handler of a call that is not refreshing.
LEMMA NothingFetched ==
    ASSUME IInv, ~raced, NEW c \in Calls, Flying(c),
           calls[c].stage # "refreshing" \/ ~Awaits(c)
    PROVE  fetch = None
<1> SUFFICES ASSUME fetch # None PROVE FALSE
  OBVIOUS
<1>1. fetch.by \in Calls
  BY DEF IInv, ListTypeInv, Requests
<1>2. Flying(fetch.by) /\ calls[fetch.by].stage = "refreshing"
  BY DEF IInv, ListInv, ListedUp, FetchOK, CaughtUp
<1>3. fetch.by = c
  BY <1>1, <1>2 DEF IInv, OneCallInv
<1>4. QED
  BY <1>2, <1>3 DEF Awaits

LEMMA SentKeepsIInv ==
    ASSUME IInv, NEW c \in Calls, NEW op \in Operations, NEW id \in Ids,
           NEW sent \in 0 .. MaxVersion, NEW form \in 0 .. MaxVersion,
           Sent(c, op, id, sent, form), MayAsk(op, id, sent, form), Waits(c, op, sent),
           UNCHANGED copies
    PROVE  IInv'
<1> USE DEF IInv
<1>1. UNCHANGED <<page, history, blind, scope, rows, loaded, fetch, failed, editor, report>>
  BY DEF Sent, services, cache, copies
<1>2. \A i \in Ids : Version(i)' = Version(i)
  BY <1>1 DEF Version
<1>3. HistoryInv' /\ ListTypeInv' /\ EditorTypeInv' /\ ReportTypeInv'
  BY <1>1 DEF HistoryInv, ListTypeInv, EditorTypeInv, ReportTypeInv, Version
<1>4. CallTypeInv'
  BY DEF Sent
<1>5. AccountTypeInv'
  <2>1. Nothing \in [Ids -> 0 .. MaxVersion] /\ \A i \in Ids : Nothing[i] = 0
    BY VersionsAssumption DEF Nothing
  <2>2. \A i \in Ids : Version(i) \in Nat
    BY DEF HistoryInv
  <2>3. QED
    BY <1>1, <1>2, <2>1, <2>2 DEF AccountTypeInv, Sent, Raced
<1>6. /\ Flying(c)' /\ ~Flying(c) /\ calls'[c].op = op /\ calls'[c].id = id /\ calls'[c].sent = sent
      /\ calls'[c].form = form /\ calls'[c].stage = "sent" /\ ~calls'[c].ok /\ calls'[c].version = 0
      /\ \A d \in Calls : d # c => calls'[d] = calls[d] /\ (Flying(d)' <=> Flying(d))
  BY DEF Sent, Alone, Flying
<1>7. calls'[c].inHand <=> op \in {"archive", "restore"} /\ InHand /\ editor.id = id
  BY DEF Sent
<1>8. PendingInv'
  BY <1>1, <1>6 DEF PendingInv, Waits, MarksOK
<1>9. CallInv'
  <2> SUFFICES ASSUME NEW d \in Calls, Flying(d)'
               PROVE  CallOK(d)'
    BY DEF CallInv
  <2>1. CASE d = c
    BY <1>1, <1>2, <1>6, <1>7, <2>1, VersionsAssumption DEF CallOK, MayAsk, HistoryInv, Waited, InHand
  <2>2. CASE d # c
    <3>1. CallOK(d)
      BY <1>6, <2>2 DEF CallInv
    <3>2. QED
      BY <1>1, <1>2, <1>6, <2>2, <3>1, CallFields DEF CallOK
  <2>3. QED
    BY <2>1, <2>2
<1>10. FormInv'
  BY <1>1, <1>6 DEF FormInv, MayAsk
<1>11. ReportInv'
  <2>1. page \notin {"config", "feature", "targeting", "releases"} => (report = None)'
    BY <1>1 DEF ReportInv
  <2>2. ReportFits => ReportFits'
    BY <1>1 DEF ReportFits
  <2>3. \A d \in Calls : d # c /\ AsksAbout(d) => AsksAbout(d)'
    BY <1>1, <1>6 DEF AsksAbout
  <2>4. page \in {"config", "feature", "releases"} => AsksAbout(c)'
    BY <1>1, <1>6 DEF AsksAbout, MayAsk
  <2>5. ASSUME page \in {"config", "feature"}, ~raced'
        PROVE  ReportFits' /\ \A d \in Calls : Flying(d)' => AsksAbout(d)'
    BY <1>6, <2>2, <2>3, <2>4, <2>5 DEF ReportInv, Sent, Raced
  <2>6. ASSUME page = "releases", NEW waits \in pending'.busy
        PROVE  WaiterOK(waits)'
    <3>1. CASE waits \in pending.busy
      <4>1. WaiterOK(waits) /\ waits.by \in Calls /\ waits.by # c
        BY <1>6, <2>6, <3>1 DEF ReportInv, PendingInv, Waited, InspectorPanels, ReleasePanels
      <4>2. QED
        BY <1>1, <1>6, <2>3, <4>1 DEF WaiterOK
    <3>2. CASE waits \notin pending.busy
      <4>1. /\ waits.by = c
            /\ (waits.of.version = 0 /\ op # "read") \/ (editor # None /\ waits.of = editor)
        BY <2>6, <3>2 DEF Waits, Waited, InspectorPanels, ReleasePanels
      <4>2. QED
        BY <1>1, <1>6, <2>4, <2>6, <4>1 DEF WaiterOK
    <3>3. QED
      BY <3>1, <3>2
  <2>7. ASSUME page = "releases", NEW d \in Calls, Flying(d)'
        PROVE  PublishOK(d)'
    <3>1. CASE d = c
      BY <1>2, <1>6, <2>7, <3>1 DEF PublishOK, MayAsk
    <3>2. CASE d # c
      <4>1. PublishOK(d) /\ calls[d].id \in Ids
        BY <1>6, <2>7, <3>2, CallFields DEF ReportInv
      <4>2. QED
        BY <1>2, <1>6, <3>2, <4>1 DEF PublishOK
    <3>3. QED
      BY <3>1, <3>2
  <2>8. QED
    BY <1>1, <2>1, <2>2, <2>5, <2>6, <2>7 DEF ReportInv
<1>12. OneCallInv'
  BY <1>1, <1>6 DEF OneCallInv, Sent, Raced
<1>13. EditorInv'
  BY <1>1, <1>6, <1>7 DEF EditorInv, Sent, Raced, InHand
<1>14. ListInv'
  <2> SUFFICES ASSUME ~raced' PROVE ListInv'
    BY DEF ListInv, ListedUp, FetchOK, CaughtUp
  <2>1. ~raced /\ UNCHANGED <<acked, told>> /\ \A d \in Calls : ~Flying(d)
    BY DEF Sent, Raced
  <2>2. fetch = None
    BY <2>1 DEF ListInv, ListedUp, FetchOK, CaughtUp, ListTypeInv, Requests
  <2>3. QED
    BY <1>1, <1>6, <2>1, <2>2 DEF ListInv, ListedUp, FetchOK, CaughtUp, Up
<1>15. QED
  BY <1>3, <1>4, <1>5, <1>8, <1>9, <1>10, <1>11, <1>12, <1>13, <1>14

-----------------------------------------------------------------------------
\* The services may have made a version; none is lost.
Grows ==
    /\ HistoryInv'
    /\ \A id \in Ids : Version(id)' >= Version(id)

LEMMA GrowthKeepsTypes ==
    ASSUME IInv, Grows,
           UNCHANGED <<page, scope, cache, copies, acked, told, clicks, raced>>
    PROVE  ListTypeInv' /\ EditorTypeInv' /\ ReportTypeInv' /\ AccountTypeInv'
<1> USE DEF IInv
<1>1. \A i \in Ids : Version(i) \in Nat /\ Version(i)' \in Nat /\ Version(i)' >= Version(i)
  BY DEF Grows, HistoryInv
<1>2. ListTypeInv'
  BY <1>1 DEF ListTypeInv, cache, Requests
<1>3. EditorTypeInv'
  BY <1>1 DEF EditorTypeInv, copies, Copies
<1>4. ReportTypeInv'
  BY <1>1 DEF ReportTypeInv, copies
<1>5. AccountTypeInv'
  BY <1>1 DEF AccountTypeInv
<1>6. QED
  BY <1>2, <1>3, <1>4, <1>5

LEMMA GrowthKeepsIInv ==
    ASSUME IInv, Grows, blind' = blind,
           UNCHANGED <<page, scope, cache, copies, pending, calls, acked, told, clicks, raced>>
    PROVE  IInv'
<1> USE DEF IInv
<1>1. HistoryInv' /\ ListTypeInv' /\ EditorTypeInv' /\ ReportTypeInv' /\ AccountTypeInv'
  BY GrowthKeepsTypes DEF Grows
<1>2. CallTypeInv' /\ PendingInv' /\ FormInv' /\ OneCallInv' /\ EditorInv' /\ ListInv'
  BY DEF CallTypeInv, PendingInv, FormInv, OneCallInv, EditorInv, ListInv, ListedUp, FetchOK, CaughtUp, Flying, InHand, Up,
         cache, copies
<1>3. \A i \in Ids : Version(i) \in Nat /\ Version(i)' \in Nat /\ Version(i)' >= Version(i)
  BY DEF Grows, HistoryInv
<1>4. CallInv'
  <2> SUFFICES ASSUME NEW d \in Calls, Flying(d)
               PROVE  CallOK(d)'
    BY DEF CallInv, Flying
  <2>1. CallOK(d)
    BY DEF CallInv
  <2>2. QED
    BY <1>3, <2>1, CallFields DEF CallOK, copies
<1>5. ReportInv'
  <2>1. ReportFits' <=> ReportFits
    BY DEF ReportFits, copies
  <2>2. \A d : AsksAbout(d)' <=> AsksAbout(d)
    BY DEF AsksAbout, copies
  <2>3. \A waits : WaiterOK(waits)' <=> WaiterOK(waits)
    BY <2>2 DEF WaiterOK, copies
  <2>4. \A d \in Calls : Flying(d) /\ PublishOK(d) => PublishOK(d)'
    BY <1>3, CallFields DEF PublishOK
  <2>5. QED
    BY <2>1, <2>2, <2>3, <2>4 DEF ReportInv, copies, Flying
<1>6. QED
  BY <1>1, <1>2, <1>4, <1>5

\* What an answer may say of record id.
Fair(c, id) ==
    /\ calls'[c].version <= Version(id)'
    /\ calls'[c].ok \/ calls'[c].version > 0 => calls'[c].version = Version(id)'
    /\ calls'[c].ok /\ calls[c].op \in Writes \cup {"get"} => calls'[c].version > 0
    /\ calls[c].op = "miss" => ~calls'[c].ok
    /\ ~calls'[c].ok /\ calls[c].op \notin Writes => calls'[c].version = 0

LEMMA AnswerKeepsIInv ==
    ASSUME IInv, Grows, NEW c \in Calls, Flying(c), calls[c].stage = "sent",
           NEW id \in Ids, calls[c].id = id,
           SameRequest(c), calls'[c].stage = "answered", Alone(c), CallTypeInv', Fair(c, id),
           blind' \in BOOLEAN, blind' => page \in Loose,
           UNCHANGED <<page, scope, cache, copies, pending, acked, told, clicks, raced>>
    PROVE  IInv'
<1> USE DEF IInv
<1>1. HistoryInv' /\ ListTypeInv' /\ EditorTypeInv' /\ ReportTypeInv' /\ AccountTypeInv'
  BY GrowthKeepsTypes DEF Grows
<1>2. \A i \in Ids : Version(i) \in Nat /\ Version(i)' \in Nat /\ Version(i)' >= Version(i)
  BY DEF Grows, HistoryInv
<1>3. UNCHANGED <<page, scope, rows, loaded, fetch, failed, editor, report, pending, acked, told, raced>>
  BY DEF cache, copies
<1>4. /\ Flying(c)' /\ calls'[c].op = calls[c].op /\ calls'[c].id = id
      /\ calls'[c].sent = calls[c].sent /\ calls'[c].form = calls[c].form
      /\ calls'[c].inHand = calls[c].inHand /\ calls'[c].stage = "answered"
      /\ \A d \in Calls : d # c => calls'[d] = calls[d]
      /\ \A d \in Calls : Flying(d)' <=> Flying(d)
  BY DEF SameRequest, Alone, Flying
<1>5. /\ calls'[c].version \in Nat /\ calls'[c].ok \in BOOLEAN
      /\ Version(id) \in Nat /\ Version(id)' \in Nat
  BY <1>2, <1>4, CallFields DEF CallTypeInv, Flying, Call
<1>7. PendingInv'
  BY <1>3, <1>4 DEF PendingInv
<1>8. CallInv'
  <2> SUFFICES ASSUME NEW d \in Calls, Flying(d)
               PROVE  CallOK(d)'
    BY <1>4 DEF CallInv
  <2>1. CallOK(d) /\ calls[d].id \in Ids
    BY CallFields DEF CallInv
  <2>2. CASE d = c
    BY <1>2, <1>3, <1>4, <1>5, <2>1, <2>2 DEF CallOK, Fair
  <2>3. CASE d # c
    BY <1>2, <1>3, <1>4, <2>1, <2>3, CallFields DEF CallOK
  <2>4. QED
    BY <2>2, <2>3
<1>9. FormInv'
  BY <1>3, <1>4 DEF FormInv
<1>10. ReportInv'
  <2>1. ReportFits' <=> ReportFits
    BY <1>3 DEF ReportFits
  <2>2. \A d \in Calls : AsksAbout(d) => AsksAbout(d)'
    <3> SUFFICES ASSUME NEW d \in Calls, AsksAbout(d)
                 PROVE  AsksAbout(d)'
      OBVIOUS
    <3>1. CASE d = c
      <4>1. editor # None => editor.version <= Version(editor.id) /\ editor.id \in Ids /\ editor.version \in Nat
        BY DEF EditorTypeInv, Copies
      <4>2. QED
        BY <1>2, <1>3, <1>4, <1>5, <3>1, <4>1 DEF AsksAbout, Fair
    <3>2. CASE d # c
      BY <1>3, <1>4, <3>2 DEF AsksAbout
    <3>3. QED
      BY <3>1, <3>2
  <2>3. ASSUME page = "releases", NEW waits \in pending.busy
        PROVE  WaiterOK(waits)'
    <3>1. WaiterOK(waits) /\ waits.by \in Calls
      BY <2>3 DEF ReportInv, PendingInv, Waited, InspectorPanels, ReleasePanels
    <3>2. QED
      BY <1>3, <1>4, <2>2, <3>1 DEF WaiterOK
  <2>4. \A d \in Calls : Flying(d) /\ PublishOK(d) => PublishOK(d)'
    BY <1>2, <1>4, CallFields DEF PublishOK
  <2>5. QED
    BY <1>3, <1>4, <2>1, <2>2, <2>3, <2>4 DEF ReportInv
<1>11. OneCallInv'
  <2>1. acked[id] <= Version(id)' /\ told[id] <= Version(id)'
    BY <1>1, <1>3 DEF AccountTypeInv
  <2>2. QED
    BY <1>3, <1>4, <1>5, <2>1 DEF OneCallInv, Fair
<1>12. EditorInv'
  BY <1>3, <1>4 DEF EditorInv, InHand
<1>13. ListInv'
  <2> SUFFICES ASSUME ~raced PROVE ListInv'
    BY <1>3 DEF ListInv, ListedUp, FetchOK, CaughtUp
  <2>1. fetch = None
    BY NothingFetched
  <2>2. QED
    BY <1>3, <1>4, <2>1 DEF ListInv, ListedUp, FetchOK, CaughtUp, Up
<1>14. QED
  BY <1>1, <1>7, <1>8, <1>9, <1>10, <1>11, <1>12, <1>13

-----------------------------------------------------------------------------
\* The steps of the services.

LEMMA GrowsByOne ==
    ASSUME HistoryInv, NEW id \in Ids, NEW made \in [active : BOOLEAN, fields : Versions],
           Version(id) < MaxVersion, history' = [history EXCEPT ![id] = Append(@, made)]
    PROVE  Grows /\ Version(id)' = Version(id) + 1
<1> DEFINE V == [active : BOOLEAN, fields : Versions]
<1> HIDE DEF V
<1>1. made \in V /\ history \in [Ids -> Seq(V)] /\ \A i \in Ids : Len(history[i]) \in 0 .. MaxVersion
  BY DEF V, HistoryInv, Version
<1>2. history' \in [Ids -> Seq(V)]
  BY <1>1
<1>3. /\ Len(history'[id]) = Len(history[id]) + 1
      /\ \A i \in Ids : i # id => Len(history'[i]) = Len(history[i])
  BY <1>1
<1>4. \A i \in Ids : Len(history'[i]) \in 0 .. MaxVersion /\ Len(history'[i]) >= Len(history[i])
  BY <1>1, <1>3, VersionsAssumption DEF Version
<1>5. QED
  BY <1>2, <1>3, <1>4 DEF Grows, HistoryInv, Version, V

LEMMA WrittenIsAVersion ==
    ASSUME HistoryInv, NEW call, call.id \in Ids, Accepts(call)
    PROVE  Written(call) \in [active : BOOLEAN, fields : Versions]
<1> DEFINE V == [active : BOOLEAN, fields : Versions]
<1>1. Version(call.id) \in Nat /\ Version(call.id) < MaxVersion /\ call.sent = Version(call.id)
  BY DEF HistoryInv, Accepts
<1>2. Version(call.id) + 1 \in Versions
  BY <1>1, VersionsAssumption DEF Versions
<1>3. call.sent > 0 => history[call.id][call.sent] \in V
  <2> HIDE DEF V
  <2>1. history[call.id] \in Seq(V) /\ Len(history[call.id]) = call.sent
    BY <1>1 DEF HistoryInv, Version, V
  <2>2. QED
    BY <1>1, <2>1
<1>4. call.sent > 0 => /\ IsActive(call.id, call.sent) \in BOOLEAN
                       /\ Fields(call.id, call.sent) \in Versions
  BY <1>3 DEF IsActive, Fields
<1>5. call.op \in {"archive", "restore", "act", "touch"} => call.sent > 0
  BY DEF Accepts
<1>6. QED
  BY <1>2, <1>4, <1>5 DEF Written

LEMMA ElsewhereKeepsIInv ==
    ASSUME IInv, NEW id \in Ids, NEW commands, Elsewhere(id, commands)
    PROVE  IInv'
<1>1. PICK op \in commands :
          LET call == [op |-> op, id |-> id, sent |-> Version(id)] IN
          /\ Accepts(call)
          /\ history' = [history EXCEPT ![id] = Append(@, Written(call))]
  BY DEF Elsewhere
<1> DEFINE call == [op |-> op, id |-> id, sent |-> Version(id)]
<1>2. Accepts(call) /\ call.id = id /\ history' = [history EXCEPT ![id] = Append(@, Written(call))]
  BY <1>1
<1>3. Written(call) \in [active : BOOLEAN, fields : Versions]
  BY <1>2, WrittenIsAVersion DEF IInv
<1>4. Grows
  BY <1>2, <1>3, GrowsByOne DEF IInv, Elsewhere
<1>5. UNCHANGED <<page, blind, scope, cache, copies, pending, calls, acked, told, clicks, raced>>
  BY DEF Elsewhere
<1>6. QED
  BY <1>4, <1>5, GrowthKeepsIInv

LEMMA CommitKeepsIInv ==
    ASSUME IInv, NEW c \in Calls, Commit(c)
    PROVE  IInv'
<1>1. Flying(c) /\ calls[c].stage = "sent" /\ Accepts(calls[c]) /\ calls[c].id \in Ids
  BY CallFields DEF Commit, Flying, IInv
<1>2. PICK id \in Ids : id = calls[c].id
  BY <1>1
<1>3. history' = [history EXCEPT ![id] = Append(@, Written(calls[c]))]
  BY <1>2 DEF Commit
<1>4. Written(calls[c]) \in [active : BOOLEAN, fields : Versions]
  BY <1>1, WrittenIsAVersion DEF IInv
<1>5. Version(id) < MaxVersion
  BY <1>1, <1>2 DEF Accepts
<1>6. Grows /\ Version(id)' = Version(id) + 1
  BY <1>3, <1>4, <1>5, GrowsByOne DEF IInv
<1>7. calls[c].op \in Writes /\ calls[c].op \notin {"get", "miss", "read", "look"}
  BY <1>1 DEF Accepts, Writes
<1>8. blind' \in BOOLEAN /\ (blind' => page \in Loose)
  <2>1. calls[c].op \in {"edit", "set"} /\ page \notin Loose => calls[c].form = calls[c].sent
    BY <1>1 DEF IInv, FormInv
  <2>2. calls[c].sent > 0 => calls[c].sent # 0
    BY <1>1, CallFields DEF IInv
  <2>3. QED
    BY <2>1, <2>2 DEF IInv, FormInv, Commit
<1>9. UNCHANGED <<page, scope, cache, copies, pending, acked, told, clicks, raced>>
  BY DEF Commit
<1>10. Version(id) \in Nat /\ Version(id)' \in 0 .. MaxVersion /\ Version(id)' > 0
  BY <1>2, <1>6 DEF Grows, HistoryInv, IInv
<1>11. CASE Answer(c, TRUE, Version(id) + 1)
  <2>1. PICK version \in 0 .. MaxVersion : version = Version(id)'
    BY <1>10
  <2>2. Back(c, TRUE, version)
    BY <1>1, <1>6, <1>11, <2>1, AnswerComesBack DEF IInv
  <2>3. Fair(c, id)
    BY <1>7, <1>10, <2>1, <2>2 DEF Back, Fair
  <2>4. QED
    BY <1>1, <1>2, <1>6, <1>8, <1>9, <2>2, <2>3, AnswerKeepsIInv DEF Back
<1>12. CASE Answer(c, FALSE, 0)
  <2>1. 0 \in 0 .. MaxVersion
    BY VersionsAssumption
  <2>2. Back(c, FALSE, 0)
    BY <1>1, <1>12, <2>1, AnswerComesBack DEF IInv
  <2>3. Fair(c, id)
    BY <1>7, <1>10, <2>2 DEF Back, Fair
  <2>4. QED
    BY <1>1, <1>2, <1>6, <1>8, <1>9, <2>2, <2>3, AnswerKeepsIInv DEF Back
<1>13. QED
  BY <1>2, <1>11, <1>12 DEF Commit

LEMMA StillGrows ==
    ASSUME IInv, UNCHANGED services
    PROVE  /\ Grows
           /\ \A i \in Ids : Version(i)' = Version(i) /\ Version(i)' \in 0 .. MaxVersion
           /\ blind' \in BOOLEAN /\ (blind' => page \in Loose)
<1>1. history' = history /\ blind' = blind
  BY DEF services
<1>2. \A i \in Ids : Version(i)' = Version(i) /\ Version(i) \in 0 .. MaxVersion
  BY <1>1 DEF Version, HistoryInv, IInv
<1>3. HistoryInv'
  BY <1>1, <1>2 DEF HistoryInv, IInv
<1>4. QED
  BY <1>1, <1>2, <1>3 DEF Grows, FormInv, IInv

\* A read is answered, a command refused.
LEMMA ReadsKeepsIInv ==
    ASSUME IInv, NEW c \in Calls, Reads(c) \/ Conflict(c) \/ Refuse(c)
    PROVE  IInv'
<1>1. Flying(c) /\ calls[c].stage = "sent" /\ calls[c].id \in Ids /\ CallOK(c)
  BY CallFields DEF Reads, Conflict, Refuse, Flying, IInv, CallInv
<1>2. PICK id \in Ids : calls[c].id = id
  BY <1>1
<1>3. UNCHANGED <<page, services, scope, cache, copies, pending, acked, told, clicks, raced>>
  BY DEF Reads, Conflict, Refuse
<1>4. /\ Grows /\ Version(id)' = Version(id) /\ Version(id)' \in 0 .. MaxVersion
      /\ blind' \in BOOLEAN /\ (blind' => page \in Loose)
  BY <1>3, StillGrows
<1>5. PICK version \in 0 .. MaxVersion : version = Version(id)
  BY <1>4
<1>6. 0 \in 0 .. MaxVersion
  BY VersionsAssumption
<1>7. UNCHANGED <<page, scope, cache, copies, pending, acked, told, clicks, raced>>
  BY <1>3
<1>8. CASE Reads(c)
  <2>1. Back(c, TRUE, version)
    BY <1>1, <1>2, <1>5, <1>8, AnswerComesBack DEF IInv, Reads
  <2>2. calls[c].op # "miss"
    BY <1>8 DEF Reads
  <2>3. calls[c].op \in Writes \cup {"get"} => version > 0
    BY <1>1, <1>2, <1>5, <1>8 DEF Reads, CallOK, Writes
  <2>4. Fair(c, id)
    BY <1>4, <1>5, <2>1, <2>2, <2>3 DEF Back, Fair
  <2>5. QED
    BY <1>1, <1>2, <1>4, <1>7, <2>1, <2>4, AnswerKeepsIInv DEF Back
<1>9. CASE Conflict(c)
  <2>1. Back(c, FALSE, version)
    BY <1>1, <1>2, <1>5, <1>9, AnswerComesBack DEF IInv, Conflict
  <2>2. calls[c].op \in Writes
    BY <1>9 DEF Conflict, Conflicts
  <2>3. Fair(c, id)
    BY <1>4, <1>5, <2>1, <2>2 DEF Back, Fair, Writes
  <2>4. QED
    BY <1>1, <1>2, <1>4, <1>7, <2>1, <2>3, AnswerKeepsIInv DEF Back
<1>10. CASE Refuse(c)
  <2>1. Back(c, FALSE, 0)
    BY <1>1, <1>6, <1>10, AnswerComesBack DEF IInv, Refuse
  <2>2. Fair(c, id)
    BY <1>4, <2>1 DEF Back, Fair
  <2>3. QED
    BY <1>1, <1>2, <1>4, <1>7, <2>1, <2>2, AnswerKeepsIInv DEF Back
<1>11. QED
  BY <1>8, <1>9, <1>10

-----------------------------------------------------------------------------
\* The steps of the list.

LEMMA CacheFrame ==
    ASSUME IInv, ListTypeInv', ListInv',
           UNCHANGED <<page, services, scope, copies, pending, calls, acked, told, clicks, raced>>
    PROVE  IInv'
<1> USE DEF IInv
<1>1. UNCHANGED <<page, history, blind, scope, editor, report, pending, calls, acked, told, clicks, raced>>
  BY DEF services, copies
<1>2. \A i : Version(i)' = Version(i)
  BY <1>1 DEF Version
<1>3. HistoryInv' /\ EditorTypeInv' /\ ReportTypeInv' /\ CallTypeInv' /\ AccountTypeInv'
  BY <1>1 DEF HistoryInv, EditorTypeInv, ReportTypeInv, CallTypeInv, AccountTypeInv, Version
<1>4. PendingInv' /\ FormInv' /\ OneCallInv' /\ EditorInv'
  BY <1>1 DEF PendingInv, FormInv, OneCallInv, EditorInv, Flying, InHand
<1>5. CallInv'
  BY <1>1, <1>2 DEF CallInv, CallOK, Flying
<1>6. ReportInv'
  BY <1>1, <1>2 DEF ReportInv, ReportFits, AsksAbout, WaiterOK, PublishOK, Flying
<1>7. QED
  BY <1>3, <1>4, <1>5, <1>6

\* A list that is shown was read when no record was older than what the page
\* has reported since.
LEMMA ShowKeepsLists ==
    ASSUME IInv, NEW s \in Scopes, NEW versions \in [Ids -> 0 .. MaxVersion],
           \A id \in Ids : versions[id] <= Version(id), Show(s, versions),
           ~raced => \A id \in Ids : Up(id, versions[id]),
           UNCHANGED <<page, services, acked, told, raced>>
    PROVE  /\ rows' \in [Ids -> 0 .. MaxVersion]
           /\ \A id \in Ids : rows'[id] = IF ScopeOf[id] = s THEN versions[id] ELSE rows[id]
           /\ \A id \in Ids : rows'[id] <= Version(id)'
           /\ loaded' \subseteq Scopes /\ failed' \subseteq Scopes
           /\ ~raced => \A t \in loaded' \ failed', id \in Ids :
                           ScopeOf[id] = t => Up(id, rows[id])'
<1> USE DEF IInv
<1>1. \A id \in Ids : rows'[id] = IF ScopeOf[id] = s THEN versions[id] ELSE rows[id]
  BY DEF Show
<1>2. rows' \in [Ids -> 0 .. MaxVersion]
  BY DEF Show, ListTypeInv
<1>3. \A id \in Ids : Version(id)' = Version(id)
  BY StillGrows
<1>4. \A id \in Ids : rows'[id] <= Version(id)'
  BY <1>1, <1>3 DEF ListTypeInv
<1>5. loaded' \subseteq Scopes /\ failed' \subseteq Scopes
  BY DEF Show, ListTypeInv
<1>6. ASSUME ~raced, NEW t \in loaded' \ failed', NEW id \in Ids, ScopeOf[id] = t
      PROVE  Up(id, rows[id])'
  <2>1. CASE t = s
    BY <1>1, <1>6, <2>1 DEF Up
  <2>2. CASE t # s
    <3>1. t \in loaded \ failed
      BY <1>6, <2>2 DEF Show
    <3>2. Up(id, rows[id])
      BY <1>6, <3>1 DEF ListInv, ListedUp, FetchOK, CaughtUp
    <3>3. QED
      BY <1>1, <1>6, <2>2, <3>2 DEF Up
  <2>3. QED
    BY <2>1, <2>2
<1>7. QED
  BY <1>1, <1>2, <1>4, <1>5, <1>6

LEMMA RevalidateKeepsIInv ==
    ASSUME IInv, Revalidate
    PROVE  IInv'
<1> USE DEF IInv
<1> DEFINE versions == [id \in Ids |-> Version(id)]
<1>1. /\ UNCHANGED <<page, services, scope, fetch, copies, pending, calls, acked, told, clicks, raced>>
      /\ Show(scope, versions)
  BY DEF Revalidate
<1>2. \A id \in Ids : Version(id) \in 0 .. MaxVersion /\ Version(id)' = Version(id)
  BY <1>1, StillGrows
<1>3. versions \in [Ids -> 0 .. MaxVersion] /\ \A id \in Ids : versions[id] = Version(id)
  BY <1>2
<1> HIDE DEF versions
<1>4. \A id \in Ids : versions[id] <= Version(id)
  BY <1>2, <1>3
<1>5. \A id \in Ids : Up(id, versions[id])
  BY <1>3 DEF Up, AccountTypeInv
<1>6. /\ rows' \in [Ids -> 0 .. MaxVersion]
      /\ \A id \in Ids : rows'[id] = IF ScopeOf[id] = scope THEN versions[id] ELSE rows[id]
      /\ \A id \in Ids : rows'[id] <= Version(id)'
      /\ loaded' \subseteq Scopes /\ failed' \subseteq Scopes
      /\ ~raced => \A t \in loaded' \ failed', id \in Ids :
                      ScopeOf[id] = t => Up(id, rows[id])'
  BY <1>1, <1>3, <1>4, <1>5, ShowKeepsLists DEF ListTypeInv
<1>7. ListTypeInv'
  BY <1>1, <1>2, <1>6 DEF ListTypeInv, Requests
<1>8. ListInv'
  <2> SUFFICES ASSUME ~raced PROVE ListInv'
    BY <1>1 DEF ListInv, ListedUp, FetchOK, CaughtUp
  <2>1. ASSUME NEW c \in Calls, Flying(c), calls[c].stage = "refreshing"
        PROVE  rows'[calls[c].id] >= calls[c].version
    <3>1. CallOK(c) /\ calls[c].id \in Ids /\ calls[c].op # "look"
      BY <2>1, CallFields DEF CallInv, CallOK, Writes
    <3>2. ScopeOf[calls[c].id] = scope
      BY <2>1, <3>1 DEF OneCallInv
    <3>3. calls[c].version <= Version(calls[c].id)
      BY <3>1 DEF CallOK
    <3>4. rows'[calls[c].id] = Version(calls[c].id)
      BY <1>3, <1>6, <3>1, <3>2
    <3>5. QED
      BY <3>3, <3>4
  <2>2. FetchOK'
    BY <1>1 DEF ListInv, FetchOK, Up, Flying
  <2>3. ListedUp'
    BY <1>6 DEF ListedUp
  <2>4. QED
    BY <1>1, <2>1, <2>2, <2>3 DEF ListInv, CaughtUp, Flying
<1>9. QED
  BY <1>1, <1>7, <1>8, CacheFrame

LEMMA ListArrivesKeepsIInv ==
    ASSUME IInv, ListArrives
    PROVE  IInv'
<1> USE DEF IInv
<1>1. /\ UNCHANGED <<page, services, scope, copies, pending, calls, acked, told, clicks, raced>>
      /\ fetch # None /\ fetch' = None /\ Show(fetch.of, fetch.seen)
  BY DEF ListArrives
<1>2. fetch.of \in Scopes /\ fetch.seen \in [Ids -> 0 .. MaxVersion] /\ fetch.by \in Calls
  BY <1>1 DEF ListTypeInv, Requests
<1>3. \A id \in Ids : fetch.seen[id] <= Version(id)
  BY <1>1 DEF ListTypeInv
<1>4. ~raced => \A id \in Ids : Up(id, fetch.seen[id])
  BY <1>1 DEF ListInv, FetchOK
<1>5. /\ rows' \in [Ids -> 0 .. MaxVersion]
      /\ \A id \in Ids : rows'[id] = IF ScopeOf[id] = fetch.of THEN fetch.seen[id] ELSE rows[id]
      /\ \A id \in Ids : rows'[id] <= Version(id)'
      /\ loaded' \subseteq Scopes /\ failed' \subseteq Scopes
      /\ ~raced => \A t \in loaded' \ failed', id \in Ids :
                      ScopeOf[id] = t => Up(id, rows[id])'
  BY <1>1, <1>2, <1>3, <1>4, ShowKeepsLists
<1>6. ListTypeInv'
  BY <1>1, <1>5 DEF ListTypeInv
<1>7. ListInv'
  <2> SUFFICES ASSUME ~raced PROVE ListInv'
    BY <1>1 DEF ListInv
  <2>1. FetchOK' /\ ListedUp'
    BY <1>1, <1>5 DEF FetchOK, ListedUp
  <2>2. ASSUME NEW c \in Calls, Flying(c), calls[c].stage = "refreshing"
        PROVE  rows'[calls[c].id] >= calls[c].version
    <3>1. Flying(fetch.by) /\ fetch.of = scope
          /\ fetch.seen[calls[fetch.by].id] >= calls[fetch.by].version
      BY <1>1 DEF ListInv, FetchOK
    <3>2. fetch.by = c
      BY <1>2, <2>2, <3>1 DEF OneCallInv
    <3>3. CallOK(c) /\ calls[c].id \in Ids /\ calls[c].op # "look"
      BY <2>2, CallFields DEF CallInv, CallOK, Writes
    <3>4. ScopeOf[calls[c].id] = scope
      BY <2>2, <3>3 DEF OneCallInv
    <3>5. QED
      BY <1>5, <3>1, <3>2, <3>3, <3>4
  <2>3. QED
    BY <1>1, <2>1, <2>2 DEF ListInv, CaughtUp, Flying
<1>8. QED
  BY <1>1, <1>6, <1>7, CacheFrame

LEMMA ListFailsKeepsIInv ==
    ASSUME IInv, ListFails
    PROVE  IInv'
<1> USE DEF IInv
<1>1. /\ UNCHANGED <<page, services, scope, rows, loaded, copies, pending, calls, acked, told, clicks, raced>>
      /\ fetch # None /\ fetch' = None /\ failed' = failed \cup {fetch.of}
  BY DEF ListFails
<1>2. fetch.of \in Scopes
  BY <1>1 DEF ListTypeInv, Requests
<1>3. \A id \in Ids : Version(id)' = Version(id)
  BY <1>1, StillGrows
<1>4. ListTypeInv'
  BY <1>1, <1>2, <1>3 DEF ListTypeInv
<1>5. ListInv'
  <2> SUFFICES ASSUME ~raced PROVE ListInv'
    BY <1>1 DEF ListInv
  <2>1. ListedUp' /\ FetchOK'
    BY <1>1 DEF ListInv, ListedUp, FetchOK, Up
  <2>2. scope \notin loaded' \ failed'
    BY <1>1 DEF ListInv, FetchOK
  <2>3. QED
    BY <1>1, <2>1, <2>2 DEF ListInv, CaughtUp
<1>6. QED
  BY <1>1, <1>4, <1>5, CacheFrame

-----------------------------------------------------------------------------
\* The steps that take another copy in hand.

LEMMA HandedTypes ==
    ASSUME IInv, Handed, UNCHANGED <<page, services>>
    PROVE  /\ HistoryInv' /\ EditorTypeInv'
           /\ editor' # None /\ page # "targeting" => editor'.form = editor'.version
           /\ editor # None /\ page = "targeting" => editor' # None
<1> USE DEF IInv
<1>1. \A id \in Ids : Version(id)' = Version(id)
  BY StillGrows
<1>2. HistoryInv'
  BY StillGrows DEF Grows
<1>3. EditorTypeInv'
  BY <1>1 DEF Handed, EditorTypeInv, Copies
<1>4. QED
  BY <1>2, <1>3 DEF Handed, FormInv

LEMMA ReportedTypes ==
    ASSUME IInv, Reported, UNCHANGED <<page, services>>
    PROVE  ReportTypeInv'
<1>1. \A id \in Ids : Version(id)' = Version(id)
  BY StillGrows
<1>2. QED
  BY <1>1 DEF IInv, Reported, ReportTypeInv

LEMMA ReportedFits ==
    ASSUME Reported, ReportFits, page \in {"config", "feature", "releases"}
    PROVE  ReportFits'
BY DEF Reported, ReportFits

\* A waiter of a release that waits on.
LEMMA WaiterStays ==
    ASSUME IInv, page = "releases", NEW waits \in pending.busy, waits.by \in Calls,
           editor' # editor => waits.of.version = 0,
           calls'[waits.by].op = "read" => calls'[waits.by] = calls[waits.by]
    PROVE  WaiterOK(waits)'
<1>1. WaiterOK(waits)
  BY DEF IInv, ReportInv
<1>2. editor # None => editor.version > 0
  BY DEF IInv, EditorTypeInv, InspectorPanels, ReleasePanels
<1>3. CASE editor' = editor
  BY <1>1, <1>3 DEF WaiterOK, AsksAbout
<1>4. CASE editor' # editor
  BY <1>1, <1>2, <1>4 DEF WaiterOK, AsksAbout
<1>5. QED
  BY <1>3, <1>4

LEMMA TurnKeepsIInv ==
    ASSUME IInv, Handed, Reported, page \notin FilledFromAnswers,
           IF page \in Waited THEN StillWaiting({}) ELSE pending' = pending,
           UNCHANGED <<page, services, scope, cache, calls, acked, told, clicks, raced>>
    PROVE  IInv'
<1> USE DEF IInv
<1>1. UNCHANGED <<page, history, blind, scope, rows, loaded, fetch, failed, calls, acked, told, clicks, raced>>
  BY DEF services, cache
<1>2. \A i : Version(i)' = Version(i)
  BY <1>1 DEF Version
<1>3. ListTypeInv' /\ CallTypeInv' /\ AccountTypeInv'
  BY <1>1, <1>2 DEF ListTypeInv, CallTypeInv, AccountTypeInv
<1>4. HistoryInv' /\ EditorTypeInv' /\ ReportTypeInv'
  BY <1>1, HandedTypes, ReportedTypes
<1>5. page \notin {"config", "feature", "targeting"}
  BY DEF FilledFromAnswers, EditorPanels
<1>6. PendingInv'
  BY <1>1 DEF PendingInv, StillWaiting, MarksOK, Flying
<1>7. CallInv'
  BY <1>1, <1>2, <1>5 DEF CallInv, CallOK, Flying
<1>8. FormInv'
  BY <1>1, <1>5, HandedTypes DEF FormInv, Flying
<1>9. ReportInv'
  <2>1. page # "releases" => (report = None)'
    BY <1>1, <1>5 DEF ReportInv, Reported
  <2>2. ASSUME page = "releases" PROVE ReportInv'
    <3>1. ReportFits'
      BY <2>2, ReportedFits DEF ReportInv
    <3>2. ASSUME NEW waits \in pending'.busy PROVE WaiterOK(waits)'
      <4>1. waits \in pending.busy /\ (editor' # editor => waits.of.version = 0)
        BY <2>2, <3>2 DEF StillWaiting, Waited, InspectorPanels, ReleasePanels
      <4>2. waits.by \in Calls
        BY <2>2, <4>1 DEF PendingInv, Waited, InspectorPanels, ReleasePanels
      <4>3. QED
        BY <1>1, <2>2, <4>1, <4>2, WaiterStays
    <3>3. \A c \in Calls : Flying(c) => PublishOK(c)'
      BY <1>1, <1>2, <2>2 DEF ReportInv, PublishOK
    <3>4. QED
      BY <1>1, <2>2, <3>1, <3>2, <3>3 DEF ReportInv, Flying
  <2>3. QED
    BY <1>1, <1>5, <2>1, <2>2 DEF ReportInv
<1>10. OneCallInv' /\ EditorInv' /\ ListInv'
  BY <1>1 DEF OneCallInv, EditorInv, ListInv, ListedUp, FetchOK, CaughtUp, Up, Flying
<1>11. QED
  BY <1>3, <1>4, <1>6, <1>7, <1>8, <1>9, <1>10

LEMMA SelectKeepsIInv ==
    ASSUME IInv, NEW s \in Scopes, Select(s), Handed, Reported, pending' = pending,
           page \in EditorPanels => ~InHand',
           page \in FilledFromAnswers \ EditorPanels \/ page = "releases" => editor' = editor
    PROVE  IInv'
<1> USE DEF IInv
<1>1. UNCHANGED <<page, history, blind, rows, loaded, fetch, failed, pending, calls>> /\ scope' = s
  BY DEF Select, services, cache
<1>2. \A i : Version(i)' = Version(i)
  BY <1>1 DEF Version
<1>3. Raced(\E c \in Calls : Flying(c))
  BY RacesFields DEF Select, Flying, AccountTypeInv
<1>4. HistoryInv' /\ EditorTypeInv' /\ ReportTypeInv'
  BY HandedTypes, ReportedTypes DEF Select
<1>5. ListTypeInv' /\ CallTypeInv'
  BY <1>1, <1>2 DEF ListTypeInv, CallTypeInv
<1>6. AccountTypeInv'
  <2>1. Nothing \in [Ids -> 0 .. MaxVersion] /\ \A i \in Ids : Nothing[i] = 0
    BY VersionsAssumption DEF Nothing
  <2>2. \A i \in Ids : Version(i) \in Nat
    BY DEF HistoryInv
  <2>3. clicks' \in 0 .. MaxClicks
    BY ClicksAssumption DEF Select, Click, AccountTypeInv
  <2>4. QED
    BY <1>1, <1>2, <1>3, <2>1, <2>2, <2>3 DEF AccountTypeInv, Raced
<1>7. PendingInv'
  BY <1>1 DEF PendingInv, Flying
<1>8. CallInv'
  BY <1>1, <1>2, HandedTypes DEF CallInv, CallOK, Flying, Select
<1>9. FormInv'
  BY <1>1, HandedTypes DEF FormInv, Flying, Select
<1>10. ReportInv'
  <2>1. page \notin {"config", "feature", "targeting", "releases"} => (report = None)'
    BY <1>1 DEF ReportInv, Reported
  <2>2. ASSUME page \in {"config", "feature"}, ~raced'
        PROVE  ReportFits' /\ \A c \in Calls : ~Flying(c)'
    BY <1>1, <1>3, <2>2, ReportedFits DEF ReportInv, Raced, Flying
  <2>3. ASSUME page = "releases" PROVE ReportInv'
    <3>1. ReportFits'
      BY <2>3, ReportedFits DEF ReportInv
    <3>2. ASSUME NEW waits \in pending.busy PROVE WaiterOK(waits)'
      <4>1. waits.by \in Calls
        BY <2>3, <3>2 DEF PendingInv, Waited, InspectorPanels, ReleasePanels
      <4>2. QED
        BY <1>1, <2>3, <3>2, <4>1, WaiterStays
    <3>3. \A c \in Calls : Flying(c) => PublishOK(c)'
      BY <1>1, <1>2, <2>3 DEF ReportInv, PublishOK
    <3>4. QED
      BY <1>1, <2>3, <3>1, <3>2, <3>3 DEF ReportInv, Flying
  <2>4. QED
    BY <1>1, <2>1, <2>2, <2>3 DEF ReportInv
<1>11. ASSUME ~raced' PROVE OneCallInv' /\ EditorInv' /\ ListInv'
  <2>1. ~raced /\ UNCHANGED <<acked, told>> /\ \A c \in Calls : ~Flying(c) /\ ~Flying(c)'
    BY <1>1, <1>3, <1>11 DEF Raced, Flying
  <2>2. fetch = None
    BY <2>1 DEF ListInv, FetchOK, ListTypeInv, Requests
  <2>3. OneCallInv'
    BY <2>1 DEF OneCallInv
  <2>4. EditorInv'
    BY <1>1, <2>1 DEF EditorInv, InHand, Select
  <2>5. ListInv'
    BY <1>1, <2>1, <2>2 DEF ListInv, ListedUp, FetchOK, Up
  <2>6. QED
    BY <2>3, <2>4, <2>5
<1>12. raced' => OneCallInv' /\ EditorInv' /\ ListInv'
  BY DEF OneCallInv, EditorInv, ListInv
<1>13. QED
  BY <1>4, <1>5, <1>6, <1>7, <1>8, <1>9, <1>10, <1>11, <1>12

-----------------------------------------------------------------------------
\* The steps of a handler that has its answer.

\* The scope may change, but then calls are said to overlap.
Accounted ==
    \/ UNCHANGED <<scope, acked, told, raced>>
    \/ raced' = TRUE /\ acked' = Nothing /\ told' = Nothing /\ scope' \in Scopes

LEMMA AskedKeepsIInv ==
    ASSUME IInv, NEW c \in Calls, Answered(c, Writes), page \in Waited => calls[c].ok,
           Asks(c), Handed, Reported, Accounted, clicks' = clicks,
           IF page \in Waited THEN StillWaiting({}) ELSE pending' = pending,
           page \in {"deliveries"} =>
               editor' # None /\ editor'.id = calls[c].id /\ editor'.version = calls[c].version,
           page \in EditorPanels \cup {"accounts"} => editor' = editor
    PROVE  IInv'
<1> USE DEF IInv
<1>1. UNCHANGED <<page, services, history, blind, rows, loaded, failed>>
  BY DEF Asks, services
<1>2. \A i \in Ids : Version(i)' = Version(i) /\ Version(i) \in Nat
  BY <1>1, StillGrows, VersionsAssumption
<1>3. /\ Flying(c) /\ Flying(c)' /\ calls[c].stage = "answered" /\ calls[c].op \in Writes
      /\ calls'[c].op = calls[c].op /\ calls'[c].id = calls[c].id
      /\ calls'[c].sent = calls[c].sent /\ calls'[c].form = calls[c].form
      /\ calls'[c].inHand = calls[c].inHand /\ calls'[c].stage = "refreshing"
      /\ calls'[c].ok = calls[c].ok /\ calls'[c].version = calls[c].version
      /\ \A d \in Calls : d # c => calls'[d] = calls[d]
      /\ \A d \in Calls : Flying(d)' <=> Flying(d)
  BY DEF Asks, SameRequest, Alone, Flying, Answered
<1>4. /\ CallOK(c) /\ calls[c].id \in Ids /\ calls[c].version \in Nat
      /\ calls[c].op \notin {"get", "miss", "read", "look"}
  BY <1>3, CallFields DEF CallInv, Writes
<1>5. HistoryInv' /\ EditorTypeInv' /\ ReportTypeInv' /\ CallTypeInv'
  BY <1>1, HandedTypes, ReportedTypes DEF Asks
<1>6. ListTypeInv'
  BY <1>1, <1>2 DEF ListTypeInv, Asks, Accounted
<1>7. AccountTypeInv'
  <2>1. Nothing \in [Ids -> 0 .. MaxVersion] /\ \A i \in Ids : Nothing[i] = 0
    BY VersionsAssumption DEF Nothing
  <2>2. CASE UNCHANGED <<scope, acked, told, raced>>
    BY <1>1, <1>2, <2>2 DEF AccountTypeInv
  <2>3. CASE raced' = TRUE /\ acked' = Nothing /\ told' = Nothing
    BY <1>1, <1>2, <2>1, <2>3 DEF AccountTypeInv
  <2>4. QED
    BY <2>2, <2>3 DEF Accounted
<1>8. PendingInv'
  BY <1>1, <1>3 DEF PendingInv, StillWaiting, MarksOK
<1>9. CallInv'
  <2> SUFFICES ASSUME NEW d \in Calls, Flying(d)
               PROVE  CallOK(d)'
    BY <1>3 DEF CallInv
  <2>1. CallOK(d) /\ calls[d].id \in Ids
    BY CallFields DEF CallInv
  <2>2. CASE d = c
    BY <1>1, <1>2, <1>3, <1>4, <2>1, <2>2, HandedTypes DEF CallOK
  <2>3. CASE d # c
    BY <1>1, <1>2, <1>3, <2>1, <2>3, HandedTypes DEF CallOK
  <2>4. QED
    BY <2>2, <2>3
<1>10. FormInv'
  BY <1>1, <1>3, HandedTypes DEF FormInv
<1>11. ReportInv'
  <2>1. page \notin {"config", "feature", "targeting", "releases"} => (report = None)'
    BY <1>1 DEF ReportInv, Reported
  <2>2. ASSUME page \in {"config", "feature"}, ~raced'
        PROVE  ReportFits' /\ \A d \in Calls : Flying(d)' => AsksAbout(d)'
    <3>1. ~raced /\ editor' = editor
      BY <2>2 DEF Accounted, EditorPanels, AccountTypeInv
    <3>2. ReportFits'
      BY <2>2, <3>1, ReportedFits DEF ReportInv
    <3>3. \A d \in Calls : Flying(d) => AsksAbout(d)'
      BY <1>3, <1>4, <2>2, <3>1 DEF ReportInv, AsksAbout
    <3>4. QED
      BY <1>3, <3>2, <3>3
  <2>3. ASSUME page = "releases" PROVE ReportInv'
    <3>1. ReportFits'
      BY <2>3, ReportedFits DEF ReportInv
    <3>2. ASSUME NEW waits \in pending'.busy PROVE WaiterOK(waits)'
      <4>1. waits \in pending.busy /\ (editor' # editor => waits.of.version = 0)
        BY <2>3, <3>2 DEF StillWaiting, Waited, InspectorPanels, ReleasePanels
      <4>2. waits.by \in Calls
        BY <2>3, <4>1 DEF PendingInv, Waited, InspectorPanels, ReleasePanels
      <4>3. calls'[waits.by].op = "read" => calls'[waits.by] = calls[waits.by]
        BY <1>3, <1>4, <4>2
      <4>4. QED
        BY <2>3, <4>1, <4>2, <4>3, WaiterStays
    <3>3. \A d \in Calls : Flying(d) => PublishOK(d)'
      BY <1>2, <1>3, <1>4, <2>3, CallFields DEF ReportInv, PublishOK
    <3>4. QED
      BY <1>1, <1>3, <2>3, <3>1, <3>2, <3>3 DEF ReportInv
  <2>4. QED
    BY <1>1, <2>1, <2>2, <2>3 DEF ReportInv
<1>12. ASSUME ~raced' PROVE OneCallInv' /\ EditorInv' /\ ListInv'
  <2>1. ~raced /\ UNCHANGED <<scope, acked, told>>
    BY <1>12 DEF Accounted, AccountTypeInv
  <2>2. \A d \in Calls : Flying(d) => d = c
    BY <1>3, <2>1 DEF OneCallInv
  <2>3. ScopeOf[calls[c].id] = scope
    BY <1>3, <1>4, <2>1 DEF OneCallInv
  <2>4. OneCallInv'
    BY <1>1, <1>3, <2>1 DEF OneCallInv
  <2>5. EditorInv'
    <3>1. ASSUME page \in {"deliveries"} PROVE EditorInv'
      <4>1. page \notin EditorPanels /\ calls[c].ok
        BY <3>1 DEF EditorPanels, Waited, InspectorPanels, MailPanels, AnalyticsPanels
      <4>2. calls[c].version >= acked[calls[c].id]
        BY <1>3, <1>4, <2>1, <4>1 DEF OneCallInv
      <4>3. QED
        BY <1>1, <1>3, <2>1, <2>2, <3>1, <4>1, <4>2 DEF EditorInv, InHand
    <3>2. ASSUME page \in EditorPanels \cup {"accounts"} PROVE EditorInv'
      <4>1. editor' = editor
        BY <3>2
      <4>2. page \notin {"deliveries"}
        BY <3>2 DEF EditorPanels
      <4>3. QED
        BY <1>1, <1>3, <2>1, <2>2, <4>1, <4>2 DEF EditorInv, InHand
    <3>3. QED
      BY <1>1, <3>1, <3>2 DEF EditorInv, FilledFromAnswers
  <2>6. ListedUp'
    BY <1>1, <2>1 DEF ListInv, ListedUp, Up
  <2>7. FetchOK'
    BY <1>1, <1>2, <1>3, <1>4, <2>1 DEF FetchOK, Asks, Up, AccountTypeInv, CallOK
  <2>8. \A d \in Calls : Flying(d)' => CaughtUp(d)'
    BY <1>3, <2>2 DEF CaughtUp, Asks
  <2>9. QED
    BY <2>4, <2>5, <2>6, <2>7, <2>8 DEF ListInv
<1>13. raced' => OneCallInv' /\ EditorInv' /\ ListInv'
  BY DEF OneCallInv, EditorInv, ListInv
<1>14. QED
  BY <1>5, <1>6, <1>7, <1>8, <1>9, <1>10, <1>11, <1>12, <1>13

\* The page counts what the call brought, or the handler says nothing of it.
Counted(c) ==
    \/ /\ \A id \in Ids :
             /\ acked'[id] = IF ~raced /\ calls[c].ok /\ calls[c].op \in Writes /\ id = calls[c].id
                             THEN calls[c].version ELSE acked[id]
             /\ told'[id] = IF ~raced /\ ~calls[c].ok /\ calls[c].version > 0 /\ id = calls[c].id
                            THEN calls[c].version ELSE told[id]
    \/ page = "objects" /\ acked' = acked /\ told' = told

\* What was written is in the list, for it was fetched, or is put there.
Listing(c) ==
    /\ UNCHANGED <<loaded, failed>>
    /\ fetch' = fetch \/ fetch' = None
    /\ \/ rows' = rows
       \/ /\ calls[c].ok /\ calls[c].op \in Writes
          /\ rows' = [rows EXCEPT ![calls[c].id] = calls[c].version]
    /\ calls[c].op \in Writes /\ (calls[c].ok \/ page \in AlwaysRefresh) =>
          \/ Refreshed(c)
          \/ calls[c].ok /\ rows' = [rows EXCEPT ![calls[c].id] = calls[c].version]
          \/ page = "objects" /\ acked' = acked /\ told' = told

\* What was answered is taken in hand.
TakesInHand(c) ==
    /\ editor' # None /\ editor'.id = calls[c].id /\ editor'.version = calls[c].version
    /\ calls[c].ok
    /\ calls[c].op # "look"

\* The copy in hand stays: nothing was written, or it is there by now, or it is
\* a copy of another record.
LeavesInHand(c) ==
    /\ editor' = editor
    /\ calls[c].ok /\ calls[c].op \in Writes =>
          \/ /\ page \in EditorPanels
             /\ calls[c].op \in {"archive", "restore"} /\ ~calls[c].inHand
          \/ page \in {"deliveries"} /\ calls[c].stage = "refreshing"

LEMMA OverKeepsIInv ==
    ASSUME IInv, NEW c \in Calls, Flying(c), calls[c].stage # "sent",
           calls[c].stage = "refreshing" => ~Awaits(c),
           calls'[c] = None, Alone(c), CallTypeInv',
           acked' \in [Ids -> 0 .. MaxVersion], told' \in [Ids -> 0 .. MaxVersion],
           Counted(c), Listing(c), Handed, Reported \/ Result(c),
           IF page \in Waited THEN StillWaiting({c}) ELSE pending' = None,
           page \in FilledFromAnswers => TakesInHand(c) \/ LeavesInHand(c),
           UNCHANGED <<page, services, scope, clicks, raced>>
    PROVE  IInv'
<1> USE DEF IInv
<1>1. UNCHANGED <<page, history, blind, scope, clicks, raced>>
  BY DEF services
<1>2. \A i \in Ids : Version(i)' = Version(i) /\ Version(i) \in Nat
  BY StillGrows, VersionsAssumption
<1>3. /\ \A d \in Calls : d # c => calls'[d] = calls[d] /\ (Flying(d)' <=> Flying(d))
      /\ ~Flying(c)'
  BY DEF Alone, Flying
<1>4. CallOK(c) /\ calls[c].id \in Ids /\ calls[c].version \in 0 .. MaxVersion /\ calls[c].ok \in BOOLEAN
  BY CallFields DEF CallInv
<1>5. HistoryInv' /\ EditorTypeInv' /\ CallTypeInv'
  BY HandedTypes
<1>6. ReportTypeInv'
  <2>1. CASE Reported
    BY <2>1, ReportedTypes
  <2>2. CASE Result(c)
    BY <1>2, <1>4, <2>2 DEF Result, ReportTypeInv, CallOK
  <2>3. QED
    BY <2>1, <2>2
<1>7. ListTypeInv'
  BY <1>1, <1>2, <1>4 DEF ListTypeInv, Listing, CallOK
<1>8. AccountTypeInv'
  BY <1>1, <1>2, <1>4 DEF AccountTypeInv, Counted, CallOK
<1>9. PendingInv'
  BY <1>1, <1>3 DEF PendingInv, StillWaiting, MarksOK
<1>10. CallInv'
  <2> SUFFICES ASSUME NEW d \in Calls, Flying(d)'
               PROVE  CallOK(d)'
    BY DEF CallInv
  <2>1. d # c /\ CallOK(d) /\ calls[d].id \in Ids
    BY <1>3, CallFields DEF CallInv
  <2>2. QED
    BY <1>1, <1>2, <1>3, <2>1, HandedTypes DEF CallOK
<1>11. FormInv'
  BY <1>1, <1>3, HandedTypes DEF FormInv
<1>12. ReportInv'
  <2>1. page \notin {"config", "feature", "targeting", "releases"} => (report = None)'
    BY <1>1 DEF ReportInv, Reported, Result
  <2>2. ASSUME page \in {"config", "feature"}, ~raced
        PROVE  ReportFits' /\ \A d \in Calls : ~Flying(d)'
    <3>1. \A d \in Calls : ~Flying(d)'
      BY <1>3, <2>2 DEF OneCallInv
    <3>2. CASE Reported
      BY <2>2, <3>1, <3>2, ReportedFits DEF ReportInv
    <3>3. CASE Result(c)
      BY <2>2, <3>1, <3>3 DEF ReportInv, ReportFits, Result, AsksAbout
    <3>4. QED
      BY <3>2, <3>3
  <2>3. ASSUME page = "releases" PROVE ReportInv'
    <3>0. page \in Waited
      BY <2>3 DEF Waited, InspectorPanels, ReleasePanels
    <3>1. ReportFits'
      <4>1. CASE Reported
        BY <2>3, <4>1, ReportedFits DEF ReportInv
      <4>2. CASE Result(c)
        <5>1. PICK waits \in pending.busy : waits.by = c
          BY <2>3, <4>2 DEF Result
        <5>2. WaiterOK(waits)
          BY <2>3, <5>1 DEF ReportInv
        <5>3. QED
          BY <4>2, <5>1, <5>2 DEF WaiterOK, AsksAbout, Result, ReportFits
      <4>3. QED
        BY <4>1, <4>2
    <3>2. ASSUME NEW waits \in pending'.busy PROVE WaiterOK(waits)'
      <4>1. waits \in pending.busy /\ waits.by # c /\ (editor' # editor => waits.of.version = 0)
        BY <2>3, <3>0, <3>2 DEF StillWaiting
      <4>2. waits.by \in Calls
        BY <3>0, <4>1 DEF PendingInv
      <4>3. calls'[waits.by] = calls[waits.by]
        BY <1>3, <4>1, <4>2
      <4>4. QED
        BY <2>3, <4>1, <4>2, <4>3, WaiterStays
    <3>3. \A d \in Calls : Flying(d)' => PublishOK(d)'
      BY <1>2, <1>3, <2>3, CallFields DEF ReportInv, PublishOK
    <3>4. QED
      BY <1>1, <2>3, <3>1, <3>2, <3>3 DEF ReportInv
  <2>4. QED
    BY <1>1, <2>1, <2>2, <2>3 DEF ReportInv
<1>13. ASSUME ~raced PROVE OneCallInv' /\ EditorInv' /\ ListInv'
  <2>1. \A d \in Calls : ~Flying(d)'
    BY <1>3, <1>13 DEF OneCallInv
  <2>2. fetch = None /\ fetch' = None
    BY <1>13, NothingFetched DEF Listing
  <2>3. calls[c].op # "look" => ScopeOf[calls[c].id] = scope
    BY <1>13 DEF OneCallInv
  <2>4. calls[c].op # "look" /\ (calls[c].ok \/ calls[c].version > 0) =>
            calls[c].version >= acked[calls[c].id] /\ calls[c].version >= told[calls[c].id]
    BY <1>13 DEF OneCallInv
  <2>5. OneCallInv'
    BY <2>1 DEF OneCallInv
  <2>6. EditorInv'
    <3> SUFFICES ASSUME page \in FilledFromAnswers, InHand'
                 PROVE  /\ editor'.version >= acked'[editor'.id]
                        /\ page \in EditorPanels => ScopeOf[editor'.id] = scope
      BY <1>1, <2>1 DEF EditorInv
    <3>1. page # "objects"
      BY DEF FilledFromAnswers, EditorPanels
    <3>2. CASE TakesInHand(c)
      BY <1>4, <2>3, <2>4, <3>1, <3>2 DEF TakesInHand, Counted
    <3>3. CASE LeavesInHand(c)
      <4>1. InHand /\ editor.version >= acked[editor.id]
            /\ (page \in EditorPanels => ScopeOf[editor.id] = scope)
        BY <1>13, <3>3 DEF LeavesInHand, EditorInv, InHand
      <4>2. calls[c].ok /\ calls[c].op \in Writes /\ editor.id = calls[c].id =>
                editor.version = calls[c].version
        BY <1>13, <3>3, <4>1 DEF LeavesInHand, EditorInv
      <4>3. editor.id \in Ids
        BY <4>1 DEF InHand, EditorTypeInv, Copies
      <4>4. acked'[editor.id] = acked[editor.id] \/ acked'[editor.id] = editor.version
        BY <3>1, <4>2, <4>3 DEF Counted
      <4>5. editor.version \in Nat
        BY <4>1 DEF InHand, EditorTypeInv, Copies
      <4>6. QED
        BY <3>3, <4>1, <4>4, <4>5 DEF LeavesInHand
    <3>4. QED
      BY <3>2, <3>3
  <2>7. ListedUp'
    <3> SUFFICES ASSUME NEW s \in loaded \ failed, NEW id \in Ids, ScopeOf[id] = s
                 PROVE  Up(id, rows[id])'
      BY DEF ListedUp, Listing
    <3>1. Up(id, rows[id])
      BY <1>13 DEF ListInv, ListedUp
    <3>2. rows[id] \in Nat /\ acked[id] \in Nat /\ told[id] \in Nat
      BY DEF ListTypeInv, AccountTypeInv
    <3>3. CASE id # calls[c].id
      BY <1>1, <1>4, <3>1, <3>3 DEF Up, Counted, Listing, ListTypeInv
    <3>4. CASE id = calls[c].id /\ calls[c].op \notin Writes
      BY <1>1, <1>4, <3>1, <3>4 DEF Up, Counted, Listing, CallOK
    <3>5. CASE id = calls[c].id /\ calls[c].op \in Writes
      <4>1. ScopeOf[id] = scope
        BY <2>3, <3>5 DEF Writes
      <4>2. Refreshed(c) => rows[id] >= calls[c].version
        BY <1>13, <2>2, <3>5, <4>1 DEF Refreshed, ListInv, CaughtUp
      <4>3. calls[c].ok => calls[c].version >= acked[id] /\ calls[c].version >= told[id]
        BY <2>4, <3>5 DEF Writes
      <4>4. rows'[id] = rows[id] \/ (calls[c].ok /\ rows'[id] = calls[c].version)
        BY <3>5 DEF Listing, ListTypeInv
      <4>5. page = "objects" => page \notin AlwaysRefresh
        BY DEF AlwaysRefresh, EditorPanels, PlatformPanels, AuthorizationPanels, IdentityPanels
      <4>6. CASE page = "objects" /\ acked' = acked /\ told' = told
        BY <1>1, <1>4, <3>1, <3>2, <4>3, <4>4, <4>5, <4>6 DEF Up
      <4>7. CASE ~(page = "objects" /\ acked' = acked /\ told' = told)
        <5>1. /\ acked'[id] = IF calls[c].ok THEN calls[c].version ELSE acked[id]
              /\ told'[id] = IF ~calls[c].ok /\ calls[c].version > 0 THEN calls[c].version ELSE told[id]
          BY <1>13, <3>5, <4>7 DEF Counted
        <5>2. calls[c].ok \/ page \in AlwaysRefresh =>
                Refreshed(c) \/ (calls[c].ok /\ rows'[id] = calls[c].version)
          BY <3>5, <4>7 DEF Listing, ListTypeInv
        <5>3. QED
          BY <1>1, <1>4, <3>1, <3>2, <4>2, <4>3, <4>4, <5>1, <5>2 DEF Up
      <4>8. QED
        BY <4>6, <4>7
    <3>6. QED
      BY <3>3, <3>4, <3>5
  <2>8. QED
    BY <2>1, <2>2, <2>5, <2>6, <2>7 DEF ListInv, FetchOK
<1>14. raced => OneCallInv' /\ EditorInv' /\ ListInv'
  BY <1>1 DEF OneCallInv, EditorInv, ListInv
<1>15. QED
  BY <1>5, <1>6, <1>7, <1>8, <1>9, <1>10, <1>11, <1>12, <1>13, <1>14

\* The rollback of a release: what was read is named in a command.
LEMMA RollBackKeepsIInv ==
    ASSUME IInv, NEW c \in Calls, page = "releases", Release!RollbackDesktopRelease(c)
    PROVE  IInv'
<1> USE DEF IInv
<1> DEFINE new == [calls[c] EXCEPT !.op = "touch", !.sent = calls[c].version,
                                   !.stage = "sent", !.ok = FALSE, !.version = 0]
<1>1. /\ Flying(c) /\ calls[c].stage = "answered" /\ calls[c].op = "get"
      /\ calls' = [calls EXCEPT ![c] = new]
  BY DEF Release!RollbackDesktopRelease, Release!Answered, Flying, CallTypeInv
<1>2. UNCHANGED <<page, history, blind, scope, rows, loaded, fetch, failed, editor, report, pending,
                  acked, told, clicks, raced>>
  BY DEF Release!RollbackDesktopRelease, Release!services, Release!cache, Release!copies
<1>3. calls[c] \in Call
  BY <1>1, CallFields
<1>4. new \in Call
  <2>1. "touch" \in Operations /\ "sent" \in Stages /\ 0 \in 0 .. MaxVersion
    BY VersionsAssumption DEF Operations, Writes, Stages
  <2>2. calls[c].version \in 0 .. MaxVersion
    BY <1>3 DEF Call
  <2>3. QED
    BY <1>3, <2>1, <2>2 DEF Call
<1>5. /\ new.op = "touch" /\ new.id = calls[c].id /\ new.stage = "sent" /\ ~new.ok
      /\ new.version = 0 /\ new.inHand = calls[c].inHand
  BY <1>3 DEF Call
<1> HIDE DEF new
<1>6. CallTypeInv' /\ Alone(c) /\ calls'[c] = new /\ calls'[c] # None
  BY <1>1, <1>4, CallTypeStep
<1>7. /\ \A d \in Calls : d # c => calls'[d] = calls[d]
      /\ \A d \in Calls : Flying(d)' <=> Flying(d)
  BY <1>1, <1>6 DEF Alone, Flying
<1>8. page \in Waited /\ page \notin FilledFromAnswers /\ page \notin {"config", "feature", "targeting"}
  BY DEF Waited, InspectorPanels, ReleasePanels, FilledFromAnswers, EditorPanels
<1>9. \A i : Version(i)' = Version(i)
  BY <1>2 DEF Version
<1>10. HistoryInv' /\ ListTypeInv' /\ EditorTypeInv' /\ ReportTypeInv' /\ AccountTypeInv'
  BY <1>2, <1>9 DEF HistoryInv, ListTypeInv, EditorTypeInv, ReportTypeInv, AccountTypeInv
<1>11. PendingInv'
  BY <1>2, <1>5, <1>6, <1>7, <1>8 DEF PendingInv
<1>12. CallInv'
  <2> SUFFICES ASSUME NEW d \in Calls, Flying(d)
               PROVE  CallOK(d)'
    BY <1>7 DEF CallInv
  <2>1. CallOK(d) /\ calls[d].id \in Ids
    BY CallFields DEF CallInv
  <2>2. Version(calls[d].id) \in Nat
    BY <2>1 DEF HistoryInv
  <2>3. CASE d = c
    BY <1>2, <1>5, <1>6, <1>8, <1>9, <2>1, <2>2, <2>3 DEF CallOK, Writes
  <2>4. CASE d # c
    BY <1>2, <1>7, <1>9, <2>1, <2>4 DEF CallOK
  <2>5. QED
    BY <2>3, <2>4
<1>13. FormInv'
  BY <1>2, <1>5, <1>6, <1>7 DEF FormInv
<1>14. ReportInv'
  <2>1. ReportFits'
    BY <1>2 DEF ReportInv, ReportFits
  <2>2. ASSUME NEW waits \in pending.busy PROVE WaiterOK(waits)'
    <3>1. waits.by \in Calls
      BY <1>8, <2>2 DEF PendingInv
    <3>2. calls'[waits.by].op = "read" => calls'[waits.by] = calls[waits.by]
      BY <1>5, <1>6, <1>7, <3>1
    <3>3. QED
      BY <1>2, <2>2, <3>1, <3>2, WaiterStays
  <2>3. \A d \in Calls : Flying(d) => PublishOK(d)'
    BY <1>1, <1>5, <1>6, <1>7, <1>9, CallFields DEF ReportInv, PublishOK
  <2>4. QED
    BY <1>2, <1>7, <1>8, <2>1, <2>2, <2>3 DEF ReportInv
<1>15. OneCallInv'
  BY <1>1, <1>2, <1>5, <1>6, <1>7 DEF OneCallInv
<1>16. EditorInv'
  BY <1>2, <1>8 DEF EditorInv
<1>17. ListInv'
  <2> SUFFICES ASSUME ~raced PROVE ListInv'
    BY <1>2 DEF ListInv
  <2>1. fetch = None
    BY <1>1, NothingFetched
  <2>2. QED
    BY <1>2, <1>5, <1>6, <1>7, <2>1 DEF ListInv, ListedUp, FetchOK, CaughtUp, Up
<1>18. QED
  BY <1>6, <1>10, <1>11, <1>12, <1>13, <1>14, <1>15, <1>16, <1>17

-----------------------------------------------------------------------------
(***************************************************************************)
(* What the handlers of the pages are made of.                             *)
(***************************************************************************)

LEMMA Numbers == 0 \in 0 .. MaxVersion /\ MaxVersion \in Nat
BY VersionsAssumption

LEMMA SomethingIsARecord == Something \in Ids
BY IdsAssumption DEF Something

LEMMA DisplayedFacts ==
    ASSUME IInv, NEW id \in Displayed
    PROVE  /\ id \in Ids /\ rows[id] \in 0 .. MaxVersion /\ rows[id] > 0
           /\ rows[id] <= Version(id) /\ Version(id) \in Nat /\ Version(id) > 0
<1>1. id \in Ids /\ rows[id] > 0
  BY DEF Displayed
<1>2. rows[id] \in 0 .. MaxVersion /\ rows[id] <= Version(id)
  BY <1>1 DEF IInv, ListTypeInv
<1>3. Version(id) \in 0 .. MaxVersion
  BY <1>1 DEF IInv, HistoryInv
<1>4. QED
  BY <1>1, <1>2, <1>3, Numbers

LEMMA EditorFacts ==
    ASSUME IInv, editor # None
    PROVE  /\ editor \in Copies /\ editor.id \in Ids
           /\ editor.version \in 0 .. MaxVersion /\ editor.form \in 0 .. MaxVersion
           /\ editor.version <= Version(editor.id) /\ Version(editor.id) \in Nat
           /\ page # "targeting" => editor.form = editor.version
<1>1. editor \in Copies /\ editor.version <= Version(editor.id)
  BY DEF IInv, EditorTypeInv
<1>2. /\ editor.id \in Ids /\ editor.version \in 0 .. MaxVersion /\ editor.form \in 0 .. MaxVersion
  BY <1>1 DEF Copies
<1>3. Version(editor.id) \in Nat
  BY <1>2, Numbers DEF IInv, HistoryInv
<1>4. page # "targeting" => editor.form = editor.version
  BY DEF IInv, FormInv
<1>5. QED
  BY <1>1, <1>2, <1>3, <1>4

LEMMA CopyFacts ==
    ASSUME NEW id \in Ids, NEW version \in 0 .. MaxVersion
    PROVE  /\ Copy(id, version) \in Copies /\ Copy(id, version) # None
           /\ Copy(id, version).id = id
           /\ Copy(id, version).version = version
           /\ Copy(id, version).form = version
BY RecordsAssumption DEF Copy, Copies

\* A version of a record that the page was told is taken in hand.
LEMMA CopyIsHanded ==
    ASSUME NEW id \in Ids, NEW version \in 0 .. MaxVersion, version <= Version(id), version > 0,
           editor' = Copy(id, version)
    PROVE  Handed /\ editor' # None /\ editor'.id = id /\ editor'.version = version
BY CopyFacts DEF Handed

LEMMA AnswerFacts ==
    ASSUME IInv, NEW c \in Calls, Flying(c)
    PROVE  /\ calls[c].id \in Ids /\ calls[c].version \in 0 .. MaxVersion
           /\ calls[c].version <= Version(calls[c].id) /\ calls[c].op \in Operations
           /\ calls[c].ok \in BOOLEAN /\ calls[c].inHand \in BOOLEAN
           /\ calls[c].ok /\ calls[c].op \in Writes \cup {"get", "miss"} => calls[c].version > 0
BY CallFields DEF IInv, CallInv, CallOK

-----------------------------------------------------------------------------
\* A command of a page that marks itself busy with one thing.

LEMMA ClickKeepsIInv ==
    ASSUME IInv, page \notin Waited, NEW c \in Calls, NEW op \in Operations, NEW id \in Ids,
           NEW sent \in 0 .. MaxVersion, NEW form \in 0 .. MaxVersion,
           Ask(c, op, id, sent, form), MayAsk(op, id, sent, form),
           NEW key, NEW marked \in Ids, Busy(key, marked)
    PROVE  IInv'
<1>1. Sent(c, op, id, sent, form)
  BY AskSends DEF IInv
<1>2. Waits(c, op, sent) /\ UNCHANGED copies
  BY DEF Waits, Busy
<1>3. QED
  BY <1>1, <1>2, SentKeepsIInv

LEMMA LookClickKeepsIInv ==
    ASSUME IInv, page \notin Waited, NEW c \in Calls, Look(c),
           NEW key, NEW marked \in Ids, Busy(key, marked)
    PROVE  IInv'
<1>1. "look" \in Operations /\ MayAsk("look", Something, 0, 0)
  BY DEF Operations, MayAsk
<1>2. QED
  BY <1>1, Numbers, SomethingIsARecord, ClickKeepsIInv DEF Look

\* A row is fetched by such a page.
LEMMA FetchClickKeepsIInv ==
    ASSUME IInv, page \notin Waited, NEW c \in Calls, NEW id \in Displayed, AskFor(c, id),
           NEW key, NEW marked \in Ids, Busy(key, marked)
    PROVE  IInv'
<1>1. PICK op \in {"get", "miss"} : Ask(c, op, id, 0, 0)
  BY DEF AskFor
<1>2. op \in Operations /\ MayAsk(op, id, 0, 0) /\ id \in Ids
  BY DisplayedFacts DEF Operations, MayAsk
<1>3. QED
  BY <1>1, <1>2, Numbers, ClickKeepsIInv

LEMMA RefreshKeepsIInv ==
    ASSUME IInv, NEW c \in Calls, Answered(c, Writes), page \in Waited => calls[c].ok, Refresh(c),
           page \notin {"deliveries"}
    PROVE  IInv'
<1>1. Flying(c)
  BY DEF Answered, Flying
<1>2. Asks(c) /\ UNCHANGED <<scope, acked, told, clicks, raced>>
  BY <1>1, AskForListAsks DEF Refresh, IInv
<1>3. UNCHANGED <<editor, report, pending>>
  BY DEF Refresh, copies
<1>4. Handed /\ Reported /\ Accounted
  BY <1>2, <1>3 DEF Handed, Reported, Accounted
<1>5. page \in Waited => StillWaiting({})
  BY <1>3 DEF StillWaiting, MarksOK, IInv, PendingInv
<1>6. QED
  BY <1>2, <1>3, <1>4, <1>5, AskedKeepsIInv

\* The handler returns, and the list stays as it is.
LEMMA ReturnKeepsIInv ==
    ASSUME IInv, NEW c \in Calls, Flying(c), Return(c), UNCHANGED cache,
           \/ Refreshed(c)
           \/ /\ calls[c].stage = "answered"
              /\ calls[c].op \in Writes => ~calls[c].ok /\ page \notin AlwaysRefresh,
           Handed, Reported \/ Result(c),
           IF page \in Waited THEN StillWaiting({c}) ELSE pending' = None,
           page \in FilledFromAnswers => TakesInHand(c) \/ LeavesInHand(c)
    PROVE  IInv'
<1>1. Over(c)
  BY ReturnIsOver DEF IInv
<1>2. calls[c].stage # "sent" /\ (calls[c].stage = "refreshing" => ~Awaits(c))
  BY DEF Refreshed
<1>3. Counted(c)
  BY <1>1 DEF Over, Counted
<1>4. Listing(c)
  BY DEF Listing, cache
<1>5. QED
  BY <1>1, <1>2, <1>3, <1>4, OverKeepsIInv DEF Over

\* Another scope is selected on a page that leaves the rest as it is.
LEMMA SelectScopeKeepsIInv ==
    ASSUME IInv, NEW s \in Scopes, Select(s), UNCHANGED <<copies, pending>>,
           page \notin EditorPanels
    PROVE  IInv'
<1>1. Handed /\ Reported
  BY DEF Handed, Reported, copies
<1>2. QED
  BY <1>1, SelectKeepsIInv DEF copies

\* A copy is chosen or let go.
LEMMA ChooseCopyKeepsIInv ==
    ASSUME IInv, page \notin FilledFromAnswers \cup Waited,
           editor' = None \/ \E id \in Ids, version \in 0 .. MaxVersion :
                                version <= Version(id) /\ editor' = Copy(id, version),
           UNCHANGED <<page, services, scope, cache, report, pending, calls, acked, told,
                       clicks, raced>>
    PROVE  IInv'
<1>1. page \notin InspectorPanels /\ page \notin {"config", "feature", "releases", "targeting"}
  BY DEF Waited, FilledFromAnswers, EditorPanels, InspectorPanels, ReleasePanels
<1>2. Handed
  BY <1>1, CopyFacts DEF Handed
<1>3. Reported
  BY <1>1 DEF Reported
<1>4. QED
  BY <1>2, <1>3, TurnKeepsIInv

-----------------------------------------------------------------------------
(***************************************************************************)
(* The page of the platform.                                               *)
(***************************************************************************)

LEMMA PlatformIsConsole ==
    /\ \A c, op, id, sent, form :
          Platform!Ask(c, op, id, sent, form) <=> Ask(c, op, id, sent, form)
    /\ \A key, id : Platform!Busy(key, id) <=> Busy(key, id)
    /\ \A s : Platform!Select(s) <=> Select(s)
    /\ \A c, ops : Platform!Answered(c, ops) <=> Answered(c, ops)
    /\ \A c : Platform!Refresh(c) <=> Refresh(c)
    /\ \A c : Platform!Refreshed(c) <=> Refreshed(c)
    /\ \A c : Platform!Return(c) <=> Return(c)
    /\ Platform!Displayed = Displayed
    /\ \A id, version : Platform!Copy(id, version) = Copy(id, version)
    /\ Platform!Writes = Writes
    /\ (Platform!copies = copies) /\ (Platform!copies = copies)'
    /\ (Platform!cache = cache) /\ (Platform!cache = cache)'
    /\ (Platform!services = services) /\ (Platform!services = services)'
BY DEF Platform!Ask, Platform!Busy, Platform!Select, Platform!Answered, Platform!Refresh,
       Platform!Refreshed, Platform!Return, Platform!Displayed, Platform!Copy, Platform!Writes,
       Platform!Click, Platform!Races, Platform!Nothing, Platform!InHand, Platform!AskForList,
       Platform!Mutate, Platform!Awaits, Platform!Version,
       Platform!services, Platform!cache, Platform!copies,
       Ask, Busy, Select, Answered, Refresh, Refreshed, Return, Displayed, Copy, Writes,
       Click, Races, Nothing, InHand, AskForList, Mutate, Awaits, Version, services, cache, copies

LEMMA PlatformPages ==
    ASSUME page \in PlatformPanels
    PROVE  /\ page \notin Waited /\ page \in Loose /\ page \notin FilledFromAnswers
           /\ page \notin EditorPanels
           /\ page \notin {"config", "feature", "targeting", "releases", "deliveries"}
BY DEF PlatformPanels, Waited, Loose, FilledFromAnswers, EditorPanels, InspectorPanels, StoragePanels,
       MailPanels, TelemetryPanels, ReleasePanels, AnalyticsPanels

\* A command of one of its panels.
LEMMA PlatformSends ==
    ASSUME IInv, page \in PlatformPanels, NEW c \in Calls,
           NEW op \in Writes, NEW id \in Ids,
           NEW sent \in 0 .. MaxVersion, NEW form \in 0 .. MaxVersion,
           Ask(c, op, id, sent, form), NEW key, Busy(key, id)
    PROVE  IInv'
<1>1. op \in Operations /\ op \notin {"read", "get", "miss"}
  BY DEF Operations, Writes
<1>2. MayAsk(op, id, sent, form)
  BY <1>1, PlatformPages DEF MayAsk
<1>3. QED
  BY <1>1, <1>2, PlatformPages, ClickKeepsIInv

LEMMA PlatformKeepsIInv ==
    ASSUME IInv, page \in PlatformPanels, Platform!Next
    PROVE  IInv'
<1> USE PlatformIsConsole
<1>1. /\ \A id \in Displayed : id \in Ids /\ rows[id] \in 0 .. MaxVersion /\ rows[id] <= Version(id)
      /\ \A id \in Ids : rows[id] \in 0 .. MaxVersion
      /\ 0 \in 0 .. MaxVersion
      /\ {"create", "edit", "archive", "restore"} \subseteq Writes
  BY DisplayedFacts, Numbers DEF IInv, ListTypeInv, Writes
<1>2. ASSUME NEW s \in Scopes, Platform!SelectScope(s) \/ Platform!Search(s) \/ Platform!TurnPage(s)
      PROVE  IInv'
  BY <1>2, PlatformPages, SelectScopeKeepsIInv
     DEF Platform!SelectScope, Platform!Search, Platform!TurnPage
<1>3. ASSUME Platform!CancelEdit
      PROVE  IInv'
  BY <1>3, PlatformPages, ChooseCopyKeepsIInv DEF Platform!CancelEdit
<1>4. ASSUME NEW id \in Displayed, Platform!BeginEdit(id)
      PROVE  IInv'
  BY <1>1, <1>4, PlatformPages, ChooseCopyKeepsIInv DEF Platform!BeginEdit, Platform!Row
<1>5. ASSUME NEW c \in Calls, NEW op \in Writes, NEW id \in Ids, NEW sent \in 0 .. MaxVersion,
             NEW form \in 0 .. MaxVersion, NEW key, Ask(c, op, id, sent, form), Busy(key, id)
      PROVE  IInv'
  BY <1>5, PlatformSends
<1>6. \A id \in Ids : Platform!Row(id).id = id /\ Platform!Row(id).version = rows[id]
  BY <1>1, CopyFacts DEF Platform!Row
<1>7. ASSUME NEW c \in Calls, Platform!TenantPanel(c)
      PROVE  IInv'
  <2>1. ASSUME Platform!TenantRows(c) PROVE IInv'
    BY <1>1, <1>4, <1>5, <1>6, <2>1
       DEF Platform!TenantRows, Platform!ListTenants, Platform!ArchiveTenant, Platform!RestoreTenant
  <2>2. ASSUME Platform!SubmitTenantCreate(c) PROVE IInv'
    BY <1>1, <1>5, <2>2
       DEF Platform!SubmitTenantCreate, Platform!CreateTenant, Platform!Fresh
  <2>3. ASSUME Platform!SubmitTenantEdit(c) PROVE IInv'
    BY <1>1, <1>5, <1>6, <2>3, EditorFacts
       DEF Platform!SubmitTenantEdit, Platform!UpdateTenant, Platform!EditForm
  <2>4. QED
    BY <1>7, <2>1, <2>2, <2>3 DEF Platform!TenantPanel
<1>8. ASSUME NEW c \in Calls, Platform!ApplicationPanel(c)
      PROVE  IInv'
  <2>1. ASSUME Platform!ApplicationRows(c) PROVE IInv'
    BY <1>1, <1>4, <1>5, <1>6, <2>1
       DEF Platform!ApplicationRows, Platform!ListApplications, Platform!ArchiveApplication, Platform!RestoreApplication
  <2>2. ASSUME Platform!SubmitApplicationCreate(c) PROVE IInv'
    BY <1>1, <1>5, <2>2
       DEF Platform!SubmitApplicationCreate, Platform!CreateApplication, Platform!Fresh
  <2>3. ASSUME Platform!SubmitApplicationEdit(c) PROVE IInv'
    BY <1>1, <1>5, <1>6, <2>3, EditorFacts
       DEF Platform!SubmitApplicationEdit, Platform!UpdateApplication, Platform!EditForm
  <2>4. QED
    BY <1>8, <2>1, <2>2, <2>3 DEF Platform!ApplicationPanel
<1>9. ASSUME NEW c \in Calls, Platform!EnvironmentPanel(c)
      PROVE  IInv'
  <2>1. ASSUME Platform!EnvironmentRows(c) PROVE IInv'
    BY <1>1, <1>4, <1>5, <1>6, <2>1
       DEF Platform!EnvironmentRows, Platform!ListEnvironments, Platform!ArchiveEnvironment, Platform!RestoreEnvironment
  <2>2. ASSUME Platform!SubmitEnvironmentCreate(c) PROVE IInv'
    BY <1>1, <1>5, <2>2
       DEF Platform!SubmitEnvironmentCreate, Platform!CreateEnvironment, Platform!Fresh, Platform!EnvironmentForm
  <2>3. ASSUME Platform!SubmitEnvironmentEdit(c) PROVE IInv'
    BY <1>1, <1>5, <1>6, <2>3, EditorFacts
       DEF Platform!SubmitEnvironmentEdit, Platform!UpdateEnvironment, Platform!EditForm
  <2>4. QED
    BY <1>9, <2>1, <2>2, <2>3 DEF Platform!EnvironmentPanel
<1>10. ASSUME NEW c \in Calls, Platform!MembershipPanel(c)
      PROVE  IInv'
  <2>1. ASSUME Platform!MembershipRows(c) PROVE IInv'
    BY <1>1, <1>5, <1>6, <2>1
       DEF Platform!MembershipRows, Platform!ListTenantMemberships,
           Platform!RemoveTenantMembership, Platform!SetTenantMembership
  <2>2. ASSUME Platform!SubmitMembership(c) PROVE IInv'
    BY <1>1, <1>5, <2>2
       DEF Platform!SubmitMembership, Platform!SetTenantMembership, Platform!MembershipForm,
           Platform!Fresh, Platform!ListTenantMemberships
  <2>3. QED
    BY <1>10, <2>1, <2>2 DEF Platform!MembershipPanel
<1>11. ASSUME NEW c \in Calls, Platform!RunMutation(c)
      PROVE  IInv'
  BY <1>11, PlatformPages, RefreshKeepsIInv DEF Platform!RunMutation
<1>12. ASSUME NEW c \in Calls, Platform!MutationOver(c)
      PROVE  IInv'
  <2>1. Refreshed(c) /\ Flying(c) /\ Return(c) /\ UNCHANGED cache /\ pending' = None
    BY <1>12 DEF Platform!MutationOver, Refreshed, Flying
  <2>2. (editor' = None \/ editor' = editor) /\ report' = report
    BY <1>12 DEF Platform!MutationOver
  <2>3. Handed /\ Reported
    BY <2>2, PlatformPages DEF Handed, Reported
  <2>4. QED
    BY <2>1, <2>3, PlatformPages, ReturnKeepsIInv
<1>13. QED
  BY <1>2, <1>3, <1>7, <1>8, <1>9, <1>10, <1>11, <1>12 DEF Platform!Next

-----------------------------------------------------------------------------
(***************************************************************************)
(* The page of authorization.                                              *)
(***************************************************************************)

LEMMA AuthorizationIsConsole ==
    /\ \A c, op, id, sent, form :
          Authorization!Ask(c, op, id, sent, form) <=> Ask(c, op, id, sent, form)
    /\ \A c : Authorization!Look(c) <=> Look(c)
    /\ \A key, id : Authorization!Busy(key, id) <=> Busy(key, id)
    /\ \A s : Authorization!Select(s) <=> Select(s)
    /\ \A c, ops : Authorization!Answered(c, ops) <=> Answered(c, ops)
    /\ \A c : Authorization!Refresh(c) <=> Refresh(c)
    /\ \A c : Authorization!Refreshed(c) <=> Refreshed(c)
    /\ \A c : Authorization!Return(c) <=> Return(c)
    /\ Authorization!Displayed = Displayed
    /\ Authorization!Something = Something
    /\ \A id, version : Authorization!Copy(id, version) = Copy(id, version)
    /\ Authorization!Writes = Writes
    /\ (Authorization!copies = copies) /\ (Authorization!copies = copies)'
    /\ (Authorization!cache = cache) /\ (Authorization!cache = cache)'
    /\ (Authorization!services = services) /\ (Authorization!services = services)'
BY DEF Authorization!Ask, Authorization!Look, Authorization!Something, Authorization!Busy,
       Authorization!Select, Authorization!Answered, Authorization!Refresh,
       Authorization!Refreshed, Authorization!Return, Authorization!Displayed,
       Authorization!Copy, Authorization!Writes, Authorization!Click, Authorization!Races,
       Authorization!Nothing, Authorization!InHand, Authorization!AskForList,
       Authorization!Mutate, Authorization!Awaits, Authorization!Version,
       Authorization!services, Authorization!cache, Authorization!copies,
       Ask, Look, Something, Busy, Select, Answered, Refresh, Refreshed, Return, Displayed, Copy,
       Writes, Click, Races, Nothing, InHand, AskForList, Mutate, Awaits, Version, services, cache,
       copies

LEMMA AuthorizationPages ==
    ASSUME page \in AuthorizationPanels
    PROVE  /\ page \notin Waited /\ page \notin Loose /\ page \notin FilledFromAnswers
           /\ page \notin EditorPanels
           /\ page \notin {"config", "feature", "targeting", "releases", "deliveries"}
BY DEF AuthorizationPanels, PlatformPanels, Waited, Loose, FilledFromAnswers, EditorPanels,
       InspectorPanels, StoragePanels, MailPanels, TelemetryPanels, ReleasePanels, AnalyticsPanels

LEMMA AuthorizationSends ==
    ASSUME IInv, page \in AuthorizationPanels, NEW c \in Calls, NEW op \in Writes, NEW id \in Ids,
           NEW sent \in 0 .. MaxVersion, NEW form \in 0 .. MaxVersion,
           op \in {"edit", "set"} => form = sent,
           Ask(c, op, id, sent, form), NEW key, Busy(key, id)
    PROVE  IInv'
<1>1. op \in Operations /\ op \notin {"read", "get", "miss"}
  BY DEF Operations, Writes
<1>2. MayAsk(op, id, sent, form)
  BY <1>1, AuthorizationPages DEF MayAsk
<1>3. QED
  BY <1>1, <1>2, AuthorizationPages, ClickKeepsIInv

LEMMA AuthorizationKeepsIInv ==
    ASSUME IInv, page \in AuthorizationPanels, Authorization!Next
    PROVE  IInv'
<1> USE AuthorizationIsConsole
<1>1. /\ \A id \in Displayed : id \in Ids /\ rows[id] \in 0 .. MaxVersion /\ rows[id] <= Version(id)
      /\ \A id \in Ids : rows[id] \in 0 .. MaxVersion
      /\ 0 \in 0 .. MaxVersion
      /\ {"create", "edit", "set", "archive", "restore"} \subseteq Writes
  BY DisplayedFacts, Numbers DEF IInv, ListTypeInv, Writes
<1>2. ASSUME NEW s \in Scopes, Authorization!SelectScope(s)
      PROVE  IInv'
  BY <1>2, AuthorizationPages, SelectScopeKeepsIInv DEF Authorization!SelectScope
<1>3. ASSUME Authorization!CancelEdit
      PROVE  IInv'
  BY <1>3, AuthorizationPages, ChooseCopyKeepsIInv DEF Authorization!CancelEdit
<1>4. ASSUME NEW id \in Displayed, Authorization!BeginEdit(id)
      PROVE  IInv'
  BY <1>1, <1>4, AuthorizationPages, ChooseCopyKeepsIInv
     DEF Authorization!BeginEdit, Authorization!Row
<1>5. ASSUME NEW c \in Calls, NEW op \in Writes, NEW id \in Ids, NEW sent \in 0 .. MaxVersion,
             NEW form \in 0 .. MaxVersion, op \in {"edit", "set"} => form = sent,
             NEW key, Ask(c, op, id, sent, form), Busy(key, id)
      PROVE  IInv'
  BY <1>5, AuthorizationSends
<1>6. /\ \A id \in Ids : Authorization!Row(id).id = id /\ Authorization!Row(id).version = rows[id]
      /\ Authorization!RowButtons \subseteq Displayed /\ Authorization!Fresh \subseteq Ids
  BY <1>1, CopyFacts DEF Authorization!Row, Authorization!RowButtons, Authorization!Fresh
<1>7. editor # None => /\ editor.id \in Ids /\ editor.version \in 0 .. MaxVersion
                       /\ editor.form \in 0 .. MaxVersion /\ editor.form = editor.version
  BY AuthorizationPages, EditorFacts
<1>8. ASSUME NEW c \in Calls, Authorization!PermissionsPanel(c)
      PROVE  IInv'
  <2>1. ASSUME Authorization!PermissionRows(c) PROVE IInv'
    BY <1>1, <1>4, <1>5, <1>6, <2>1
       DEF Authorization!PermissionRows, Authorization!ListPermissions, Authorization!ArchivePermission,
           Authorization!RestorePermission
  <2>2. ASSUME Authorization!SubmitPermissionCreate(c) PROVE IInv'
    BY <1>1, <1>5, <1>6, <2>2 DEF Authorization!SubmitPermissionCreate, Authorization!CreatePermission
  <2>3. ASSUME Authorization!SubmitPermissionEdit(c) PROVE IInv'
    BY <1>1, <1>5, <1>6, <1>7, <2>3 DEF Authorization!SubmitPermissionEdit, Authorization!UpdatePermission
  <2>4. QED
    BY <1>8, <2>1, <2>2, <2>3 DEF Authorization!PermissionsPanel
<1>9. ASSUME NEW c \in Calls, Authorization!RolesPanel(c)
      PROVE  IInv'
  <2>1. ASSUME Authorization!RoleRows(c) PROVE IInv'
    BY <1>1, <1>4, <1>5, <1>6, <2>1
       DEF Authorization!RoleRows, Authorization!ListRoles, Authorization!ArchiveRole,
           Authorization!RestoreRole
  <2>2. ASSUME Authorization!SubmitRoleCreate(c) PROVE IInv'
    BY <1>1, <1>5, <1>6, <2>2 DEF Authorization!SubmitRoleCreate, Authorization!CreateRole
  <2>3. ASSUME Authorization!SubmitRoleEdit(c) PROVE IInv'
    BY <1>1, <1>5, <1>6, <1>7, <2>3 DEF Authorization!SubmitRoleEdit, Authorization!UpdateRole
  <2>4. QED
    BY <1>9, <2>1, <2>2, <2>3 DEF Authorization!RolesPanel
<1>10. ASSUME NEW c \in Calls, Authorization!BindingsPanel(c)
      PROVE  IInv'
  <2>1. ASSUME Authorization!BindingRows(c) PROVE IInv'
    BY <1>1, <1>4, <1>5, <1>6, <2>1
       DEF Authorization!BindingRows, Authorization!ListRoleBindings, Authorization!RemoveRoleBinding
  <2>2. ASSUME Authorization!SubmitBinding(c) PROVE IInv'
    BY <1>1, <1>5, <1>6, <1>7, <2>2 DEF Authorization!SubmitBinding, Authorization!SetRoleBinding
  <2>3. QED
    BY <1>10, <2>1, <2>2 DEF Authorization!BindingsPanel
<1>11. ASSUME NEW c \in Calls, Authorization!PoliciesPanel(c)
      PROVE  IInv'
  <2>1. ASSUME Authorization!PolicyRows(c) PROVE IInv'
    BY <1>1, <1>4, <1>5, <1>6, <2>1
       DEF Authorization!PolicyRows, Authorization!ListPolicyRules, Authorization!ArchivePolicyRule,
           Authorization!RestorePolicyRule
  <2>2. ASSUME Authorization!SubmitPolicy(c) PROVE IInv'
    BY <1>1, <1>5, <1>6, <1>7, <2>2
       DEF Authorization!SubmitPolicy, Authorization!CreatePolicyRule, Authorization!UpdatePolicyRule
  <2>3. QED
    BY <1>11, <2>1, <2>2 DEF Authorization!PoliciesPanel
<1>12. ASSUME NEW c \in Calls, Authorization!SimulatorPanel(c)
      PROVE  IInv'
  <2>1. Look(c) /\ Busy("simulator", Something)
    BY <1>12 DEF Authorization!SimulatorPanel, Authorization!SimulateAuthorization,
                 Authorization!CheckCurrentActorPermission
  <2>2. QED
    BY <2>1, AuthorizationPages, SomethingIsARecord, LookClickKeepsIInv
<1>13. ASSUME NEW c \in Calls, Authorization!RunMutation(c)
      PROVE  IInv'
  BY <1>13, AuthorizationPages, RefreshKeepsIInv DEF Authorization!RunMutation
<1>14. ASSUME NEW c \in Calls, Authorization!MutationOver(c)
      PROVE  IInv'
  <2>1. /\ Refreshed(c) \/ Answered(c, {"look"})
        /\ Return(c) /\ UNCHANGED cache /\ pending' = None
    BY <1>14 DEF Authorization!MutationOver
  <2>2. (editor' = None \/ editor' = editor) /\ report' = report
    BY <1>14 DEF Authorization!MutationOver
  <2>3. Handed /\ Reported
    BY <2>2, AuthorizationPages DEF Handed, Reported
  <2>4. Flying(c) /\ (Refreshed(c) \/ (calls[c].stage = "answered" /\ calls[c].op \notin Writes))
    BY <2>1 DEF Refreshed, Answered, Flying, Writes
  <2>5. QED
    BY <2>1, <2>3, <2>4, AuthorizationPages, ReturnKeepsIInv
<1>15. QED
  BY <1>2, <1>3, <1>8, <1>9, <1>10, <1>11, <1>12, <1>13, <1>14 DEF Authorization!Next

-----------------------------------------------------------------------------
(***************************************************************************)
(* The page of identity.                                                   *)
(***************************************************************************)

LEMMA IdentityIsConsole ==
    /\ \A c, op, id, sent, form :
          Identity!Ask(c, op, id, sent, form) <=> Ask(c, op, id, sent, form)
    /\ \A c : Identity!Look(c) <=> Look(c)
    /\ \A key, id : Identity!Busy(key, id) <=> Busy(key, id)
    /\ \A s : Identity!Select(s) <=> Select(s)
    /\ \A c, ops : Identity!Answered(c, ops) <=> Answered(c, ops)
    /\ \A c : Identity!Refresh(c) <=> Refresh(c)
    /\ \A c : Identity!Refreshed(c) <=> Refreshed(c)
    /\ \A c : Identity!Return(c) <=> Return(c)
    /\ Identity!Displayed = Displayed
    /\ Identity!Something = Something
    /\ \A id, version : Identity!Copy(id, version) = Copy(id, version)
    /\ Identity!InHand <=> InHand
    /\ \A id : Identity!Version(id) = Version(id)
    /\ Identity!Writes = Writes
    /\ (Identity!copies = copies) /\ (Identity!copies = copies)'
    /\ (Identity!cache = cache) /\ (Identity!cache = cache)'
    /\ (Identity!services = services) /\ (Identity!services = services)'
BY DEF Identity!Ask, Identity!Click, Identity!Races, Identity!Nothing, Identity!InHand,
       Identity!Look, Identity!Something, Identity!Busy, Identity!Select, Identity!Answered,
       Identity!Refresh, Identity!AskForList, Identity!Mutate, Identity!Refreshed,
       Identity!Awaits, Identity!Return, Identity!Displayed, Identity!Copy, Identity!Version,
       Identity!services, Identity!cache, Identity!copies, Identity!Writes, Ask, Click, Races,
       Nothing, InHand, Look, Something, Busy, Select, Answered, Refresh, AskForList, Mutate,
       Refreshed, Awaits, Return, Displayed, Copy, Version, services, cache, copies, Writes

LEMMA IdentityPages ==
    ASSUME page \in IdentityPanels
    PROVE  /\ page \notin Waited /\ page \notin Loose /\ page \notin FilledFromAnswers
           /\ page \notin EditorPanels
           /\ page \notin {"config", "feature", "targeting", "releases", "deliveries"}
BY DEF IdentityPanels, PlatformPanels, Waited, Loose, FilledFromAnswers, EditorPanels,
       InspectorPanels, StoragePanels, MailPanels, TelemetryPanels, ReleasePanels, AnalyticsPanels

LEMMA IdentitySends ==
    ASSUME IInv, page \in IdentityPanels, NEW c \in Calls, NEW op \in Writes, NEW id \in Ids,
           NEW sent \in 0 .. MaxVersion, NEW form \in 0 .. MaxVersion,
           op \in {"edit", "set"} => form = sent,
           Ask(c, op, id, sent, form), NEW key, Busy(key, id)
    PROVE  IInv'
<1>1. op \in Operations /\ op \notin {"read", "get", "miss"}
  BY DEF Operations, Writes
<1>2. MayAsk(op, id, sent, form)
  BY <1>1, IdentityPages DEF MayAsk
<1>3. QED
  BY <1>1, <1>2, IdentityPages, ClickKeepsIInv

LEMMA IdentityKeepsIInv ==
    ASSUME IInv, page \in IdentityPanels, Identity!Next
    PROVE  IInv'
<1> USE IdentityIsConsole
<1>1. /\ \A id \in Displayed : id \in Ids /\ rows[id] \in 0 .. MaxVersion
      /\ \A id \in Ids : rows[id] \in 0 .. MaxVersion /\ Version(id) \in 0 .. MaxVersion
      /\ 0 \in 0 .. MaxVersion
      /\ {"create", "edit", "act", "archive", "restore"} \subseteq Writes
  BY DisplayedFacts, Numbers DEF IInv, ListTypeInv, HistoryInv, Writes
<1>2. ASSUME NEW s \in Scopes, Identity!SelectScope(s)
      PROVE  IInv'
  BY <1>2, IdentityPages, SelectScopeKeepsIInv DEF Identity!SelectScope
<1>3. ASSUME NEW id \in Displayed, Identity!SelectRecord(id)
      PROVE  IInv'
  <2>1. editor' = Copy(id, 0) /\ 0 <= Version(id) /\ id \in Ids
    BY <1>1, <1>3, Numbers DEF Identity!SelectRecord, Copy
  <2>2. UNCHANGED <<page, services, scope, cache, report, pending, calls, acked, told, clicks, raced>>
    BY <1>3 DEF Identity!SelectRecord
  <2>3. QED
    BY <1>1, <2>1, <2>2, IdentityPages, ChooseCopyKeepsIInv
<1>4. ASSUME Identity!DetailArrives
      PROVE  IInv'
  <2>1. editor # None /\ editor.id \in Ids
    BY <1>4, EditorFacts DEF Identity!DetailArrives
  <2>2. editor' = Copy(editor.id, Version(editor.id)) /\ Version(editor.id) <= Version(editor.id)
    BY <1>1, <1>4, <2>1 DEF Identity!DetailArrives
  <2>3. UNCHANGED <<page, services, scope, cache, report, pending, calls, acked, told, clicks, raced>>
    BY <1>4 DEF Identity!DetailArrives
  <2>4. QED
    BY <1>1, <2>1, <2>2, <2>3, IdentityPages, ChooseCopyKeepsIInv
<1>5. ASSUME NEW c \in Calls, NEW op \in Writes, NEW id \in Ids, NEW sent \in 0 .. MaxVersion,
             NEW form \in 0 .. MaxVersion, op \in {"edit", "set"} => form = sent,
             NEW key, Ask(c, op, id, sent, form), Busy(key, id)
      PROVE  IInv'
  BY <1>5, IdentitySends
<1>6. /\ \A id \in Ids : Identity!Row(id).id = id /\ Identity!Row(id).version = rows[id]
      /\ Identity!Fresh \subseteq Ids /\ Identity!Kept \subseteq Displayed
  BY <1>1, CopyFacts DEF Identity!Row, Identity!Fresh, Identity!Kept
<1>7. editor # None => /\ editor.id \in Ids /\ editor.version \in 0 .. MaxVersion
                       /\ editor.form \in 0 .. MaxVersion /\ editor.form = editor.version
  BY IdentityPages, EditorFacts
<1>8. ASSUME Identity!UserList \/ Identity!ClientList \/ Identity!ScopeList
      PROVE  IInv'
  BY <1>3, <1>6, <1>8 DEF Identity!UserList, Identity!ListUsers, Identity!ClientList,
                          Identity!ListClients, Identity!ScopeList, Identity!ListScopes
<1>9. ASSUME NEW c \in Calls, Identity!UsersPanel(c)
      PROVE  IInv'
  <2>1. ASSUME Identity!SubmitUser(c) PROVE IInv'
    BY <1>1, <1>5, <1>6, <2>1 DEF Identity!SubmitUser, Identity!CreateUser, Identity!InviteUser
  <2>2. ASSUME Identity!UserInspector(c) PROVE IInv'
    <3>1. editor # None /\ Busy("user", editor.id)
      BY <2>2 DEF Identity!UserInspector, Identity!Inspector, InHand
    <3>2. CASE \E op \in {"edit", "act", "archive", "restore"}, form \in {0, editor.form} :
                  /\ op = "edit" => form = editor.form
                  /\ Ask(c, op, editor.id, editor.version, form)
      BY <1>1, <1>5, <1>7, <3>1, <3>2
    <3>3. CASE Look(c)
      BY <1>7, <3>1, <3>3, IdentityPages, LookClickKeepsIInv
    <3>4. QED
      BY <2>2, <3>2, <3>3
         DEF Identity!UserInspector, Identity!UpdateUser, Identity!SetUserRoles,
             Identity!ResetUserPassword, Identity!ResendInvitation, Identity!SuspendUser,
             Identity!ReactivateUser, Identity!ArchiveUser, Identity!RestoreUser,
             Identity!RevokeUserSession, Identity!RevokeAllUserSessions
  <2>3. QED
    BY <1>9, <2>1, <2>2 DEF Identity!UsersPanel
<1>10. ASSUME NEW c \in Calls, Identity!MembershipsPanel(c)
      PROVE  IInv'
  <2>1. ASSUME Identity!SubmitMembership(c) PROVE IInv'
    BY <1>1, <1>5, <1>6, <2>1 DEF Identity!SubmitMembership, Identity!SetApplicationMembership
  <2>2. ASSUME Identity!MembershipRows(c) PROVE IInv'
    BY <1>1, <1>5, <1>6, <2>2
       DEF Identity!MembershipRows, Identity!ListApplicationMemberships,
           Identity!RemoveApplicationMembership, Identity!SetApplicationMembership
  <2>3. QED
    BY <1>10, <2>1, <2>2 DEF Identity!MembershipsPanel
<1>11. ASSUME NEW c \in Calls, Identity!ClientsPanel(c)
      PROVE  IInv'
  <2>1. ASSUME Identity!SubmitClient(c) PROVE IInv'
    BY <1>1, <1>5, <1>6, <2>1 DEF Identity!SubmitClient, Identity!CreateClient
  <2>2. ASSUME Identity!ClientInspector(c) PROVE IInv'
    BY <1>1, <1>5, <1>7, <2>2
       DEF Identity!ClientInspector, Identity!ActiveInspector, Identity!Inspector, InHand,
           Identity!UpdateClient, Identity!RotateClientSecret, Identity!DeleteClient
  <2>3. QED
    BY <1>11, <2>1, <2>2 DEF Identity!ClientsPanel
<1>12. ASSUME NEW c \in Calls, Identity!ScopesPanel(c)
      PROVE  IInv'
  <2>1. ASSUME Identity!SubmitScope(c) PROVE IInv'
    BY <1>1, <1>5, <1>6, <2>1 DEF Identity!SubmitScope, Identity!CreateScope
  <2>2. ASSUME Identity!ScopeInspector(c) PROVE IInv'
    BY <1>1, <1>5, <1>7, <2>2
       DEF Identity!ScopeInspector, Identity!ActiveInspector, Identity!Inspector, InHand,
           Identity!UpdateScope, Identity!DeleteScope
  <2>3. QED
    BY <1>12, <2>1, <2>2 DEF Identity!ScopesPanel
<1>13. ASSUME NEW c \in Calls, Identity!RunMutation(c)
      PROVE  IInv'
  BY <1>13, IdentityPages, RefreshKeepsIInv DEF Identity!RunMutation
<1>14. ASSUME NEW c \in Calls, Identity!MutationOver(c) \/ Identity!SessionsRevoked(c)
      PROVE  IInv'
  <2>1. /\ Refreshed(c) \/ Answered(c, {"look"})
        /\ Return(c) /\ UNCHANGED <<copies, cache>> /\ pending' = None
    BY <1>14 DEF Identity!MutationOver, Identity!SessionsRevoked
  <2>2. Handed /\ Reported
    BY <2>1 DEF Handed, Reported, copies
  <2>3. Flying(c) /\ (Refreshed(c) \/ (calls[c].stage = "answered" /\ calls[c].op \notin Writes))
    BY <2>1 DEF Refreshed, Answered, Flying, Writes
  <2>4. QED
    BY <2>1, <2>2, <2>3, IdentityPages, ReturnKeepsIInv
<1>15. QED
  BY <1>2, <1>4, <1>8, <1>9, <1>10, <1>11, <1>12, <1>13, <1>14 DEF Identity!Next

-----------------------------------------------------------------------------
(***************************************************************************)
(* The pages with one editor: configuration, feature flags, segments.      *)
(***************************************************************************)

LEMMA EditorPages ==
    ASSUME page \in EditorPanels
    PROVE  /\ page \notin Waited /\ page \in FilledFromAnswers /\ page \in AlwaysRefresh
           /\ page \notin {"releases", "deliveries", "objects"}
           /\ page \notin InspectorPanels
           /\ page # "targeting" => page \notin Loose
BY DEF EditorPanels, Waited, FilledFromAnswers, AlwaysRefresh, InspectorPanels, StoragePanels,
       MailPanels, TelemetryPanels, ReleasePanels, AnalyticsPanels, Loose, PlatformPanels

\* A command or read of such a page.
LEMMA EditorSends ==
    ASSUME IInv, page \in EditorPanels, NEW c \in Calls, NEW op \in Operations \ {"get", "miss"},
           NEW id \in Ids, NEW sent \in 0 .. MaxVersion, NEW form \in 0 .. MaxVersion,
           Ask(c, op, id, sent, form), NEW key, NEW marked \in Ids, Busy(key, marked),
           op \in {"edit", "set"} /\ page # "targeting" => form = sent,
           op = "read" => editor # None /\ editor.id = id
    PROVE  IInv'
<1>1. MayAsk(op, id, sent, form)
  BY EditorPages DEF MayAsk, Loose
<1>2. QED
  BY <1>1, EditorPages, ClickKeepsIInv

\* Another scope is selected, and the copy in hand is let go.
LEMMA EditorScopeKeepsIInv ==
    ASSUME IInv, page \in EditorPanels, NEW s \in Scopes, Select(s), pending' = pending,
           report' = None, Handed, ~InHand'
    PROVE  IInv'
<1>1. Reported
  BY DEF Reported
<1>2. QED
  BY <1>1, EditorPages, SelectKeepsIInv

\* A handler of such a page returns.
LEMMA EditorReturns ==
    ASSUME IInv, page \in EditorPanels, NEW c \in Calls, Return(c), UNCHANGED cache, pending' = None,
           Refreshed(c) \/ Answered(c, {"get", "miss", "read", "look"}),
           \/ /\ UNCHANGED copies
              /\ calls[c].ok /\ calls[c].op \in Writes =>
                     calls[c].op \in {"archive", "restore"} /\ ~calls[c].inHand
           \/ /\ calls[c].ok /\ calls[c].op # "look"
              /\ Handed
              /\ editor' # None /\ editor'.id = calls[c].id /\ editor'.version = calls[c].version
              /\ report' = None \/ (page = "targeting" /\ report' = report)
           \/ /\ Answered(c, {"read"}) /\ calls[c].ok
              /\ editor' = editor
              /\ report' = [id |-> calls[c].id, version |-> calls[c].version]
    PROVE  IInv'
<1>1. Flying(c) /\ (Answered(c, {"get", "miss", "read", "look"}) => calls[c].op \notin Writes)
  BY DEF Refreshed, Answered, Flying, Writes
<1>2. \/ Refreshed(c)
      \/ /\ calls[c].stage = "answered"
         /\ calls[c].op \in Writes => ~calls[c].ok /\ page \notin AlwaysRefresh
  BY <1>1 DEF Answered
<1>3. CASE /\ UNCHANGED copies
           /\ calls[c].ok /\ calls[c].op \in Writes =>
                  calls[c].op \in {"archive", "restore"} /\ ~calls[c].inHand
  <2>1. Handed /\ Reported /\ LeavesInHand(c)
    BY <1>3 DEF Handed, Reported, LeavesInHand, copies
  <2>2. QED
    BY <1>1, <1>2, <2>1, EditorPages, ReturnKeepsIInv
<1>4. CASE /\ calls[c].ok /\ calls[c].op # "look"
           /\ Handed
           /\ editor' # None /\ editor'.id = calls[c].id /\ editor'.version = calls[c].version
           /\ report' = None \/ (page = "targeting" /\ report' = report)
  <2>1. Reported /\ TakesInHand(c)
    BY <1>4 DEF Reported, TakesInHand
  <2>2. QED
    BY <1>1, <1>2, <1>4, <2>1, EditorPages, ReturnKeepsIInv
<1>5. CASE /\ Answered(c, {"read"}) /\ calls[c].ok
           /\ editor' = editor
           /\ report' = [id |-> calls[c].id, version |-> calls[c].version]
  <2>1. Handed /\ Result(c)
    BY <1>5, EditorPages DEF Handed, Result, Answered, EditorPanels
  <2>2. LeavesInHand(c)
    BY <1>5 DEF LeavesInHand, Answered, Writes
  <2>3. QED
    BY <1>1, <1>2, <2>1, <2>2, EditorPages, ReturnKeepsIInv
<1>6. QED
  BY <1>3, <1>4, <1>5

\* What was answered, taken in hand with its fields.
LEMMA AnswerInHand ==
    ASSUME IInv, page \in EditorPanels, NEW c \in Calls, Flying(c),
           editor' = Copy(calls[c].id, calls[c].version)
    PROVE  Handed /\ editor' # None /\ editor'.id = calls[c].id /\ editor'.version = calls[c].version
BY AnswerFacts, CopyFacts, EditorPages DEF Handed

-----------------------------------------------------------------------------
\* Dynamic configuration.

LEMMA ConfigIsConsole ==
    /\ \A c, op, id, sent, form :
          Config!Ask(c, op, id, sent, form) <=> Ask(c, op, id, sent, form)
    /\ \A c, id : Config!AskFor(c, id) <=> AskFor(c, id)
    /\ \A c : Config!Look(c) <=> Look(c)
    /\ \A key, id : Config!Busy(key, id) <=> Busy(key, id)
    /\ \A s : Config!Select(s) <=> Select(s)
    /\ \A c, ops : Config!Answered(c, ops) <=> Answered(c, ops)
    /\ \A c : Config!Refresh(c) <=> Refresh(c)
    /\ \A c : Config!Refreshed(c) <=> Refreshed(c)
    /\ \A c : Config!Return(c) <=> Return(c)
    /\ Config!Displayed = Displayed
    /\ Config!Something = Something
    /\ \A id, version : Config!Copy(id, version) = Copy(id, version)
    /\ \A id, version : Config!IsActive(id, version) = IsActive(id, version)
    /\ Config!Writes = Writes
    /\ (Config!copies = copies) /\ (Config!copies = copies)'
    /\ (Config!cache = cache) /\ (Config!cache = cache)'
    /\ (Config!services = services) /\ (Config!services = services)'
BY DEF Config!Ask, Config!Click, Config!Races, Config!Nothing, Config!InHand, Config!AskFor,
       Config!Look, Config!Something, Config!Busy, Config!Select, Config!Answered, Config!Refresh,
       Config!AskForList, Config!Mutate, Config!Refreshed, Config!Awaits, Config!Return,
       Config!Displayed, Config!Copy, Config!IsActive, Config!services, Config!cache,
       Config!copies, Config!Version, Config!Writes, Ask, Click, Races, Nothing, InHand, AskFor,
       Look, Something, Busy, Select, Answered, Refresh, AskForList, Mutate, Refreshed, Awaits,
       Return, Displayed, Copy, IsActive, services, cache, copies, Version, Writes

LEMMA ConfigKeepsIInv ==
    ASSUME IInv, page = "config", Config!Next
    PROVE  IInv'
<1> USE ConfigIsConsole
<1>1. /\ page \in EditorPanels /\ page \notin Waited /\ page # "targeting"
      /\ \A id \in Displayed : id \in Ids /\ rows[id] \in 0 .. MaxVersion
      /\ 0 \in 0 .. MaxVersion /\ Something \in Ids
      /\ {"create", "edit", "act", "archive", "restore", "read"} \subseteq Operations \ {"get", "miss"}
  BY DisplayedFacts, Numbers, SomethingIsARecord, EditorPages DEF EditorPanels, Operations, Writes
<1>2. editor # None => /\ editor.id \in Ids /\ editor.version \in 0 .. MaxVersion
                       /\ editor.form \in 0 .. MaxVersion /\ editor.form = editor.version
  BY <1>1, EditorFacts
<1>3. ASSUME NEW s \in Scopes, Config!SelectScope(s)
      PROVE  IInv'
  BY <1>1, <1>3, EditorScopeKeepsIInv
     DEF Config!SelectScope, Config!ResetCollectionState, Handed, InHand
<1>4. ASSUME NEW c \in Calls, NEW op \in Operations \ {"get", "miss"}, NEW id \in Ids,
             NEW sent \in 0 .. MaxVersion, NEW form \in 0 .. MaxVersion,
             Ask(c, op, id, sent, form), NEW key, NEW marked \in Ids, Busy(key, marked),
             op \in {"edit", "set"} => form = sent,
             op = "read" => editor # None /\ editor.id = id
      PROVE  IInv'
  BY <1>1, <1>4, EditorSends
<1>5. ASSUME NEW c \in Calls, Config!InspectEntry(c)
      PROVE  IInv'
  BY <1>1, <1>5, FetchClickKeepsIInv
     DEF Config!InspectEntry, Config!EntryList, Config!ListConfigEntries, Config!GetConfigEntry
<1>6. ASSUME NEW c \in Calls, Config!SubmitCreate(c)
      PROVE  IInv'
  BY <1>1, <1>4, <1>6 DEF Config!SubmitCreate, Config!CreateForm, Config!CreateConfigEntry
<1>7. ASSUME NEW c \in Calls, Config!SubmitDraft(c) \/ Config!PublishCurrent(c) \/ Config!RollbackCurrent(c)
      PROVE  IInv'
  BY <1>1, <1>2, <1>4, <1>7
     DEF Config!SubmitDraft, Config!PublishCurrent, Config!RollbackCurrent, Config!DraftButtons,
         Config!RevisionButtons, Config!EditorButtons, Config!UpdateConfigDraft,
         Config!PublishConfigEntry, Config!RollbackConfigEntry
<1>8. ASSUME NEW c \in Calls, Config!ValidateDraft(c) \/ Config!InspectDiff(c) \/ Config!RunPreview(c)
      PROVE  IInv'
  BY <1>1, <1>2, <1>4, <1>8
     DEF Config!ValidateDraft, Config!InspectDiff, Config!RunPreview, Config!DraftButtons,
         Config!EditorButtons, Config!PreviewButton, Config!ValidateConfigDraft,
         Config!DiffConfigDraft, Config!PreviewConfigValue
<1>9. ASSUME NEW c \in Calls, Config!ChangeStatus(c)
      PROVE  IInv'
  <2>1. PICK id \in Displayed, op \in {"archive", "restore"} :
            Ask(c, op, Copy(id, rows[id]).id, Copy(id, rows[id]).version, 0) /\ Busy("other", Something)
    BY <1>9 DEF Config!ChangeStatus, Config!EntryList, Config!ListConfigEntries, Config!Row,
                Config!ArchiveConfigEntry, Config!RestoreConfigEntry
  <2>2. Ask(c, op, id, rows[id], 0)
    BY <1>1, <2>1, CopyFacts
  <2>3. QED
    BY <1>1, <1>4, <2>1, <2>2
<1>10. ASSUME NEW c \in Calls, Config!FetchRuntimeSnapshot(c) \/ Config!CheckUpdates(c)
       PROVE  IInv'
  BY <1>1, <1>10, LookClickKeepsIInv
     DEF Config!FetchRuntimeSnapshot, Config!CheckUpdates, Config!GetConfigSnapshot, Config!CheckConfigUpdates
<1>11. ASSUME NEW c \in Calls, Config!RunMutation(c)
       PROVE  IInv'
  BY <1>1, <1>11, EditorPages, RefreshKeepsIInv DEF Config!RunMutation
<1>12. ASSUME NEW c \in Calls, Config!MutationOver(c)
       PROVE  IInv'
  <2>1. Refreshed(c) /\ Return(c) /\ pending' = None /\ UNCHANGED cache /\ Flying(c)
    BY <1>12 DEF Config!MutationOver, Refreshed, Flying
  <2>2. calls[c].op # "look"
    BY <2>1 DEF IInv, CallInv, CallOK, Refreshed, Writes
  <2>3. CASE calls[c].ok /\ (calls[c].op \in {"archive", "restore"} => calls[c].inHand)
    <3>1. editor' = Copy(calls[c].id, calls[c].version) /\ report' = None
      BY <1>12, <2>3 DEF Config!MutationOver, Config!LoadIntoEditor
    <3>2. QED
      BY <1>1, <2>1, <2>2, <2>3, <3>1, AnswerInHand, EditorReturns
  <2>4. CASE ~(calls[c].ok /\ (calls[c].op \in {"archive", "restore"} => calls[c].inHand))
    BY <1>1, <1>12, <2>1, <2>4, EditorReturns DEF Config!MutationOver
  <2>5. QED
    BY <2>3, <2>4
<1>13. ASSUME NEW c \in Calls, Config!EntryAnswered(c)
       PROVE  IInv'
  <2>1. /\ Answered(c, {"get", "miss", "read", "look"}) /\ Return(c) /\ pending' = None /\ UNCHANGED cache
        /\ Flying(c) /\ calls[c].op \in {"get", "miss"}
    BY <1>13 DEF Config!EntryAnswered, Answered, Flying
  <2>2. CASE calls[c].ok
    <3>1. editor' = Copy(calls[c].id, calls[c].version) /\ report' = None
      BY <1>13, <2>2 DEF Config!EntryAnswered, Config!LoadIntoEditor
    <3>2. QED
      BY <1>1, <2>1, <2>2, <3>1, AnswerInHand, EditorReturns
  <2>3. CASE ~calls[c].ok
    BY <1>1, <1>13, <2>1, <2>3, EditorReturns DEF Config!EntryAnswered
  <2>4. QED
    BY <2>2, <2>3
<1>14. ASSUME NEW c \in Calls, Config!ResultAnswered(c)
       PROVE  IInv'
  <2>1. Answered(c, {"read"}) /\ Return(c) /\ pending' = None /\ UNCHANGED cache /\ editor' = editor
    BY <1>14 DEF Config!ResultAnswered
  <2>2. Answered(c, {"get", "miss", "read", "look"}) /\ calls[c].op \notin Writes
    BY <2>1 DEF Answered, Writes
  <2>3. CASE calls[c].ok
    BY <1>1, <1>14, <2>1, <2>2, <2>3, EditorReturns DEF Config!ResultAnswered
  <2>4. CASE ~calls[c].ok
    BY <1>1, <1>14, <2>1, <2>2, <2>4, EditorReturns DEF Config!ResultAnswered, copies
  <2>5. QED
    BY <2>3, <2>4
<1>15. ASSUME NEW c \in Calls, Config!SnapshotAnswered(c)
       PROVE  IInv'
  <2>1. Answered(c, {"get", "miss", "read", "look"}) /\ calls[c].op \notin Writes
    BY <1>15 DEF Config!SnapshotAnswered, Answered, Writes
  <2>2. QED
    BY <1>1, <1>15, <2>1, EditorReturns DEF Config!SnapshotAnswered
<1>16. QED
  BY <1>3, <1>5, <1>6, <1>7, <1>8, <1>9, <1>10, <1>11, <1>12, <1>13, <1>14, <1>15 DEF Config!Next

-----------------------------------------------------------------------------
\* Feature flags.

LEMMA FeatureIsConsole ==
    /\ \A c, op, id, sent, form :
          Feature!Ask(c, op, id, sent, form) <=> Ask(c, op, id, sent, form)
    /\ \A c, id : Feature!AskFor(c, id) <=> AskFor(c, id)
    /\ \A key, id : Feature!Busy(key, id) <=> Busy(key, id)
    /\ \A s : Feature!Select(s) <=> Select(s)
    /\ \A c, ops : Feature!Answered(c, ops) <=> Answered(c, ops)
    /\ \A c : Feature!Refresh(c) <=> Refresh(c)
    /\ \A c : Feature!Refreshed(c) <=> Refreshed(c)
    /\ \A c : Feature!Return(c) <=> Return(c)
    /\ Feature!Listed = Listed
    /\ \A id, version : Feature!Copy(id, version) = Copy(id, version)
    /\ \A id, version : Feature!IsActive(id, version) = IsActive(id, version)
    /\ Feature!Writes = Writes
    /\ (Feature!copies = copies) /\ (Feature!copies = copies)'
    /\ (Feature!cache = cache) /\ (Feature!cache = cache)'
    /\ (Feature!services = services) /\ (Feature!services = services)'
BY DEF Feature!Ask, Feature!Click, Feature!Races, Feature!Nothing, Feature!InHand, Feature!AskFor,
       Feature!Busy, Feature!Select, Feature!Answered, Feature!Refresh, Feature!AskForList,
       Feature!Mutate, Feature!Refreshed, Feature!Awaits, Feature!Return, Feature!Listed,
       Feature!Displayed, Feature!Copy, Feature!IsActive, Feature!services, Feature!cache,
       Feature!copies, Feature!Version, Feature!Writes, Ask, Click, Races, Nothing, InHand,
       AskFor, Busy, Select, Answered, Refresh, AskForList, Mutate, Refreshed, Awaits, Return,
       Listed, Displayed, Copy, IsActive, services, cache, copies, Version, Writes

LEMMA FeatureKeepsIInv ==
    ASSUME IInv, page = "feature", Feature!Next
    PROVE  IInv'
<1> USE FeatureIsConsole
<1>1. /\ page \in EditorPanels /\ page \notin Waited /\ page # "targeting"
      /\ \A id \in Listed : id \in Displayed /\ id \in Ids /\ rows[id] \in 0 .. MaxVersion
      /\ 0 \in 0 .. MaxVersion
      /\ {"create", "edit", "act", "archive", "restore", "read"} \subseteq Operations \ {"get", "miss"}
  BY DisplayedFacts, Numbers, EditorPages DEF EditorPanels, Operations, Writes, Listed
<1>2. editor # None => /\ editor.id \in Ids /\ editor.version \in 0 .. MaxVersion
                       /\ editor.form \in 0 .. MaxVersion /\ editor.form = editor.version
  BY <1>1, EditorFacts
<1>3. ASSUME NEW s \in Scopes, Feature!ChangeScope(s) \/ Feature!ChangeFilter(s)
      PROVE  IInv'
  BY <1>1, <1>3, EditorScopeKeepsIInv
     DEF Feature!ChangeFilter, Feature!ChangeScope, Feature!ResetCollectionState, Handed, InHand
<1>4. ASSUME NEW c \in Calls, NEW op \in Operations \ {"get", "miss"}, NEW id \in Ids,
             NEW sent \in 0 .. MaxVersion, NEW form \in 0 .. MaxVersion,
             Ask(c, op, id, sent, form), NEW key, NEW marked \in Ids, Busy(key, marked),
             op \in {"edit", "set"} => form = sent,
             op = "read" => editor # None /\ editor.id = id
      PROVE  IInv'
  BY <1>1, <1>4, EditorSends
<1>5. ASSUME NEW c \in Calls, Feature!InspectFlag(c)
      PROVE  IInv'
  BY <1>1, <1>5, FetchClickKeepsIInv
     DEF Feature!InspectFlag, Feature!Inspectable, Feature!ListFlags, Feature!GetFlag
<1>6. ASSUME NEW c \in Calls, Feature!SubmitCreate(c)
      PROVE  IInv'
  BY <1>1, <1>4, <1>6 DEF Feature!SubmitCreate, Feature!CreateFlagPanel, Feature!CreateFlag
<1>7. ASSUME NEW c \in Calls, Feature!SubmitDraft(c) \/ Feature!PublishCurrent(c) \/ Feature!RollbackCurrent(c)
      PROVE  IInv'
  BY <1>1, <1>2, <1>4, <1>7
     DEF Feature!SubmitDraft, Feature!PublishCurrent, Feature!RollbackCurrent, Feature!DraftPanel,
         Feature!RevisionPanel, Feature!UpdateFlagDraft, Feature!PublishFlag, Feature!RollbackFlag
<1>8. ASSUME NEW c \in Calls, Feature!ValidateDraft(c) \/ Feature!RunEvaluation(c)
      PROVE  IInv'
  BY <1>1, <1>2, <1>4, <1>8
     DEF Feature!ValidateDraft, Feature!RunEvaluation, Feature!DraftPanel, Feature!EvaluationPanel,
         Feature!ValidateFlagDraft, Feature!SimulateFlag, Feature!EvaluateFlag
<1>9. ASSUME NEW c \in Calls, Feature!ChangeStatus(c)
      PROVE  IInv'
  <2>1. PICK id \in Listed, op \in {"archive", "restore"} :
            Ask(c, op, Copy(id, rows[id]).id, Copy(id, rows[id]).version, 0) /\ Busy("flag", id)
    BY <1>9 DEF Feature!ChangeStatus, Feature!StatusButtons, Feature!ListFlags, Feature!Row,
                Feature!ArchiveFlag, Feature!RestoreFlag
  <2>2. Ask(c, op, id, rows[id], 0)
    BY <1>1, <2>1, CopyFacts
  <2>3. QED
    BY <1>1, <1>4, <2>1, <2>2
<1>10. ASSUME NEW c \in Calls, Feature!RunMutation(c)
       PROVE  IInv'
  BY <1>1, <1>10, EditorPages, RefreshKeepsIInv DEF Feature!RunMutation
<1>11. ASSUME NEW c \in Calls, Feature!MutationOver(c)
       PROVE  IInv'
  <2>1. Refreshed(c) /\ Return(c) /\ pending' = None /\ UNCHANGED cache /\ Flying(c)
    BY <1>11 DEF Feature!MutationOver, Refreshed, Flying
  <2>2. calls[c].op # "look"
    BY <2>1 DEF IInv, CallInv, CallOK, Refreshed, Writes
  <2>3. CASE calls[c].ok /\ (calls[c].op \in {"archive", "restore"} => calls[c].inHand)
    <3>1. editor' = Copy(calls[c].id, calls[c].version) /\ report' = None
      BY <1>11, <2>3 DEF Feature!MutationOver, Feature!LoadFlagIntoEditor
    <3>2. QED
      BY <1>1, <2>1, <2>2, <2>3, <3>1, AnswerInHand, EditorReturns
  <2>4. CASE ~(calls[c].ok /\ (calls[c].op \in {"archive", "restore"} => calls[c].inHand))
    BY <1>1, <1>11, <2>1, <2>4, EditorReturns DEF Feature!MutationOver
  <2>5. QED
    BY <2>3, <2>4
<1>12. ASSUME NEW c \in Calls, Feature!FlagAnswered(c)
       PROVE  IInv'
  <2>1. /\ Answered(c, {"get", "miss", "read", "look"}) /\ Return(c) /\ pending' = None /\ UNCHANGED cache
        /\ Flying(c) /\ calls[c].op \in {"get", "miss"}
    BY <1>12 DEF Feature!FlagAnswered, Answered, Flying
  <2>2. CASE calls[c].ok
    <3>1. editor' = Copy(calls[c].id, calls[c].version) /\ report' = None
      BY <1>12, <2>2 DEF Feature!FlagAnswered, Feature!LoadFlagIntoEditor
    <3>2. QED
      BY <1>1, <2>1, <2>2, <3>1, AnswerInHand, EditorReturns
  <2>3. CASE ~calls[c].ok
    BY <1>1, <1>12, <2>1, <2>3, EditorReturns DEF Feature!FlagAnswered
  <2>4. QED
    BY <2>2, <2>3
<1>13. ASSUME NEW c \in Calls, Feature!ResultAnswered(c)
       PROVE  IInv'
  <2>1. Answered(c, {"read"}) /\ Return(c) /\ pending' = None /\ UNCHANGED cache /\ editor' = editor
    BY <1>13 DEF Feature!ResultAnswered
  <2>2. Answered(c, {"get", "miss", "read", "look"}) /\ calls[c].op \notin Writes
    BY <2>1 DEF Answered, Writes
  <2>3. CASE calls[c].ok
    BY <1>1, <1>13, <2>1, <2>2, <2>3, EditorReturns DEF Feature!ResultAnswered
  <2>4. CASE ~calls[c].ok
    BY <1>1, <1>13, <2>1, <2>2, <2>4, EditorReturns DEF Feature!ResultAnswered, copies
  <2>5. QED
    BY <2>3, <2>4
<1>14. QED
  BY <1>3, <1>5, <1>6, <1>7, <1>8, <1>9, <1>10, <1>11, <1>12, <1>13 DEF Feature!Next

-----------------------------------------------------------------------------
\* Targeting segments.

LEMMA TargetingIsConsole ==
    /\ \A c, op, id, sent, form :
          Targeting!Ask(c, op, id, sent, form) <=> Ask(c, op, id, sent, form)
    /\ \A c, id : Targeting!AskFor(c, id) <=> AskFor(c, id)
    /\ \A key, id : Targeting!Busy(key, id) <=> Busy(key, id)
    /\ \A s : Targeting!Select(s) <=> Select(s)
    /\ \A c, ops : Targeting!Answered(c, ops) <=> Answered(c, ops)
    /\ \A c : Targeting!Refresh(c) <=> Refresh(c)
    /\ \A c : Targeting!Refreshed(c) <=> Refreshed(c)
    /\ \A c : Targeting!Return(c) <=> Return(c)
    /\ Targeting!Displayed = Displayed
    /\ \A id, version : Targeting!Copy(id, version) = Copy(id, version)
    /\ \A id, version : Targeting!IsActive(id, version) = IsActive(id, version)
    /\ Targeting!Writes = Writes
    /\ (Targeting!copies = copies) /\ (Targeting!copies = copies)'
    /\ (Targeting!cache = cache) /\ (Targeting!cache = cache)'
    /\ (Targeting!services = services) /\ (Targeting!services = services)'
BY DEF Targeting!Ask, Targeting!Click, Targeting!Races, Targeting!Nothing, Targeting!InHand,
       Targeting!AskFor, Targeting!Busy, Targeting!Select, Targeting!Answered, Targeting!Refresh,
       Targeting!AskForList, Targeting!Mutate, Targeting!Refreshed, Targeting!Awaits,
       Targeting!Return, Targeting!Displayed, Targeting!Copy, Targeting!IsActive,
       Targeting!services, Targeting!cache, Targeting!copies, Targeting!Version, Targeting!Writes,
       Ask, Click, Races, Nothing, InHand, AskFor, Busy, Select, Answered, Refresh, AskForList,
       Mutate, Refreshed, Awaits, Return, Displayed, Copy, IsActive, services, cache, copies,
       Version, Writes

\* An answer put in the place of its row.
LEMMA SegmentInItsPlace ==
    ASSUME IInv, page = "targeting", NEW c \in Calls, Refreshed(c), Return(c), pending' = None,
           calls[c].ok, Targeting!ReplaceSegmentInCollection(calls[c].id, calls[c].version),
           Handed, report' = report,
           TakesInHand(c) \/ LeavesInHand(c)
    PROVE  IInv'
<1>1. Flying(c) /\ calls[c].stage # "sent" /\ (calls[c].stage = "refreshing" => ~Awaits(c))
  BY DEF Refreshed, Flying
<1>2. Over(c)
  BY <1>1, ReturnIsOver DEF IInv
<1>3. Counted(c) /\ Reported
  BY <1>2 DEF Over, Counted, Reported
<1>4. calls[c].op \in Writes
  BY <1>1 DEF IInv, CallInv, CallOK, Refreshed
<1>5. Listing(c)
  BY <1>4 DEF Listing, Targeting!ReplaceSegmentInCollection
<1>6. page \notin Waited
  BY EditorPages DEF EditorPanels
<1>7. QED
  BY <1>1, <1>2, <1>3, <1>5, <1>6, OverKeepsIInv DEF Over

LEMMA TargetingKeepsIInv ==
    ASSUME IInv, page = "targeting", Targeting!Next
    PROVE  IInv'
<1> USE TargetingIsConsole
<1>1. /\ page \in EditorPanels /\ page \notin Waited
      /\ \A id \in Displayed : id \in Ids /\ rows[id] \in 0 .. MaxVersion
      /\ 0 \in 0 .. MaxVersion
      /\ {"create", "edit", "archive", "restore", "read"} \subseteq Operations \ {"get", "miss"}
  BY DisplayedFacts, Numbers, EditorPages DEF EditorPanels, Operations, Writes
<1>2. editor # None => /\ editor \in Copies /\ editor.id \in Ids /\ editor.version \in 0 .. MaxVersion
                       /\ editor.form \in 0 .. MaxVersion /\ editor.form <= Version(editor.id)
                       /\ Version(editor.id) \in Nat
  BY EditorFacts DEF IInv, EditorTypeInv
<1>3. ASSUME NEW s \in Scopes, Targeting!ChangeScope(s) \/ Targeting!ChangeFilter(s)
      PROVE  IInv'
  <2>1. Select(s) /\ pending' = pending /\ report' = None
    BY <1>3 DEF Targeting!ChangeFilter, Targeting!ChangeScope, Targeting!ResetCollectionState
  <2>2. editor' = IF editor = None THEN None ELSE [editor EXCEPT !.version = 0]
    BY <1>3 DEF Targeting!ChangeFilter, Targeting!ChangeScope, Targeting!ResetCollectionState
  <2>3. CASE editor = None
    BY <1>1, <2>1, <2>2, <2>3, EditorScopeKeepsIInv DEF Handed, InHand
  <2>4. CASE editor # None
    <3>1. /\ editor' \in Copies /\ editor'.id = editor.id /\ editor'.version = 0
          /\ editor'.form = editor.form
      BY <1>1, <1>2, <2>2, <2>4 DEF Copies
    <3>2. Handed /\ ~InHand'
      BY <1>1, <1>2, <2>4, <3>1, RecordsAssumption, EditorPages DEF Handed, InHand
    <3>3. QED
      BY <1>1, <2>1, <3>2, EditorScopeKeepsIInv
  <2>5. QED
    BY <2>3, <2>4
<1>4. ASSUME NEW c \in Calls, NEW op \in Operations \ {"get", "miss"}, NEW id \in Ids,
             NEW sent \in 0 .. MaxVersion, NEW form \in 0 .. MaxVersion,
             Ask(c, op, id, sent, form), NEW key, NEW marked \in Ids, Busy(key, marked),
             op = "read" => editor # None /\ editor.id = id
      PROVE  IInv'
  BY <1>1, <1>4, EditorSends
<1>5. ASSUME NEW c \in Calls, Targeting!InspectSegment(c)
      PROVE  IInv'
  BY <1>1, <1>5, FetchClickKeepsIInv
     DEF Targeting!InspectSegment, Targeting!Inspectable, Targeting!ListSegments, Targeting!GetSegment
<1>6. ASSUME NEW c \in Calls, Targeting!SubmitCreate(c)
      PROVE  IInv'
  BY <1>1, <1>4, <1>6
     DEF Targeting!SubmitCreate, Targeting!CreateSegmentPanel, Targeting!CreateSegment
<1>7. ASSUME NEW c \in Calls, Targeting!SubmitUpdate(c)
      PROVE  IInv'
  BY <1>1, <1>2, <1>4, <1>7
     DEF Targeting!SubmitUpdate, Targeting!EditSegmentPanel, Targeting!Selected, Targeting!UpdateSegment
<1>8. ASSUME NEW c \in Calls, Targeting!SubmitSimulation(c)
      PROVE  IInv'
  BY <1>1, <1>2, <1>4, <1>8
     DEF Targeting!SubmitSimulation, Targeting!SimulatorPanel, Targeting!Selected, Targeting!SimulateTargeting
<1>9. ASSUME NEW c \in Calls, Targeting!ChangeStatus(c)
      PROVE  IInv'
  <2>1. PICK id \in Displayed, op \in {"archive", "restore"} :
            Ask(c, op, Copy(id, rows[id]).id, Copy(id, rows[id]).version, 0) /\ Busy("status", id)
    BY <1>9 DEF Targeting!ChangeStatus, Targeting!StatusButtons, Targeting!ListSegments, Targeting!Row,
                Targeting!ArchiveSegment, Targeting!RestoreSegment
  <2>2. Ask(c, op, id, rows[id], 0)
    BY <1>1, <2>1, CopyFacts
  <2>3. QED
    BY <1>1, <1>4, <2>1, <2>2
<1>10. ASSUME NEW c \in Calls, Targeting!RunMutation(c)
       PROVE  IInv'
  BY <1>1, <1>10, EditorPages, RefreshKeepsIInv DEF Targeting!RunMutation
<1>11. ASSUME NEW c \in Calls, Targeting!MutationOver(c)
       PROVE  IInv'
  <2>1. Refreshed(c) /\ Return(c) /\ pending' = None /\ Flying(c)
    BY <1>11 DEF Targeting!MutationOver, Refreshed, Flying
  <2>2. calls[c].op # "look"
    BY <2>1 DEF IInv, CallInv, CallOK, Refreshed, Writes
  <2>3. CASE ~calls[c].ok /\ UNCHANGED <<copies, cache>>
    BY <1>1, <2>1, <2>3, EditorReturns
  <2>4. CASE /\ calls[c].ok /\ calls[c].op = "create"
             /\ Targeting!SegmentIntoEditor(calls[c].id, calls[c].version) /\ UNCHANGED cache
    <3>1. editor' = Copy(calls[c].id, calls[c].version) /\ report' = None
      BY <2>4 DEF Targeting!SegmentIntoEditor
    <3>2. QED
      BY <1>1, <2>1, <2>2, <2>4, <3>1, AnswerInHand, EditorReturns
  <2>5. CASE /\ calls[c].ok /\ calls[c].op = "edit"
             /\ Targeting!UpdateIntoEditor(calls[c].id, calls[c].version)
             /\ Targeting!ReplaceSegmentInCollection(calls[c].id, calls[c].version)
    <3>1. editor' = Copy(calls[c].id, calls[c].version) /\ report' = report
      BY <2>5 DEF Targeting!UpdateIntoEditor
    <3>2. Handed /\ TakesInHand(c)
      BY <1>1, <2>1, <2>2, <2>5, <3>1, AnswerInHand DEF TakesInHand
    <3>3. QED
      BY <2>1, <2>5, <3>1, <3>2, SegmentInItsPlace
  <2>6. CASE /\ calls[c].ok /\ calls[c].op \in {"archive", "restore"} /\ calls[c].inHand
             /\ Targeting!StatusIntoEditor(calls[c].id, calls[c].version)
             /\ Targeting!ReplaceSegmentInCollection(calls[c].id, calls[c].version)
    <3> DEFINE form == IF editor.id = calls[c].id THEN editor.form ELSE 0
    <3>1. /\ editor' = [id |-> calls[c].id, version |-> calls[c].version, form |-> form]
          /\ report' = report
      BY <2>6 DEF Targeting!StatusIntoEditor
    <3>2. editor # None
      BY <2>1, <2>6 DEF IInv, CallInv, CallOK
    <3>3. /\ calls[c].id \in Ids /\ calls[c].version \in 0 .. MaxVersion
          /\ calls[c].version <= Version(calls[c].id) /\ Version(calls[c].id) \in Nat
      <4>1. /\ calls[c].id \in Ids /\ calls[c].version \in 0 .. MaxVersion
            /\ calls[c].version <= Version(calls[c].id)
        BY <2>1, AnswerFacts
      <4>2. Version(calls[c].id) \in 0 .. MaxVersion
        BY <4>1 DEF IInv, HistoryInv
      <4>3. QED
        BY <4>1, <4>2, Numbers
    <3>4. form \in 0 .. MaxVersion /\ form <= Version(calls[c].id)
      BY <1>1, <1>2, <3>2, <3>3
    <3> HIDE DEF form
    <3>5. /\ editor' \in Copies /\ editor'.id = calls[c].id /\ editor'.version = calls[c].version
          /\ editor'.form = form
      BY <3>1, <3>3, <3>4 DEF Copies
    <3>6. Handed /\ TakesInHand(c)
      BY <1>1, <2>2, <2>6, <3>3, <3>4, <3>5, RecordsAssumption, EditorPages DEF Handed, TakesInHand
    <3>7. QED
      BY <2>1, <2>6, <3>1, <3>6, SegmentInItsPlace
  <2>7. CASE /\ calls[c].ok /\ calls[c].op \in {"archive", "restore"} /\ ~calls[c].inHand
             /\ UNCHANGED copies
             /\ Targeting!ReplaceSegmentInCollection(calls[c].id, calls[c].version)
    <3>1. Handed /\ LeavesInHand(c) /\ report' = report
      BY <1>1, <2>7 DEF Handed, LeavesInHand, copies
    <3>2. QED
      BY <2>1, <2>7, <3>1, SegmentInItsPlace
  <2>8. calls[c].inHand \in BOOLEAN
    BY <2>1, AnswerFacts
  <2>9. QED
    BY <1>11, <2>3, <2>4, <2>5, <2>6, <2>7, <2>8 DEF Targeting!MutationOver
<1>12. ASSUME NEW c \in Calls, Targeting!SegmentAnswered(c)
       PROVE  IInv'
  <2>1. /\ Answered(c, {"get", "miss", "read", "look"}) /\ Return(c) /\ pending' = None /\ UNCHANGED cache
        /\ Flying(c) /\ calls[c].op \in {"get", "miss"}
    BY <1>12 DEF Targeting!SegmentAnswered, Answered, Flying
  <2>2. CASE calls[c].ok
    <3>1. editor' = Copy(calls[c].id, calls[c].version) /\ report' = None
      BY <1>12, <2>2 DEF Targeting!SegmentAnswered, Targeting!SegmentIntoEditor
    <3>2. QED
      BY <1>1, <2>1, <2>2, <3>1, AnswerInHand, EditorReturns
  <2>3. CASE ~calls[c].ok
    BY <1>1, <1>12, <2>1, <2>3, EditorReturns DEF Targeting!SegmentAnswered
  <2>4. QED
    BY <2>2, <2>3
<1>13. ASSUME NEW c \in Calls, Targeting!SimulationAnswered(c)
       PROVE  IInv'
  <2>1. Answered(c, {"read"}) /\ Return(c) /\ pending' = None /\ UNCHANGED cache /\ editor' = editor
    BY <1>13 DEF Targeting!SimulationAnswered
  <2>2. Answered(c, {"get", "miss", "read", "look"}) /\ calls[c].op \notin Writes
    BY <2>1 DEF Answered, Writes
  <2>3. CASE calls[c].ok
    BY <1>1, <1>13, <2>1, <2>2, <2>3, EditorReturns DEF Targeting!SimulationAnswered
  <2>4. CASE ~calls[c].ok
    BY <1>1, <1>13, <2>1, <2>2, <2>4, EditorReturns DEF Targeting!SimulationAnswered, copies
  <2>5. QED
    BY <2>3, <2>4
<1>14. QED
  BY <1>3, <1>5, <1>6, <1>7, <1>8, <1>9, <1>10, <1>11, <1>12, <1>13 DEF Targeting!Next

-----------------------------------------------------------------------------
(***************************************************************************)
(* The pages with an inspector, and those of storage.                      *)
(***************************************************************************)

LEMMA WaitedPages ==
    ASSUME page \in Waited
    PROVE  /\ page \notin EditorPanels /\ page \notin AlwaysRefresh
           /\ page \notin Loose /\ page \notin {"config", "feature", "targeting"}
           /\ page \in FilledFromAnswers => page \in {"accounts", "deliveries"}
BY DEF EditorPanels, Waited, FilledFromAnswers, AlwaysRefresh, InspectorPanels, StoragePanels,
       MailPanels, TelemetryPanels, ReleasePanels, AnalyticsPanels, Loose, PlatformPanels,
       AuthorizationPanels, IdentityPanels

\* What the page marks as under way.
LEMMA MarksStay ==
    ASSUME IInv, page \in Waited,
           \/ pending' = pending
           \/ \E busy : pending' = [pending EXCEPT !.busy = busy]
           \/ \E busy : \E id \in Ids \cup {None} : pending' = [pending EXCEPT !.reading = id, !.busy = busy]
           \/ \E id \in Ids \cup {None} : pending' = [pending EXCEPT !.reading = id]
    PROVE  MarksOK
BY DEF IInv, PendingInv, MarksOK

\* Who waits on: they waited before, and for a release by its card alone when
\* another copy is taken in hand.
WaitsOn(waiting) ==
    \A waits \in waiting :
        /\ waits \in pending.busy
        /\ page = "releases" /\ editor' # editor => waits.of.version = 0

LEMMA StillBusyWaitsOn ==
    ASSUME NEW id, NEW version, editor' = Copy(id, version)
    PROVE  WaitsOn(StillBusy(id, version))
BY DEF StillBusy, WaitsOn

\* A command of a card or an inspector, which waits for it.
LEMMA PerformKeepsIInv ==
    ASSUME IInv, page \in Waited, NEW c \in Calls, NEW op \in Operations, NEW id \in Ids,
           NEW sent \in 0 .. MaxVersion, NEW form \in 0 .. MaxVersion,
           Ask(c, op, id, sent, form), MayAsk(op, id, sent, form), UNCHANGED copies,
           NEW waits, waits.by = c, pending' = [pending EXCEPT !.busy = @ \cup {waits}],
           op \in {"get", "miss"} => sent > 0,
           page = "releases" => \/ waits.of.version = 0 /\ op # "read"
                                \/ editor # None /\ waits.of = editor
    PROVE  IInv'
<1>1. Sent(c, op, id, sent, form)
  BY AskSends DEF IInv
<1>2. MarksOK
  BY MarksStay
<1>3. pending'.busy = pending.busy \cup {waits}
  BY DEF IInv, PendingInv
<1>4. Waits(c, op, sent)
  BY <1>2, <1>3 DEF Waits
<1>5. QED
  BY <1>1, <1>4, SentKeepsIInv

\* A row is fetched, and nobody waits for it.
LEMMA ReadsKeepIInv ==
    ASSUME IInv, page \in Waited, NEW c \in Calls, NEW op \in {"get", "miss"}, NEW id \in Ids,
           op = "get" => Version(id) > 0, Ask(c, op, id, 0, 0), UNCHANGED copies,
           pending' = [pending EXCEPT !.reading = id]
    PROVE  IInv'
<1>1. op \in Operations /\ MayAsk(op, id, 0, 0)
  BY DEF Operations, MayAsk
<1>2. Sent(c, op, id, 0, 0)
  BY <1>1, AskSends, Numbers DEF IInv
<1>3. MarksOK
  BY MarksStay
<1>4. pending'.busy = pending.busy
  BY DEF IInv, PendingInv
<1>5. Waits(c, op, 0)
  BY <1>3, <1>4 DEF Waits
<1>6. QED
  BY <1>1, <1>2, <1>5, Numbers, SentKeepsIInv

LEMMA ReadingKeepsIInv ==
    ASSUME IInv, page \in Waited, NEW c \in Calls, NEW id \in Displayed, Reading(c, id)
    PROVE  IInv'
<1>1. PICK op \in {"get", "miss"} : Ask(c, op, id, 0, 0)
  BY DEF Reading, AskFor
<1>2. id \in Ids /\ Version(id) > 0
  BY DisplayedFacts
<1>3. QED
  BY <1>1, <1>2, ReadsKeepIInv DEF Reading

\* What was answered is taken in hand.
LEMMA TakenInHand ==
    ASSUME IInv, NEW c \in Calls, Flying(c), TakeInHand(calls[c].id, calls[c].version),
           calls[c].ok, calls[c].op \in Writes \cup {"get", "miss"}
    PROVE  /\ Handed /\ Reported
           /\ editor' # None /\ editor'.id = calls[c].id /\ editor'.version = calls[c].version
           /\ editor' = Copy(calls[c].id, calls[c].version)
<1>1. /\ calls[c].id \in Ids /\ calls[c].version \in 0 .. MaxVersion /\ calls[c].version > 0
      /\ calls[c].version <= Version(calls[c].id)
  BY AnswerFacts
<1>2. editor' = Copy(calls[c].id, calls[c].version)
  BY DEF TakeInHand
<1>3. Reported
  BY DEF TakeInHand, Reported
<1>4. QED
  BY <1>1, <1>2, <1>3, CopyIsHanded

LEMMA ChangedKeepsIInv ==
    ASSUME IInv, page \in Waited, page # "accounts", NEW c \in Calls, NEW waiting,
           Changed(c, waiting), WaitsOn(waiting)
    PROVE  IInv'
<1>1. /\ Answered(c, Writes) /\ calls[c].ok /\ Flying(c) /\ calls[c].op \in Writes
      /\ TakeInHand(calls[c].id, calls[c].version)
      /\ pending' = [pending EXCEPT !.busy = waiting]
  BY DEF Changed, Answered, Flying
<1>2. Asks(c) /\ UNCHANGED <<scope, acked, told, clicks, raced>>
  BY <1>1, AskForListAsks DEF Changed, IInv
<1>3. /\ Handed /\ Reported
      /\ editor' # None /\ editor'.id = calls[c].id /\ editor'.version = calls[c].version
  BY <1>1, TakenInHand
<1>4. MarksOK
  BY <1>1, MarksStay
<1>5. pending'.busy = waiting
  BY <1>1 DEF IInv, PendingInv
<1>6. StillWaiting({})
  BY <1>4, <1>5 DEF StillWaiting, WaitsOn
<1>7. QED
  BY <1>1, <1>2, <1>3, <1>6, WaitedPages, AskedKeepsIInv DEF Accounted

\* The handler is done and the page stays as it is.
LEMMA WithoutWaits ==
    ASSUME IInv, page \in Waited, NEW c, editor' = editor,
           pending' = [pending EXCEPT !.busy = Without(c, @)]
    PROVE  StillWaiting({c})
<1>1. MarksOK
  BY MarksStay
<1>2. pending'.busy = Without(c, pending.busy)
  BY DEF IInv, PendingInv
<1>3. QED
  BY <1>1, <1>2 DEF StillWaiting, Without

LEMMA StaysKeepsIInv ==
    ASSUME IInv, page \in Waited, NEW c \in Calls, Flying(c), Return(c), UNCHANGED <<copies, cache>>,
           pending' = [pending EXCEPT !.busy = Without(c, @)],
           \/ Refreshed(c) /\ page # "accounts"
           \/ Refreshed(c) /\ ~calls[c].ok
           \/ /\ calls[c].stage = "answered"
              /\ calls[c].op \in Writes => ~calls[c].ok
    PROVE  IInv'
<1>1. Handed /\ Reported /\ editor' = editor
  BY DEF Handed, Reported, copies
<1>2. StillWaiting({c})
  BY <1>1, WithoutWaits
<1>3. page \in FilledFromAnswers => LeavesInHand(c)
  BY <1>1, WaitedPages DEF LeavesInHand, Refreshed
<1>4. QED
  BY <1>1, <1>2, <1>3, WaitedPages, ReturnKeepsIInv

LEMMA DoneKeepsIInv ==
    ASSUME IInv, page \in Waited, NEW c \in Calls, Done(c), page = "accounts" => ~calls[c].ok
    PROVE  IInv'
<1>1. /\ Refreshed(c) \/ (Answered(c, Writes) /\ ~calls[c].ok)
      /\ Return(c) /\ UNCHANGED <<copies, cache>>
      /\ pending' = [pending EXCEPT !.busy = Without(c, @)]
  BY DEF Done
<1>2. Flying(c)
  BY <1>1 DEF Refreshed, Answered, Flying
<1>3. QED
  BY <1>1, <1>2, StaysKeepsIInv DEF Answered

LEMMA LookOverKeepsIInv ==
    ASSUME IInv, page \in Waited, NEW c \in Calls, LookOver(c)
    PROVE  IInv'
<1>1. Flying(c) /\ calls[c].stage = "answered" /\ calls[c].op \notin Writes
  BY DEF LookOver, Answered, Flying, Writes
<1>2. QED
  BY <1>1, StaysKeepsIInv DEF LookOver

LEMMA ReadingOverKeepsIInv ==
    ASSUME IInv, page \in Waited, NEW c \in Calls, NEW waiting, ReadingOver(c, waiting),
           calls[c].ok => WaitsOn(waiting),
           page = "releases" => calls[c].sent = 0
    PROVE  IInv'
<1>1. /\ Flying(c) /\ calls[c].stage = "answered" /\ calls[c].op \in {"get", "miss"}
      /\ calls[c].op \notin Writes
  BY DEF ReadingOver, Answered, Flying, Writes
<1>2. calls[c].sent = 0
  BY <1>1 DEF IInv, CallInv, CallOK
<1>3. \A waits \in pending.busy : waits.by # c
  BY <1>1, <1>2 DEF IInv, PendingInv
<1>4. Return(c) /\ UNCHANGED cache
  BY DEF ReadingOver
<1>5. CASE calls[c].ok
  <2>1. /\ TakeInHand(calls[c].id, calls[c].version)
        /\ pending' = [pending EXCEPT !.reading = None, !.busy = waiting]
    BY <1>5 DEF ReadingOver
  <2>2. Handed /\ Reported /\ TakesInHand(c)
    BY <1>1, <1>5, <2>1, TakenInHand DEF TakesInHand
  <2>3. MarksOK
    BY <2>1, MarksStay
  <2>4. pending'.busy = waiting
    BY <2>1 DEF IInv, PendingInv
  <2>5. StillWaiting({c})
    BY <1>3, <1>5, <2>3, <2>4 DEF StillWaiting, WaitsOn
  <2>6. QED
    BY <1>1, <1>4, <2>2, <2>5, ReturnKeepsIInv
<1>6. CASE ~calls[c].ok
  <2>1. UNCHANGED copies /\ pending' = [pending EXCEPT !.reading = None, !.busy = pending.busy]
    BY <1>6 DEF ReadingOver
  <2>2. Handed /\ Reported /\ LeavesInHand(c) /\ editor' = editor
    BY <1>6, <2>1 DEF Handed, Reported, LeavesInHand, copies
  <2>3. MarksOK
    BY <2>1, MarksStay
  <2>4. pending'.busy = pending.busy
    BY <2>1 DEF IInv, PendingInv
  <2>5. StillWaiting({c})
    BY <1>3, <2>2, <2>3, <2>4 DEF StillWaiting
  <2>6. QED
    BY <1>1, <1>4, <2>2, <2>5, ReturnKeepsIInv
<1>7. calls[c].ok \in BOOLEAN
  BY <1>1, AnswerFacts
<1>8. QED
  BY <1>5, <1>6, <1>7

\* A row is chosen.
LEMMA ChosenKeepsIInv ==
    ASSUME IInv, page \in Waited, page \notin FilledFromAnswers, NEW id \in Displayed, NEW waiting,
           TakeInHand(id, rows[id]), WaitsOn(waiting),
           pending' = [pending EXCEPT !.busy = waiting],
           UNCHANGED <<page, services, scope, cache, calls, acked, told, clicks, raced>>
    PROVE  IInv'
<1>1. editor' = Copy(id, rows[id]) /\ Reported
  BY DEF TakeInHand, Reported
<1>2. Handed
  BY <1>1, DisplayedFacts, CopyIsHanded
<1>3. MarksOK
  BY MarksStay
<1>4. pending'.busy = waiting
  BY DEF IInv, PendingInv
<1>5. StillWaiting({})
  BY <1>3, <1>4 DEF StillWaiting, WaitsOn
<1>6. QED
  BY <1>1, <1>2, <1>5, TurnKeepsIInv

LEMMA ChooseKeepsIInv ==
    ASSUME IInv, page \in Waited, page \notin FilledFromAnswers, NEW id \in Displayed, Choose(id)
    PROVE  IInv'
<1>1. WaitsOn(StillBusy(id, rows[id]))
  BY StillBusyWaitsOn DEF Choose, TakeInHand
<1>2. QED
  BY <1>1, ChosenKeepsIInv DEF Choose

LEMMA LetGoKeepsIInv ==
    ASSUME IInv, page \in Waited, page \notin FilledFromAnswers, LetGo
    PROVE  IInv'
<1> DEFINE waiting == {waits \in pending.busy : waits.of.version = 0}
<1>1. Handed /\ Reported
  BY WaitedPages DEF LetGo, Handed, Reported
<1>2. pending' = [pending EXCEPT !.busy = waiting]
  BY DEF LetGo
<1>3. MarksOK
  BY <1>2, MarksStay
<1>4. pending'.busy = waiting
  BY <1>2 DEF IInv, PendingInv
<1>5. StillWaiting({})
  BY <1>3, <1>4 DEF StillWaiting
<1>6. QED
  BY <1>1, <1>5, TurnKeepsIInv DEF LetGo

LEMMA WaitersStay ==
    ASSUME IInv, page \in Waited, page # "releases", pending' = pending
    PROVE  StillWaiting({})
BY MarksStay DEF StillWaiting

LEMMA SelectsKeepIInv ==
    ASSUME IInv, page \in Waited, NEW s \in Scopes, SelectScope(s)
    PROVE  IInv'
BY WaitedPages, SelectScopeKeepsIInv DEF SelectScope

\* Another list is chosen, and no record of it.
LEMMA EmptyHandedKeepsIInv ==
    ASSUME IInv, page \in Waited, page \notin FilledFromAnswers, page # "releases",
           NEW s \in Scopes, editor' = None, UNCHANGED <<report, pending>>,
           \/ Select(s)
           \/ UNCHANGED <<page, services, scope, cache, calls, acked, told, clicks, raced>>
    PROVE  IInv'
<1>1. Handed /\ Reported
  BY WaitedPages DEF Handed, Reported
<1>2. ASSUME Select(s) PROVE IInv'
  BY <1>1, <1>2, WaitedPages, SelectKeepsIInv
<1>3. ASSUME UNCHANGED <<page, services, scope, cache, calls, acked, told, clicks, raced>> PROVE IInv'
  BY <1>1, <1>3, WaitersStay, TurnKeepsIInv
<1>4. QED
  BY <1>2, <1>3

LEMMA ChooseListKeepsIInv ==
    ASSUME IInv, page \in Waited, page \notin FilledFromAnswers, page # "releases",
           NEW s \in Scopes, ChooseList(s)
    PROVE  IInv'
BY EmptyHandedKeepsIInv DEF ChooseList

\* A command of a card or an inspector, on any of these pages but that of releases.
LEMMA InspectorSends ==
    ASSUME IInv, page \in Waited, page # "releases", NEW c \in Calls,
           NEW op \in Operations \ {"get", "miss"}, NEW id \in Ids,
           NEW sent \in 0 .. MaxVersion, NEW form \in 0 .. MaxVersion,
           Ask(c, op, id, sent, form), op \in {"edit", "set"} => form = sent,
           NEW owner, Performs(c, owner)
    PROVE  IInv'
<1> DEFINE waits == [of |-> owner, by |-> c]
<1>1. waits.by = c /\ pending' = [pending EXCEPT !.busy = @ \cup {waits}] /\ UNCHANGED copies
  BY DEF Performs
<1>2. MayAsk(op, id, sent, form)
  BY WaitedPages DEF MayAsk
<1>3. QED
  BY <1>1, <1>2, PerformKeepsIInv

LEMMA InspectorLooks ==
    ASSUME IInv, page \in Waited, page # "releases", NEW c \in Calls, Look(c),
           NEW owner, Performs(c, owner)
    PROVE  IInv'
<1>1. "look" \in Operations \ {"get", "miss"}
  BY DEF Operations
<1>2. QED
  BY <1>1, Numbers, SomethingIsARecord, InspectorSends DEF Look

\* The inspector of the copy in hand.
LEMMA InHandFacts ==
    ASSUME IInv, page \in Waited, InHand
    PROVE  /\ editor.id \in Ids /\ editor.version \in 0 .. MaxVersion
           /\ editor.form \in 0 .. MaxVersion /\ editor.form = editor.version
BY EditorFacts, WaitedPages DEF InHand

-----------------------------------------------------------------------------
\* SMTP accounts and mail deliveries.

LEMMA MailIsConsole ==
    /\ \A c, op, id, sent, form :
          Mail!Ask(c, op, id, sent, form) <=> Ask(c, op, id, sent, form)
    /\ \A c, ops : Mail!Answered(c, ops) <=> Answered(c, ops)
    /\ \A c : Mail!Refresh(c) <=> Refresh(c)
    /\ \A c : Mail!Refreshed(c) <=> Refreshed(c)
    /\ \A c : Mail!Return(c) <=> Return(c)
    /\ Mail!Listed = Listed
    /\ \A id, version : Mail!Copy(id, version) = Copy(id, version)
    /\ Mail!InHand <=> InHand
    /\ \A id, version : Mail!IsActive(id, version) = IsActive(id, version)
    /\ \A c, id : Mail!Reading(c, id) <=> Reading(c, id)
    /\ \A c, owner : Mail!Performs(c, owner) <=> Performs(c, owner)
    /\ \A c, waiting : Mail!ReadingOver(c, waiting) <=> ReadingOver(c, waiting)
    /\ \A c, waiting : Mail!Changed(c, waiting) <=> Changed(c, waiting)
    /\ \A c : Mail!Done(c) <=> Done(c)
    /\ \A c : Mail!LookOver(c) <=> LookOver(c)
    /\ \A s : Mail!SelectScope(s) <=> SelectScope(s)
    /\ \A id, version : Mail!StillBusy(id, version) = StillBusy(id, version)
    /\ \A id, version : Mail!TakeInHand(id, version) <=> TakeInHand(id, version)
    /\ Mail!Fresh = Fresh
    /\ \A c, busy : Mail!Without(c, busy) = Without(c, busy)
    /\ Mail!Writes = Writes
    /\ (Mail!copies = copies) /\ (Mail!copies = copies)'
    /\ (Mail!cache = cache) /\ (Mail!cache = cache)'
    /\ (Mail!services = services) /\ (Mail!services = services)'
BY DEF Mail!Ask, Mail!Click, Mail!Races, Mail!Nothing, Mail!InHand, Mail!Answered, Mail!Refresh,
       Mail!AskForList, Mail!Mutate, Mail!Refreshed, Mail!Awaits, Mail!Return, Mail!Listed,
       Mail!Displayed, Mail!Copy, Mail!IsActive, Mail!Reading, Mail!AskFor, Mail!Performs,
       Mail!ReadingOver, Mail!TakeInHand, Mail!Changed, Mail!Done, Mail!Without, Mail!LookOver,
       Mail!SelectScope, Mail!Select, Mail!StillBusy, Mail!Fresh, Mail!services, Mail!cache,
       Mail!copies, Mail!Version, Mail!Writes, Ask, Click, Races, Nothing, InHand, Answered,
       Refresh, AskForList, Mutate, Refreshed, Awaits, Return, Listed, Displayed, Copy, IsActive,
       Reading, AskFor, Performs, ReadingOver, TakeInHand, Changed, Done, Without, LookOver,
       SelectScope, Select, StillBusy, Fresh, services, cache, copies, Version, Writes

LEMMA MailPages ==
    ASSUME page \in MailPanels
    PROVE  page \in Waited /\ page \notin {"releases", "objects"}
BY DEF MailPanels, Waited, InspectorPanels

LEMMA MailKeepsIInv ==
    ASSUME IInv, page \in MailPanels, Mail!Next
    PROVE  IInv'
<1> USE MailIsConsole
<1>1. /\ page \in Waited /\ page # "releases"
      /\ \A id \in Listed : id \in Displayed
      /\ Fresh \subseteq Ids
      /\ 0 \in 0 .. MaxVersion
      /\ {"create", "send", "edit", "archive", "restore", "look"} \subseteq Operations \ {"get", "miss"}
  BY MailPages, Numbers DEF Operations, Writes, Listed, Fresh
<1>2. ASSUME NEW s \in Scopes, Mail!SelectScope(s)
      PROVE  IInv'
  BY <1>1, <1>2, SelectsKeepIInv
<1>3. ASSUME NEW c \in Calls, NEW op \in Operations \ {"get", "miss"}, NEW id \in Ids,
             NEW sent \in 0 .. MaxVersion, NEW form \in 0 .. MaxVersion,
             Ask(c, op, id, sent, form), op \in {"edit", "set"} => form = sent,
             NEW owner, Performs(c, owner)
      PROVE  IInv'
  BY <1>1, <1>3, InspectorSends
<1>4. ASSUME NEW c \in Calls, Mail!AccountsPanel(c)
      PROVE  IInv'
  <2>1. ASSUME Mail!LoadAccount(c) PROVE IInv'
    BY <1>1, <2>1, ReadingKeepsIInv
       DEF Mail!LoadAccount, Mail!ListSmtpAccounts, Mail!GetSmtpAccount
  <2>2. ASSUME Mail!SubmitAccount(c) PROVE IInv'
    BY <1>1, <1>3, <2>2 DEF Mail!SubmitAccount, Mail!CreateSmtpAccount
  <2>3. ASSUME Mail!AccountDetailCard(c) PROVE IInv'
    BY <1>1, <1>3, <2>3, InHandFacts
       DEF Mail!AccountDetailCard, Mail!UpdateSmtpAccount, Mail!TestSmtpAccount,
           Mail!ArchiveSmtpAccount, Mail!RestoreSmtpAccount
  <2>4. ASSUME page = "accounts", Mail!RefreshAccounts(c) PROVE IInv'
    BY <1>1, <2>4, RefreshKeepsIInv DEF Mail!RefreshAccounts
  <2>5. ASSUME page = "accounts", Mail!AccountRefreshed(c) PROVE IInv'
    <3>1. /\ Refreshed(c) /\ Return(c) /\ UNCHANGED cache /\ Flying(c)
          /\ TakeInHand(calls[c].id, calls[c].version)
      BY <2>5 DEF Mail!AccountRefreshed, Refreshed, Flying
    <3>2. calls[c].ok /\ calls[c].op \in Writes
      BY <1>1, <3>1 DEF IInv, CallInv, CallOK, Refreshed
    <3>3. Handed /\ Reported /\ TakesInHand(c)
      BY <3>1, <3>2, TakenInHand DEF TakesInHand, Writes
    <3> DEFINE waiting == Without(c, StillBusy(calls[c].id, calls[c].version))
    <3>4. pending' = [pending EXCEPT !.busy = waiting]
      BY <2>5 DEF Mail!AccountRefreshed
    <3>5. MarksOK
      BY <1>1, <3>4, MarksStay
    <3>6. pending'.busy = waiting
      BY <1>1, <3>4 DEF IInv, PendingInv
    <3>7. StillWaiting({c})
      BY <1>1, <3>5, <3>6 DEF StillWaiting, StillBusy, Without
    <3>8. QED
      BY <1>1, <3>1, <3>3, <3>7, ReturnKeepsIInv
  <2>6. ASSUME Mail!Done(c), ~calls[c].ok PROVE IInv'
    BY <1>1, <2>6, DoneKeepsIInv
  <2>7. QED
    BY <1>4, <2>1, <2>2, <2>3, <2>4, <2>5, <2>6 DEF Mail!AccountsPanel
<1>5. ASSUME NEW c \in Calls, Mail!DeliveriesPanel(c)
      PROVE  IInv'
  <2>1. ASSUME Mail!LoadDelivery(c) PROVE IInv'
    BY <1>1, <2>1, ReadingKeepsIInv
       DEF Mail!LoadDelivery, Mail!ListMailDeliveries, Mail!GetMailDelivery
  <2>2. ASSUME Mail!SubmitMessage(c) PROVE IInv'
    BY <1>1, <1>3, <2>2 DEF Mail!SubmitMessage, Mail!SendMail
  <2>3. ASSUME page = "deliveries", Mail!Changed(c, StillBusy(calls[c].id, calls[c].version)) PROVE IInv'
    BY <1>1, <2>3, StillBusyWaitsOn, ChangedKeepsIInv DEF Changed, TakeInHand
  <2>4. ASSUME page = "deliveries", Mail!Done(c) PROVE IInv'
    BY <1>1, <2>4, DoneKeepsIInv
  <2>5. QED
    BY <1>5, <2>1, <2>2, <2>3, <2>4 DEF Mail!DeliveriesPanel
<1>6. ASSUME NEW c \in Calls, Mail!ReadingOver(c, StillBusy(calls[c].id, calls[c].version))
      PROVE  IInv'
  <2>1. calls[c].ok => editor' = Copy(calls[c].id, calls[c].version)
    BY <1>6 DEF ReadingOver, TakeInHand
  <2>2. calls[c].ok => WaitsOn(StillBusy(calls[c].id, calls[c].version))
    BY <2>1, StillBusyWaitsOn
  <2>3. QED
    BY <1>1, <1>6, <2>2, ReadingOverKeepsIInv
<1>7. ASSUME NEW c \in Calls, Mail!LookOver(c)
      PROVE  IInv'
  BY <1>1, <1>7, LookOverKeepsIInv
<1>8. QED
  BY <1>2, <1>4, <1>5, <1>6, <1>7 DEF Mail!Next

-----------------------------------------------------------------------------
\* Telemetry.

LEMMA TelemetryIsConsole ==
    /\ \A c, op, id, sent, form :
          Telemetry!Ask(c, op, id, sent, form) <=> Ask(c, op, id, sent, form)
    /\ \A c : Telemetry!Look(c) <=> Look(c)
    /\ \A c, ops : Telemetry!Answered(c, ops) <=> Answered(c, ops)
    /\ \A c : Telemetry!Return(c) <=> Return(c)
    /\ Telemetry!Listed = Listed
    /\ \A id, version : Telemetry!Copy(id, version) = Copy(id, version)
    /\ Telemetry!InHand <=> InHand
    /\ \A id, version : Telemetry!IsActive(id, version) = IsActive(id, version)
    /\ \A c, id : Telemetry!Reading(c, id) <=> Reading(c, id)
    /\ \A c, owner : Telemetry!Performs(c, owner) <=> Performs(c, owner)
    /\ \A c, waiting : Telemetry!ReadingOver(c, waiting) <=> ReadingOver(c, waiting)
    /\ \A c, waiting : Telemetry!Changed(c, waiting) <=> Changed(c, waiting)
    /\ \A c : Telemetry!Done(c) <=> Done(c)
    /\ \A c : Telemetry!LookOver(c) <=> LookOver(c)
    /\ \A id : Telemetry!Choose(id) <=> Choose(id)
    /\ \A s : Telemetry!SelectScope(s) <=> SelectScope(s)
    /\ \A s : Telemetry!ChooseList(s) <=> ChooseList(s)
    /\ \A id, version : Telemetry!StillBusy(id, version) = StillBusy(id, version)
    /\ \A id, version : Telemetry!TakeInHand(id, version) <=> TakeInHand(id, version)
    /\ \A id : Telemetry!Row(id) = Row(id)
    /\ Telemetry!Fresh = Fresh
    /\ \A c, busy : Telemetry!Without(c, busy) = Without(c, busy)
    /\ Telemetry!Writes = Writes
    /\ (Telemetry!copies = copies) /\ (Telemetry!copies = copies)'
    /\ (Telemetry!cache = cache) /\ (Telemetry!cache = cache)'
    /\ (Telemetry!services = services) /\ (Telemetry!services = services)'
BY DEF Telemetry!Ask, Telemetry!Click, Telemetry!Races, Telemetry!Nothing, Telemetry!InHand,
       Telemetry!Look, Telemetry!Something, Telemetry!Answered, Telemetry!Return,
       Telemetry!Listed, Telemetry!Displayed, Telemetry!Copy, Telemetry!IsActive,
       Telemetry!Reading, Telemetry!AskFor, Telemetry!Performs, Telemetry!ReadingOver,
       Telemetry!TakeInHand, Telemetry!Changed, Telemetry!AskForList, Telemetry!Mutate,
       Telemetry!Done, Telemetry!Refreshed, Telemetry!Awaits, Telemetry!Without,
       Telemetry!LookOver, Telemetry!Choose, Telemetry!StillBusy, Telemetry!SelectScope,
       Telemetry!Select, Telemetry!ChooseList, Telemetry!Row, Telemetry!Fresh, Telemetry!services,
       Telemetry!cache, Telemetry!copies, Telemetry!Version, Telemetry!Writes, Ask, Click, Races,
       Nothing, InHand, Look, Something, Answered, Return, Listed, Displayed, Copy, IsActive,
       Reading, AskFor, Performs, ReadingOver, TakeInHand, Changed, AskForList, Mutate, Done,
       Refreshed, Awaits, Without, LookOver, Choose, StillBusy, SelectScope, Select, ChooseList,
       Row, Fresh, services, cache, copies, Version, Writes

LEMMA TelemetryPages ==
    ASSUME page \in TelemetryPanels
    PROVE  page \in Waited /\ page \notin {"releases", "objects", "accounts"} /\ page \notin FilledFromAnswers
BY DEF TelemetryPanels, Waited, InspectorPanels, FilledFromAnswers, EditorPanels

LEMMA TelemetryKeepsIInv ==
    ASSUME IInv, page \in TelemetryPanels, Telemetry!Next
    PROVE  IInv'
<1> USE TelemetryIsConsole
<1>1. /\ page \in Waited /\ page \notin {"releases", "accounts"} /\ page \notin FilledFromAnswers
      /\ \A id \in Listed : id \in Displayed
      /\ Fresh \subseteq Ids
      /\ 0 \in 0 .. MaxVersion /\ \A id \in Ids : rows[id] \in 0 .. MaxVersion
      /\ {"create", "edit", "set", "archive", "restore"} \subseteq Operations \ {"get", "miss"}
  BY TelemetryPages, Numbers DEF Operations, Writes, Listed, Fresh, IInv, ListTypeInv
<1>2. ASSUME NEW s \in Scopes, Telemetry!SelectScope(s)
      PROVE  IInv'
  BY <1>1, <1>2, SelectsKeepIInv
<1>3. ASSUME NEW c \in Calls, NEW op \in Operations \ {"get", "miss"}, NEW id \in Ids,
             NEW sent \in 0 .. MaxVersion, NEW form \in 0 .. MaxVersion,
             Ask(c, op, id, sent, form), op \in {"edit", "set"} => form = sent,
             NEW owner, Performs(c, owner)
      PROVE  IInv'
  BY <1>1, <1>3, InspectorSends
<1>4. ASSUME NEW id, NEW version, editor' = Copy(id, version)
      PROVE  WaitsOn(Telemetry!Waiting(id, version))
  BY <1>4, StillBusyWaitsOn DEF Telemetry!Waiting, WaitsOn
<1>5. ASSUME Telemetry!RecordsPanel
      PROVE  IInv'
  BY <1>1, <1>5, ChooseKeepsIInv, ChooseListKeepsIInv
     DEF Telemetry!RecordsPanel, Telemetry!ChooseRecord, Telemetry!ListTelemetryRecords,
         Telemetry!QueryRecords
<1>6. ASSUME NEW c \in Calls, Telemetry!SourcesPanel(c)
      PROVE  IInv'
  <2>1. ASSUME Telemetry!SourceList(c) PROVE IInv'
    <3>1. ASSUME NEW id \in Listed, Telemetry!ChooseSource(id) PROVE IInv'
      <4>1. WaitsOn(Telemetry!Waiting(id, rows[id]))
        BY <1>4, <3>1 DEF Telemetry!ChooseSource, TakeInHand
      <4>2. QED
        BY <1>1, <3>1, <4>1, ChosenKeepsIInv DEF Telemetry!ChooseSource
    <3>2. QED
      BY <1>1, <2>1, <3>1, ReadingKeepsIInv
         DEF Telemetry!SourceList, Telemetry!ListTelemetrySources, Telemetry!GetTelemetrySource
  <2>2. ASSUME Telemetry!SubmitSource(c) PROVE IInv'
    BY <1>1, <1>3, <2>2 DEF Telemetry!SubmitSource, Telemetry!CreateTelemetrySource
  <2>3. ASSUME Telemetry!SourceInspector(c) PROVE IInv'
    BY <1>1, <1>3, <2>3, InHandFacts
       DEF Telemetry!SourceInspector, Telemetry!UpdateTelemetrySource,
           Telemetry!ArchiveTelemetrySource, Telemetry!RestoreTelemetrySource
  <2>4. ASSUME Telemetry!SourceChanged(c) PROVE IInv'
    BY <1>1, <1>4, <2>4, ChangedKeepsIInv DEF Telemetry!SourceChanged, Changed, TakeInHand
  <2>5. ASSUME Telemetry!SourceRead(c) PROVE IInv'
    <3>1. ReadingOver(c, Telemetry!Waiting(calls[c].id, calls[c].version))
      BY <2>5 DEF Telemetry!SourceRead
    <3>2. calls[c].ok => editor' = Copy(calls[c].id, calls[c].version)
      BY <3>1 DEF ReadingOver, TakeInHand
    <3>3. calls[c].ok => WaitsOn(Telemetry!Waiting(calls[c].id, calls[c].version))
      BY <1>4, <3>2
    <3>4. QED
      BY <1>1, <3>1, <3>3, ReadingOverKeepsIInv
  <2>6. QED
    BY <1>1, <1>6, <2>1, <2>2, <2>3, <2>4, <2>5, DoneKeepsIInv DEF Telemetry!SourcesPanel
<1>7. ASSUME NEW c \in Calls, Telemetry!SettingsCard(c)
      PROVE  IInv'
  <2>1. ASSUME Telemetry!SubmitSettings(c) PROVE IInv'
    <3>1. PICK id \in Ids : Telemetry!UpdateTelemetrySettings(c, Row(id)) /\ Performs(c, Row(id))
      BY <2>1 DEF Telemetry!SubmitSettings, Telemetry!Settings
    <3>2. Row(id).id = id /\ Row(id).version = rows[id] /\ Row(id).form = rows[id]
      BY <1>1, CopyFacts DEF Row
    <3>3. Ask(c, "set", id, rows[id], rows[id])
      BY <3>1, <3>2 DEF Telemetry!UpdateTelemetrySettings
    <3>4. QED
      BY <1>1, <1>3, <3>1, <3>3
  <2>2. ASSUME page = "settings", Telemetry!SettingsChanged(c) PROVE IInv'
    <3>1. /\ Flying(c) /\ calls[c].stage = "answered" /\ calls[c].op \in Writes /\ Return(c)
          /\ pending' = [pending EXCEPT !.busy = Without(c, @)] /\ UNCHANGED copies
      BY <2>2 DEF Telemetry!SettingsChanged, Answered, Flying
    <3>2. Handed /\ Reported /\ editor' = editor
      BY <3>1 DEF Handed, Reported, copies
    <3>3. StillWaiting({c})
      BY <1>1, <3>1, <3>2, WithoutWaits
    <3>4. Over(c)
      BY <3>1, ReturnIsOver DEF IInv
    <3>5. CASE calls[c].ok
      <4>1. Counted(c)
        BY <3>4 DEF Over, Counted
      <4>2. Listing(c)
        BY <2>2, <3>1, <3>5 DEF Telemetry!SettingsChanged, Listing
      <4>3. QED
        BY <1>1, <3>1, <3>2, <3>3, <3>4, <4>1, <4>2, OverKeepsIInv DEF Over
    <3>6. CASE ~calls[c].ok
      <4>1. UNCHANGED cache
        BY <2>2, <3>6 DEF Telemetry!SettingsChanged
      <4>2. QED
        BY <1>1, <3>1, <3>6, <4>1, StaysKeepsIInv
    <3>7. calls[c].ok \in BOOLEAN
      BY <3>1, AnswerFacts
    <3>8. QED
      BY <3>5, <3>6, <3>7
  <2>3. QED
    BY <1>7, <2>1, <2>2 DEF Telemetry!SettingsCard
<1>8. ASSUME NEW c \in Calls, Telemetry!HealthPanel(c)
      PROVE  IInv'
  BY <1>1, <1>8, InspectorLooks, LookOverKeepsIInv
     DEF Telemetry!HealthPanel, Telemetry!DiagnosticLinkCard, Telemetry!GetTelemetryDiagnosticLink
<1>9. QED
  BY <1>2, <1>5, <1>6, <1>7, <1>8 DEF Telemetry!Next

-----------------------------------------------------------------------------
\* The audit trail.

LEMMA AuditIsConsole ==
    /\ \A c, op, id, sent, form :
          Audit!Ask(c, op, id, sent, form) <=> Ask(c, op, id, sent, form)
    /\ \A c : Audit!Look(c) <=> Look(c)
    /\ Audit!InHand <=> InHand
    /\ Audit!Displayed = Displayed
    /\ \A c, owner : Audit!Performs(c, owner) <=> Performs(c, owner)
    /\ \A c, waiting : Audit!ReadingOver(c, waiting) <=> ReadingOver(c, waiting)
    /\ \A c : Audit!LookOver(c) <=> LookOver(c)
    /\ \A s : Audit!SelectScope(s) <=> SelectScope(s)
    /\ \A s : Audit!ChooseList(s) <=> ChooseList(s)
    /\ Audit!Writes = Writes
    /\ (Audit!copies = copies) /\ (Audit!copies = copies)'
    /\ (Audit!cache = cache) /\ (Audit!cache = cache)'
    /\ (Audit!services = services) /\ (Audit!services = services)'
BY DEF Audit!Ask, Audit!Click, Audit!Races, Audit!Nothing, Audit!InHand, Audit!Look,
       Audit!Something, Audit!Displayed, Audit!Performs, Audit!ReadingOver, Audit!Answered,
       Audit!Return, Audit!TakeInHand, Audit!Copy, Audit!LookOver, Audit!Without,
       Audit!SelectScope, Audit!Select, Audit!ChooseList, Audit!services, Audit!cache,
       Audit!copies, Audit!Version, Audit!Writes, Ask, Click, Races, Nothing, InHand, Look,
       Something, Displayed, Performs, ReadingOver, Answered, Return, TakeInHand, Copy, LookOver,
       Without, SelectScope, Select, ChooseList, services, cache, copies, Version, Writes

LEMMA AuditKeepsIInv ==
    ASSUME IInv, page = "audit", Audit!Next
    PROVE  IInv'
<1> USE AuditIsConsole
<1>1. page \in Waited /\ page # "releases" /\ page \notin FilledFromAnswers
  BY DEF Waited, InspectorPanels, FilledFromAnswers, EditorPanels
<1>2. ASSUME NEW s \in Scopes, Audit!ApplyFilters(s) \/ Audit!TurnPage(s) \/ Audit!Correlate(s)
      PROVE  IInv'
  BY <1>1, <1>2, SelectsKeepIInv, ChooseListKeepsIInv
     DEF Audit!ApplyFilters, Audit!TurnPage, Audit!Correlate
<1>3. ASSUME NEW c \in Calls, Audit!ShowDetail(c)
      PROVE  IInv'
  <2>1. PICK id \in Displayed : /\ Ask(c, "get", id, 0, 0)
                                /\ pending' = [pending EXCEPT !.reading = id]
                                /\ UNCHANGED copies
    BY <1>3 DEF Audit!ShowDetail, Audit!Viewable, Audit!ListAuditEvents, Audit!GetAuditEvent
  <2>2. id \in Ids /\ Version(id) > 0
    BY DisplayedFacts
  <2>3. QED
    BY <1>1, <2>1, <2>2, ReadsKeepIInv
<1>4. ASSUME NEW c \in Calls, Audit!DetailShown(c)
      PROVE  IInv'
  <2>1. WaitsOn(pending.busy)
    BY <1>1 DEF WaitsOn
  <2>2. QED
    BY <1>1, <1>4, <2>1, ReadingOverKeepsIInv DEF Audit!DetailShown
<1>5. ASSUME NEW c \in Calls, Audit!DownloadExport(c)
      PROVE  IInv'
  BY <1>1, <1>5, InspectorLooks DEF Audit!DownloadExport, Audit!ExportAuditEvents
<1>6. ASSUME NEW c \in Calls, Audit!ExportOver(c)
      PROVE  IInv'
  BY <1>1, <1>6, LookOverKeepsIInv DEF Audit!ExportOver
<1>7. QED
  BY <1>2, <1>3, <1>4, <1>5, <1>6 DEF Audit!Next

-----------------------------------------------------------------------------
\* Analytics.

LEMMA AnalyticsIsConsole ==
    /\ \A c, op, id, sent, form :
          Analytics!Ask(c, op, id, sent, form) <=> Ask(c, op, id, sent, form)
    /\ \A c : Analytics!Look(c) <=> Look(c)
    /\ \A c, ops : Analytics!Answered(c, ops) <=> Answered(c, ops)
    /\ \A c : Analytics!Refresh(c) <=> Refresh(c)
    /\ Analytics!Listed = Listed
    /\ Analytics!InHand <=> InHand
    /\ \A id, version : Analytics!IsActive(id, version) = IsActive(id, version)
    /\ \A c, id : Analytics!Reading(c, id) <=> Reading(c, id)
    /\ \A c, owner : Analytics!Performs(c, owner) <=> Performs(c, owner)
    /\ \A c, waiting : Analytics!ReadingOver(c, waiting) <=> ReadingOver(c, waiting)
    /\ \A c, waiting : Analytics!Changed(c, waiting) <=> Changed(c, waiting)
    /\ \A c : Analytics!Done(c) <=> Done(c)
    /\ \A c : Analytics!LookOver(c) <=> LookOver(c)
    /\ \A id : Analytics!Choose(id) <=> Choose(id)
    /\ Analytics!LetGo <=> LetGo
    /\ \A s : Analytics!SelectScope(s) <=> SelectScope(s)
    /\ \A id, version : Analytics!StillBusy(id, version) = StillBusy(id, version)
    /\ \A id : Analytics!Row(id) = Row(id)
    /\ Analytics!Fresh = Fresh
    /\ Analytics!Writes = Writes
    /\ (Analytics!copies = copies) /\ (Analytics!copies = copies)'
    /\ (Analytics!cache = cache) /\ (Analytics!cache = cache)'
    /\ (Analytics!services = services) /\ (Analytics!services = services)'
BY DEF Analytics!Ask, Analytics!Click, Analytics!Races, Analytics!Nothing, Analytics!InHand,
       Analytics!Look, Analytics!Something, Analytics!Answered, Analytics!Refresh,
       Analytics!AskForList, Analytics!Mutate, Analytics!Listed, Analytics!Displayed,
       Analytics!IsActive, Analytics!Reading, Analytics!AskFor, Analytics!Performs,
       Analytics!ReadingOver, Analytics!Return, Analytics!TakeInHand, Analytics!Copy,
       Analytics!Changed, Analytics!Done, Analytics!Refreshed, Analytics!Awaits,
       Analytics!Without, Analytics!LookOver, Analytics!Choose, Analytics!StillBusy,
       Analytics!LetGo, Analytics!SelectScope, Analytics!Select, Analytics!Row, Analytics!Fresh,
       Analytics!services, Analytics!cache, Analytics!copies, Analytics!Version, Analytics!Writes,
       Ask, Click, Races, Nothing, InHand, Look, Something, Answered, Refresh, AskForList, Mutate,
       Listed, Displayed, IsActive, Reading, AskFor, Performs, ReadingOver, Return, TakeInHand,
       Copy, Changed, Done, Refreshed, Awaits, Without, LookOver, Choose, StillBusy, LetGo,
       SelectScope, Select, Row, Fresh, services, cache, copies, Version, Writes

LEMMA AnalyticsPages ==
    ASSUME page \in AnalyticsPanels
    PROVE  /\ page \in Waited /\ page \notin {"releases", "objects", "accounts", "deliveries"}
           /\ page \notin FilledFromAnswers
BY DEF AnalyticsPanels, Waited, InspectorPanels, FilledFromAnswers, EditorPanels

LEMMA AnalyticsKeepsIInv ==
    ASSUME IInv, page \in AnalyticsPanels, Analytics!Next
    PROVE  IInv'
<1> USE AnalyticsIsConsole
<1>1. /\ page \in Waited /\ page \notin {"releases", "accounts", "deliveries"}
      /\ page \notin FilledFromAnswers
      /\ \A id \in Listed : id \in Displayed /\ id \in Ids /\ rows[id] \in 0 .. MaxVersion
      /\ Fresh \subseteq Ids
      /\ 0 \in 0 .. MaxVersion
      /\ {"create", "edit", "touch", "act", "archive", "restore"} \subseteq Operations \ {"get", "miss"}
  BY AnalyticsPages, DisplayedFacts, Numbers DEF Operations, Writes, Listed, Fresh
<1>2. ASSUME NEW s \in Scopes, Analytics!SelectScope(s)
      PROVE  IInv'
  BY <1>1, <1>2, SelectsKeepIInv
<1>3. ASSUME NEW c \in Calls, NEW op \in Operations \ {"get", "miss"}, NEW id \in Ids,
             NEW sent \in 0 .. MaxVersion, NEW form \in 0 .. MaxVersion,
             Ask(c, op, id, sent, form), op \in {"edit", "set"} => form = sent,
             NEW owner, Performs(c, owner)
      PROVE  IInv'
  BY <1>1, <1>3, InspectorSends
<1>4. ASSUME Analytics!ApplyFilters
      PROVE  IInv'
  BY <1>1, <1>4, LetGoKeepsIInv DEF Analytics!ApplyFilters
<1>5. ASSUME NEW c \in Calls, Analytics!SchemasPanel(c)
      PROVE  IInv'
  <2>1. ASSUME Analytics!SchemaList(c) PROVE IInv'
    BY <1>1, <2>1, ReadingKeepsIInv, ChooseKeepsIInv
       DEF Analytics!SchemaList, Analytics!ListAnalyticsSchemas, Analytics!GetAnalyticsSchema
  <2>2. ASSUME Analytics!SubmitSchema(c) PROVE IInv'
    BY <1>1, <1>3, <2>2 DEF Analytics!SubmitSchema, Analytics!CreateAnalyticsSchema
  <2>3. ASSUME Analytics!SchemaInspector(c) PROVE IInv'
    BY <1>1, <1>3, <2>3, InHandFacts
       DEF Analytics!SchemaInspector, Analytics!UpdateAnalyticsSchema,
           Analytics!ArchiveAnalyticsSchema, Analytics!RestoreAnalyticsSchema,
           Analytics!UpdateAnalyticsRetention
  <2>4. ASSUME Changed(c, StillBusy(calls[c].id, calls[c].version)) PROVE IInv'
    BY <1>1, <2>4, StillBusyWaitsOn, ChangedKeepsIInv DEF Changed, TakeInHand
  <2>5. ASSUME ReadingOver(c, StillBusy(calls[c].id, calls[c].version)) PROVE IInv'
    <3>1. calls[c].ok => editor' = Copy(calls[c].id, calls[c].version)
      BY <2>5 DEF ReadingOver, TakeInHand
    <3>2. calls[c].ok => WaitsOn(StillBusy(calls[c].id, calls[c].version))
      BY <3>1, StillBusyWaitsOn
    <3>3. QED
      BY <1>1, <2>5, <3>2, ReadingOverKeepsIInv
  <2>6. QED
    BY <1>5, <2>1, <2>2, <2>3, <2>4, <2>5 DEF Analytics!SchemasPanel
<1>6. ASSUME NEW c \in Calls, Analytics!WriteKeysCard(c)
      PROVE  IInv'
  <2>1. ASSUME Analytics!CreateKey(c) PROVE IInv'
    BY <1>1, <1>3, <2>1 DEF Analytics!CreateKey, Analytics!CreateAnalyticsWriteKey
  <2>2. ASSUME Analytics!PerformKey(c) PROVE IInv'
    <3>1. PICK id \in Listed, op \in {"act", "archive"} :
              Ask(c, op, Row(id).id, Row(id).version, 0) /\ Performs(c, Analytics!Card("keys"))
      BY <2>2 DEF Analytics!PerformKey, Analytics!ListAnalyticsWriteKeys,
                  Analytics!RotateAnalyticsWriteKey, Analytics!RevokeAnalyticsWriteKey
    <3>2. Row(id).id = id /\ Row(id).version = rows[id]
      BY <1>1, CopyFacts DEF Row
    <3>3. QED
      BY <1>1, <1>3, <3>1, <3>2
  <2>3. ASSUME page = "writeKeys", Analytics!KeyChanged(c) PROVE IInv'
    BY <1>1, <2>3, RefreshKeepsIInv DEF Analytics!KeyChanged
  <2>4. QED
    BY <1>6, <2>1, <2>2, <2>3 DEF Analytics!WriteKeysCard
<1>7. ASSUME NEW c \in Calls, Analytics!ExplorerPanel(c)
      PROVE  IInv'
  <2>2. ASSUME Analytics!EventStream(c) PROVE IInv'
    BY <1>1, <2>2, ReadingKeepsIInv, ChooseKeepsIInv
       DEF Analytics!EventStream, Analytics!ListAnalyticsEvents, Analytics!GetAnalyticsEvent
  <2>3. ASSUME Analytics!QueryCard(c) \/ Analytics!ExportCard(c) PROVE IInv'
    BY <1>1, <2>3, InspectorLooks
       DEF Analytics!QueryCard, Analytics!ExportCard, Analytics!QueryAnalytics,
           Analytics!ExportAnalyticsEvents
  <2>4. ASSUME ReadingOver(c, pending.busy) PROVE IInv'
    <3>1. WaitsOn(pending.busy)
      BY <1>1 DEF WaitsOn
    <3>2. QED
      BY <1>1, <2>4, <3>1, ReadingOverKeepsIInv
  <2>5. QED
    BY <1>1, <1>7, <2>2, <2>3, <2>4, LookOverKeepsIInv DEF Analytics!ExplorerPanel
<1>8. ASSUME NEW c \in Calls, Analytics!Done(c)
      PROVE  IInv'
  BY <1>1, <1>8, DoneKeepsIInv
<1>9. QED
  BY <1>2, <1>4, <1>5, <1>6, <1>7, <1>8 DEF Analytics!Next

-----------------------------------------------------------------------------
\* Desktop releases.

LEMMA ReleaseIsConsole ==
    /\ \A c, op, id, sent, form :
          Release!Ask(c, op, id, sent, form) <=> Ask(c, op, id, sent, form)
    /\ \A c : Release!Look(c) <=> Look(c)
    /\ \A c, ops : Release!Answered(c, ops) <=> Answered(c, ops)
    /\ \A c : Release!Refresh(c) <=> Refresh(c)
    /\ \A c : Release!Return(c) <=> Return(c)
    /\ Release!Listed = Listed
    /\ Release!InHand <=> InHand
    /\ \A id, version : Release!IsActive(id, version) = IsActive(id, version)
    /\ \A c, id : Release!Reading(c, id) <=> Reading(c, id)
    /\ \A c, owner : Release!Performs(c, owner) <=> Performs(c, owner)
    /\ \A c, waiting : Release!ReadingOver(c, waiting) <=> ReadingOver(c, waiting)
    /\ \A c, waiting : Release!Changed(c, waiting) <=> Changed(c, waiting)
    /\ \A c : Release!Done(c) <=> Done(c)
    /\ \A c : Release!LookOver(c) <=> LookOver(c)
    /\ \A id : Release!Choose(id) <=> Choose(id)
    /\ Release!LetGo <=> LetGo
    /\ \A s : Release!SelectScope(s) <=> SelectScope(s)
    /\ \A id, version : Release!StillBusy(id, version) = StillBusy(id, version)
    /\ \A name : Release!Card(name) = Card(name)
    /\ \A id : Release!Row(id) = Row(id)
    /\ Release!Fresh = Fresh
    /\ \A c, busy : Release!Without(c, busy) = Without(c, busy)
    /\ Release!Writes = Writes
    /\ (Release!copies = copies) /\ (Release!copies = copies)'
    /\ (Release!cache = cache) /\ (Release!cache = cache)'
    /\ (Release!services = services) /\ (Release!services = services)'
BY DEF Release!Ask, Release!Click, Release!Races, Release!Nothing, Release!InHand, Release!Look,
       Release!Something, Release!Answered, Release!Refresh, Release!AskForList, Release!Mutate,
       Release!Return, Release!Listed, Release!Displayed, Release!IsActive, Release!Reading,
       Release!AskFor, Release!Performs, Release!ReadingOver, Release!TakeInHand, Release!Copy,
       Release!Changed, Release!Done, Release!Refreshed, Release!Awaits, Release!Without,
       Release!LookOver, Release!Choose, Release!StillBusy, Release!LetGo, Release!SelectScope,
       Release!Select, Release!Card, Release!Row, Release!Fresh, Release!services, Release!cache,
       Release!copies, Release!Version, Release!Writes, Ask, Click, Races, Nothing, InHand, Look,
       Something, Answered, Refresh, AskForList, Mutate, Return, Listed, Displayed, IsActive,
       Reading, AskFor, Performs, ReadingOver, TakeInHand, Copy, Changed, Done, Refreshed, Awaits,
       Without, LookOver, Choose, StillBusy, LetGo, SelectScope, Select, Card, Row, Fresh,
       services, cache, copies, Version, Writes

LEMMA ReleasePages ==
    ASSUME page \in ReleasePanels
    PROVE  /\ page \in Waited /\ page \in InspectorPanels
           /\ page \notin {"objects", "accounts", "deliveries"}
           /\ page \notin FilledFromAnswers
BY DEF ReleasePanels, Waited, InspectorPanels, FilledFromAnswers, EditorPanels

\* A command or a read of a release.
LEMMA ReleaseSends ==
    ASSUME IInv, page = "releases", NEW c \in Calls, NEW op \in Operations, NEW id \in Ids,
           NEW sent \in 0 .. MaxVersion, NEW form \in 0 .. MaxVersion,
           Ask(c, op, id, sent, form), MayAsk(op, id, sent, form),
           NEW owner, Performs(c, owner),
           op \in {"get", "miss"} => sent > 0,
           \/ owner.version = 0 /\ op # "read"
           \/ editor # None /\ owner = editor
    PROVE  IInv'
<1> DEFINE waits == [of |-> owner, by |-> c]
<1>1. /\ waits.by = c /\ waits.of = owner
      /\ pending' = [pending EXCEPT !.busy = @ \cup {waits}] /\ UNCHANGED copies
  BY DEF Performs
<1> HIDE DEF waits
<1>2. page \in Waited
  BY DEF Waited, InspectorPanels, ReleasePanels
<1>3. QED
  BY <1>1, <1>2, PerformKeepsIInv

\* The inspector of the release in hand.
LEMMA ReleaseInspectorKeepsIInv ==
    ASSUME IInv, page = "releases", NEW c \in Calls, Release!ReleaseInspector(c)
    PROVE  IInv'
<1> USE ReleaseIsConsole
<1>1. page \in Waited /\ page \in InspectorPanels
  BY DEF Waited, InspectorPanels, ReleasePanels
<1>2. InHand /\ editor # None
  BY DEF Release!ReleaseInspector, InHand
<1>3. /\ editor.id \in Ids /\ editor.version \in 0 .. MaxVersion /\ editor.version > 0
      /\ editor.form \in 0 .. MaxVersion /\ editor.form = editor.version
      /\ 0 \in 0 .. MaxVersion
  BY <1>1, <1>2, InHandFacts, Numbers DEF InHand
<1>4. Version(editor.id) > 0 /\ Version(editor.id) \in Nat
  BY <1>2, <1>3, EditorFacts
<1>5. {"edit", "touch", "archive", "read", "look", "get", "miss"} \subseteq Operations
  BY DEF Operations, Writes
<1>6. ASSUME NEW op \in Operations, NEW sent \in 0 .. MaxVersion, NEW form \in 0 .. MaxVersion,
             NEW id \in Ids, Ask(c, op, id, sent, form), Performs(c, editor),
             MayAsk(op, id, sent, form), op \in {"get", "miss"} => sent > 0
      PROVE  IInv'
  BY <1>2, <1>6, ReleaseSends
<1>7. ASSUME Release!Validate(c) PROVE IInv'
  <2>1. MayAsk("read", editor.id, editor.version, 0)
    BY <1>2 DEF MayAsk
  <2>2. QED
    BY <1>3, <1>5, <1>6, <1>7, <2>1 DEF Release!Validate, Release!ValidateDesktopRelease
<1>8. ASSUME Release!Publish(c) PROVE IInv'
  <2>1. report # None /\ Ask(c, "archive", editor.id, editor.version, report.version)
    BY <1>8 DEF Release!Publish, Release!PublishDesktopRelease
  <2>2. report.version \in 0 .. MaxVersion /\ report.version <= Version(report.id)
    BY <2>1 DEF IInv, ReportTypeInv
  <2>3. editor.id = report.id /\ report.version >= editor.version
    BY <2>1 DEF IInv, ReportInv, ReportFits
  <2>4. MayAsk("archive", editor.id, editor.version, report.version)
    BY <2>2, <2>3 DEF MayAsk
  <2>5. QED
    BY <1>3, <1>5, <1>6, <1>8, <2>1, <2>2, <2>4 DEF Release!Publish
<1>9. ASSUME Release!LoadManifest(c) PROVE IInv'
  <2>1. MayAsk("look", editor.id, editor.version, 0)
    BY DEF MayAsk
  <2>2. QED
    BY <1>3, <1>5, <1>6, <1>9, <2>1 DEF Release!LoadManifest, Release!GetReleaseManifest
<1>10. ASSUME Release!ReleaseButtons(c) PROVE IInv'
  <2>1. MayAsk("edit", editor.id, editor.version, editor.form)
    BY <1>3 DEF MayAsk
  <2>2. QED
    BY <1>3, <1>5, <1>6, <1>10, <2>1 DEF Release!ReleaseButtons, Release!UpdateDesktopReleaseDraft
<1>11. ASSUME Release!RolloutControls(c) PROVE IInv'
  <2>1. PICK op \in {"touch", "get", "miss"} : Ask(c, op, editor.id, editor.version, 0)
    BY <1>11 DEF Release!RolloutControls, Release!PauseDesktopRelease,
                 Release!PromoteDesktopRelease, Release!Rollback
  <2>2. MayAsk(op, editor.id, editor.version, 0)
    BY <1>4, <2>1 DEF MayAsk
  <2>3. QED
    BY <1>3, <1>5, <1>6, <1>11, <2>1, <2>2 DEF Release!RolloutControls
<1>12. QED
  BY <1>7, <1>8, <1>9, <1>10, <1>11 DEF Release!ReleaseInspector

\* The list of releases and the cards.
LEMMA ReleasesPanelKeepsIInv ==
    ASSUME IInv, page = "releases", NEW c \in Calls, Release!ReleasesPanel(c)
    PROVE  IInv'
<1> USE ReleaseIsConsole
<1>1. /\ page \in Waited /\ page \notin FilledFromAnswers
      /\ \A id \in Listed : id \in Displayed
      /\ Fresh \subseteq Ids /\ 0 \in 0 .. MaxVersion /\ Something \in Ids
      /\ {"create", "look"} \subseteq Operations
  BY Numbers, SomethingIsARecord
     DEF Waited, InspectorPanels, ReleasePanels, FilledFromAnswers, EditorPanels, Listed, Fresh,
         Operations, Writes
<1>2. ASSUME Release!ReleaseList(c) PROVE IInv'
  BY <1>1, <1>2, ReadingKeepsIInv, ChooseKeepsIInv
     DEF Release!ReleaseList, Release!ListDesktopReleases, Release!GetDesktopRelease
<1>3. \A name : Card(name).version = 0
  BY DEF Card, Copy
<1>4. ASSUME Release!SubmitRelease(c) PROVE IInv'
  <2>1. PICK id \in Ids : Ask(c, "create", id, 0, 0) /\ Performs(c, Card("create"))
    BY <1>1, <1>4
       DEF Release!SubmitRelease, Release!ReleaseForm, Release!CreateDesktopRelease
  <2>2. MayAsk("create", id, 0, 0)
    BY DEF MayAsk
  <2>3. QED
    BY <1>1, <1>3, <2>1, <2>2, ReleaseSends
<1>5. ASSUME Release!SimulationCard(c) PROVE IInv'
  <2>1. Ask(c, "look", Something, 0, 0) /\ Performs(c, Card("simulation"))
    BY <1>5 DEF Release!SimulationCard, Release!SimulateReleaseUpdate, Look
  <2>2. MayAsk("look", Something, 0, 0)
    BY DEF MayAsk
  <2>3. QED
    BY <1>1, <1>3, <2>1, <2>2, ReleaseSends
<1>6. ASSUME Release!Validated(c) PROVE IInv'
  <2>1. /\ Flying(c) /\ calls[c].stage = "answered" /\ calls[c].op = "read" /\ calls[c].op \notin Writes
        /\ Return(c) /\ UNCHANGED cache /\ editor' = editor
        /\ pending' = [pending EXCEPT !.busy = Without(c, @)]
    BY <1>6 DEF Release!Validated, Answered, Flying, Writes
  <2>2. Handed /\ StillWaiting({c})
    BY <1>1, <2>1, WithoutWaits DEF Handed
  <2>3. Reported \/ Result(c)
    BY <1>6, <2>1 DEF Release!Validated, Reported, Result
  <2>4. QED
    BY <1>1, <2>1, <2>2, <2>3, ReturnKeepsIInv
<1>7. ASSUME Release!RollbackNotRead(c) PROVE IInv'
  <2>1. /\ Flying(c) /\ calls[c].stage = "answered" /\ calls[c].op \notin Writes
        /\ Return(c) /\ UNCHANGED <<copies, cache>>
        /\ pending' = [pending EXCEPT !.busy = Without(c, @)]
    BY <1>7 DEF Release!RollbackNotRead, Answered, Flying, Writes
  <2>2. QED
    BY <1>1, <2>1, StaysKeepsIInv
<1>8. QED
  BY <1>1, <1>2, <1>4, <1>5, <1>6, <1>7, ReleaseInspectorKeepsIInv, RollBackKeepsIInv,
     LookOverKeepsIInv DEF Release!ReleasesPanel

LEMMA ReleaseKeepsIInv ==
    ASSUME IInv, page \in ReleasePanels, Release!Next
    PROVE  IInv'
<1> USE ReleaseIsConsole
<1>1. /\ page \in Waited /\ page \notin {"accounts", "deliveries"}
      /\ page \notin FilledFromAnswers
      /\ \A id \in Listed : id \in Displayed /\ id \in Ids /\ rows[id] \in 0 .. MaxVersion
      /\ Fresh \subseteq Ids
      /\ 0 \in 0 .. MaxVersion
      /\ {"create", "edit", "archive", "restore"} \subseteq Operations \ {"get", "miss"}
  BY ReleasePages, DisplayedFacts, Numbers DEF Operations, Writes, Listed, Fresh
<1>2. ASSUME NEW s \in Scopes, Release!SelectScope(s)
      PROVE  IInv'
  BY <1>1, <1>2, SelectsKeepIInv
<1>3. ASSUME Release!LetGo
      PROVE  IInv'
  BY <1>1, <1>3, LetGoKeepsIInv
<1>4. ASSUME page # "releases", NEW c \in Calls, NEW op \in Operations \ {"get", "miss"}, NEW id \in Ids,
             NEW sent \in 0 .. MaxVersion, NEW form \in 0 .. MaxVersion,
             Ask(c, op, id, sent, form), op \in {"edit", "set"} => form = sent,
             NEW owner, Performs(c, owner)
      PROVE  IInv'
  BY <1>1, <1>4, InspectorSends
<1>5. ASSUME NEW c \in Calls, Release!ChannelsPanel(c)
      PROVE  IInv'
  <2>0. page # "releases"
    BY <1>5 DEF Release!ChannelsPanel
  <2>1. ASSUME Release!ChannelList(c) PROVE IInv'
    BY <1>1, <2>1, ReadingKeepsIInv, ChooseKeepsIInv
       DEF Release!ChannelList, Release!ListReleaseChannels, Release!GetReleaseChannel
  <2>2. ASSUME Release!SubmitChannel(c) PROVE IInv'
    BY <1>1, <1>4, <2>0, <2>2 DEF Release!SubmitChannel, Release!CreateReleaseChannel
  <2>3. ASSUME Release!ChannelInspector(c) PROVE IInv'
    BY <1>1, <1>4, <2>0, <2>3, InHandFacts
       DEF Release!ChannelInspector, Release!UpdateReleaseChannel,
           Release!ArchiveReleaseChannel, Release!RestoreReleaseChannel
  <2>4. QED
    BY <1>5, <2>1, <2>2, <2>3 DEF Release!ChannelsPanel
<1>6. ASSUME NEW c \in Calls, Release!ArtifactsPanel(c)
      PROVE  IInv'
  <2>0. page # "releases"
    BY <1>6 DEF Release!ArtifactsPanel
  <2>1. ASSUME Release!ArtifactList(c) PROVE IInv'
    BY <1>1, <2>1, ReadingKeepsIInv, ChooseKeepsIInv
       DEF Release!ArtifactList, Release!ListReleaseArtifacts, Release!GetReleaseArtifact
  <2>2. ASSUME Release!UploadArtifact(c) PROVE IInv'
    BY <1>1, <1>4, <2>0, <2>2
       DEF Release!UploadArtifact, Release!UploadForm, Release!CreateReleaseArtifactUpload
  <2>3. ASSUME Release!ArtifactInspector(c) PROVE IInv'
    BY <1>1, <1>4, <2>0, <2>3, InHandFacts
       DEF Release!ArtifactInspector, Release!ArchiveReleaseArtifact
  <2>4. QED
    BY <1>6, <2>1, <2>2, <2>3 DEF Release!ArtifactsPanel
<1>7. ASSUME NEW c \in Calls, Release!SigningKeysPanel(c)
      PROVE  IInv'
  <2>0. page # "releases"
    BY <1>7 DEF Release!SigningKeysPanel
  <2>1. ASSUME Release!CreateKey(c) PROVE IInv'
    BY <1>1, <1>4, <2>0, <2>1 DEF Release!CreateKey, Release!CreateReleaseSigningKey
  <2>2. ASSUME Release!ChangeKey(c) PROVE IInv'
    <3>1. PICK id \in Listed, op \in {"archive", "restore"} :
              Ask(c, op, Row(id).id, Row(id).version, 0) /\ Performs(c, Card("keys"))
      BY <2>2 DEF Release!ChangeKey, Release!ListReleaseSigningKeys,
                  Release!ArchiveReleaseSigningKey, Release!RestoreReleaseSigningKey
    <3>2. Row(id).id = id /\ Row(id).version = rows[id]
      BY <1>1, CopyFacts DEF Row
    <3>3. QED
      BY <1>1, <1>4, <2>0, <3>1, <3>2
  <2>3. ASSUME Release!KeyChanged(c) PROVE IInv'
    BY <1>1, <2>3, RefreshKeepsIInv DEF Release!KeyChanged
  <2>4. QED
    BY <1>7, <2>1, <2>2, <2>3 DEF Release!SigningKeysPanel
<1>8. ASSUME NEW c \in Calls, Release!RecordChanged(c)
      PROVE  IInv'
  BY <1>1, <1>8, StillBusyWaitsOn, ChangedKeepsIInv DEF Release!RecordChanged, Changed, TakeInHand
<1>9. ASSUME NEW c \in Calls, Release!RecordRead(c), calls[c].sent = 0
      PROVE  IInv'
  <2>1. ReadingOver(c, StillBusy(calls[c].id, calls[c].version))
    BY <1>9 DEF Release!RecordRead
  <2>2. calls[c].ok => editor' = Copy(calls[c].id, calls[c].version)
    BY <2>1 DEF ReadingOver, TakeInHand
  <2>3. calls[c].ok => WaitsOn(StillBusy(calls[c].id, calls[c].version))
    BY <2>2, StillBusyWaitsOn
  <2>4. QED
    BY <1>1, <1>9, <2>1, <2>3, ReadingOverKeepsIInv
<1>10. ASSUME NEW c \in Calls, Release!ReleasesPanel(c)
       PROVE  IInv'
  BY <1>10, ReleasesPanelKeepsIInv DEF Release!ReleasesPanel
<1>11. ASSUME NEW c \in Calls, Release!Done(c)
       PROVE  IInv'
  BY <1>1, <1>11, DoneKeepsIInv
<1>12. QED
  BY <1>2, <1>3, <1>5, <1>6, <1>7, <1>8, <1>9, <1>10, <1>11 DEF Release!Next

-----------------------------------------------------------------------------
\* Buckets and objects.

LEMMA StorageIsConsole ==
    /\ \A c, op, id, sent, form :
          Storage!Ask(c, op, id, sent, form) <=> Ask(c, op, id, sent, form)
    /\ \A s : Storage!Select(s) <=> Select(s)
    /\ \A c, ops : Storage!Answered(c, ops) <=> Answered(c, ops)
    /\ \A c : Storage!Refreshed(c) <=> Refreshed(c)
    /\ \A c : Storage!Return(c) <=> Return(c)
    /\ Storage!Displayed = Displayed
    /\ Storage!Listed = Listed
    /\ Storage!InHand <=> InHand
    /\ \A id, version : Storage!IsActive(id, version) = IsActive(id, version)
    /\ \A id, version : Storage!Copy(id, version) = Copy(id, version)
    /\ \A c : Storage!Mutate(c) <=> Mutate(c)
    /\ \A here : Storage!Races(here) <=> Races(here)
    /\ \A c, id : Storage!Reading(c, id) <=> Reading(c, id)
    /\ \A c, waiting : Storage!ReadingOver(c, waiting) <=> ReadingOver(c, waiting)
    /\ \A c, waiting : Storage!Changed(c, waiting) <=> Changed(c, waiting)
    /\ \A c : Storage!Done(c) <=> Done(c)
    /\ \A c : Storage!LookOver(c) <=> LookOver(c)
    /\ \A s : Storage!SelectScope(s) <=> SelectScope(s)
    /\ \A id : Storage!Row(id) = Row(id)
    /\ Storage!Fresh = Fresh
    /\ \A c, busy : Storage!Without(c, busy) = Without(c, busy)
    /\ Storage!Writes = Writes
    /\ (Storage!copies = copies) /\ (Storage!copies = copies)'
    /\ (Storage!cache = cache) /\ (Storage!cache = cache)'
    /\ (Storage!services = services) /\ (Storage!services = services)'
BY DEF Storage!Ask, Storage!Click, Storage!Races, Storage!Nothing, Storage!InHand, Storage!Select,
       Storage!Answered, Storage!Refreshed, Storage!Awaits, Storage!Return, Storage!Displayed,
       Storage!Listed, Storage!IsActive, Storage!Copy, Storage!Mutate, Storage!Reading,
       Storage!AskFor, Storage!ReadingOver, Storage!TakeInHand, Storage!Changed,
       Storage!AskForList, Storage!Done, Storage!Without, Storage!LookOver, Storage!SelectScope,
       Storage!Row, Storage!Fresh, Storage!services, Storage!cache, Storage!copies,
       Storage!Version, Storage!Writes, Ask, Click, Races, Nothing, InHand, Select, Answered,
       Refreshed, Awaits, Return, Displayed, Listed, IsActive, Copy, Mutate, Reading, AskFor,
       ReadingOver, TakeInHand, Changed, AskForList, Done, Without, LookOver, SelectScope, Row,
       Fresh, services, cache, copies, Version, Writes

LEMMA StoragePages ==
    ASSUME page \in StoragePanels
    PROVE  /\ page \in Waited /\ page \notin InspectorPanels
           /\ page \notin {"releases", "accounts", "deliveries"}
           /\ page \notin FilledFromAnswers
BY DEF StoragePanels, Waited, InspectorPanels, FilledFromAnswers, EditorPanels, MailPanels,
       TelemetryPanels, ReleasePanels, AnalyticsPanels

\* A command of a card or an inspector of storage.
LEMMA StorageSends ==
    ASSUME IInv, page \in StoragePanels, NEW c \in Calls,
           NEW op \in Operations \ {"get", "miss"}, NEW id \in Ids,
           NEW sent \in 0 .. MaxVersion, NEW form \in 0 .. MaxVersion,
           Ask(c, op, id, sent, form), op \in {"edit", "set"} => form = sent,
           NEW owner, Storage!Waits(c, owner)
    PROVE  IInv'
<1> USE StorageIsConsole
<1> DEFINE waits == [of |-> owner, by |-> c, from |-> scope]
<1>1. /\ waits.by = c /\ pending' = [pending EXCEPT !.busy = @ \cup {waits}]
      /\ UNCHANGED copies
  BY DEF Storage!Waits
<1> HIDE DEF waits
<1>2. MayAsk(op, id, sent, form)
  BY StoragePages, WaitedPages DEF MayAsk
<1>3. QED
  BY <1>1, <1>2, StoragePages, PerformKeepsIInv

\* What an inspector shows of a record: its detail, or its row.
LEMMA ShownFacts ==
    ASSUME IInv, page \in StoragePanels, NEW id \in Storage!Effective
    PROVE  /\ Storage!Shown(id).id = id /\ id \in Ids
           /\ Storage!Shown(id).version \in 0 .. MaxVersion
           /\ Storage!Shown(id).form = Storage!Shown(id).version
<1> USE StorageIsConsole
<1>1. id \in Ids /\ rows[id] \in 0 .. MaxVersion
  BY DisplayedFacts DEF Storage!Effective
<1>2. /\ Row(id).id = id /\ Row(id).version = rows[id] /\ Row(id).form = rows[id]
  BY <1>1, CopyFacts DEF Row
<1>3. InHand => editor.version \in 0 .. MaxVersion /\ editor.form = editor.version
  BY StoragePages, InHandFacts
<1>4. QED
  BY <1>1, <1>2, <1>3 DEF Storage!Shown

LEMMA ChooseRowKeepsIInv ==
    ASSUME IInv, page \in StoragePanels, NEW id \in Ids, Storage!ChooseRow(id)
    PROVE  IInv'
<1> USE StorageIsConsole
<1>1. editor' = Copy(id, 0)
  BY DEF Storage!ChooseRow, Copy
<1>2. 0 <= Version(id)
  BY DEF IInv, HistoryInv
<1>3. Handed
  BY <1>1, <1>2, Numbers, CopyFacts, StoragePages DEF Handed
<1>4. UNCHANGED <<page, services, scope, cache, report, pending, calls, acked, told, clicks, raced>>
  BY DEF Storage!ChooseRow
<1>5. Reported /\ StillWaiting({})
  BY <1>4, StoragePages, WaitersStay DEF Reported, StoragePanels
<1>6. QED
  BY <1>3, <1>4, <1>5, StoragePages, TurnKeepsIInv

\* The answer of a command about an object; another bucket may be selected.
LEMMA RefreshObjectKeepsIInv ==
    ASSUME IInv, page = "objects", NEW c \in Calls, Storage!RefreshObject(c)
    PROVE  IInv'
<1> USE StorageIsConsole
<1> DEFINE waits == CHOOSE w \in pending.busy : w.by = c
           moves == ScopeOf[calls[c].id] # waits.from
<1>1. /\ Answered(c, Writes) /\ calls[c].ok /\ Flying(c) /\ Mutate(c)
      /\ calls' = [calls EXCEPT ![c].stage = "refreshing"]
      /\ scope' = (IF moves THEN ScopeOf[calls[c].id] ELSE scope)
      /\ Races(moves)
      /\ editor' = Copy(calls[c].id, calls[c].version)
      /\ UNCHANGED <<page, services, rows, loaded, failed, report, pending, clicks>>
  BY DEF Storage!RefreshObject, Answered, Flying
<1>2. moves \in BOOLEAN
  OBVIOUS
<1> HIDE DEF moves, waits
<1>3. page \in StoragePanels
  BY DEF StoragePanels
<1>4. Asks(c)
  BY <1>1, MutateAsks DEF IInv
<1>5. /\ calls[c].id \in Ids /\ calls[c].version \in 0 .. MaxVersion /\ calls[c].version > 0
      /\ calls[c].version <= Version(calls[c].id)
  BY <1>1, AnswerFacts DEF Answered
<1>6. Handed
  BY <1>1, <1>5, CopyIsHanded
<1>7. Reported /\ StillWaiting({})
  BY <1>1, <1>3, StoragePages, WaitersStay DEF Reported
<1>8. Raced(moves)
  BY <1>1, <1>2, RacesFields DEF IInv, AccountTypeInv
<1>9. Accounted
  <2>1. scope \in Scopes /\ ScopeOf[calls[c].id] \in Scopes /\ raced \in BOOLEAN
    BY <1>5, ScopesAssumption DEF IInv, ListTypeInv, AccountTypeInv
  <2>2. CASE raced'
    BY <1>1, <1>8, <2>1, <2>2 DEF Accounted, Raced
  <2>3. CASE ~raced'
    BY <1>1, <1>8, <2>1, <2>3 DEF Accounted, Raced
  <2>4. QED
    BY <2>2, <2>3
<1>10. QED
  BY <1>1, <1>3, <1>4, <1>6, <1>7, <1>9, StoragePages, WaitedPages, AskedKeepsIInv

\* The session of an upload is kept until the upload is completed.
LEMMA SessionKeepsIInv ==
    ASSUME IInv, page = "objects", NEW c \in Calls,
           Storage!SessionCreated(c) \/ Storage!UploadCompleted(c)
    PROVE  IInv'
<1> USE StorageIsConsole
<1>1. page \in Waited /\ page \notin FilledFromAnswers
  BY StoragePages DEF StoragePanels
<1>2. PICK upload \in Copies \cup {None} :
          pending' = [pending EXCEPT !.busy = Without(c, @), !.upload = upload]
  <2>1. CASE Storage!SessionCreated(c)
    <3>1. Flying(c)
      BY <2>1 DEF Storage!SessionCreated, Answered, Flying
    <3>2. Copy(calls[c].id, calls[c].version) \in Copies
      BY <3>1, AnswerFacts, CopyFacts
    <3>3. QED
      BY <2>1, <3>2 DEF Storage!SessionCreated
  <2>2. CASE Storage!UploadCompleted(c)
    BY <2>2 DEF Storage!UploadCompleted
  <2>3. QED
    BY <2>1, <2>2
<1>3. {"reading", "busy", "upload"} \subseteq DOMAIN pending /\ pending.reading \in Ids \cup {None}
  BY <1>1 DEF IInv, PendingInv
<1>4. /\ {"reading", "busy", "upload"} \subseteq DOMAIN pending'
      /\ pending'.busy = Without(c, pending.busy) /\ pending'.reading = pending.reading
      /\ pending'.upload = upload
  BY <1>2, <1>3
<1>5. StillWaiting({c})
  BY <1>3, <1>4 DEF StillWaiting, MarksOK, Without
<1>6. UNCHANGED <<copies, cache>> /\ UNCHANGED <<page, services, scope, clicks, raced>>
  BY DEF Storage!SessionCreated, Storage!UploadCompleted, Return
<1>7. Handed /\ Reported
  BY <1>6 DEF Handed, Reported, copies
<1>8. CASE Storage!SessionCreated(c)
  <2>1. /\ Flying(c) /\ calls[c].stage = "answered"
        /\ calls' = [calls EXCEPT ![c] = None] /\ UNCHANGED <<acked, told>>
    BY <1>8 DEF Storage!SessionCreated, Answered, Flying
  <2>2. calls'[c] = None /\ Alone(c) /\ CallTypeInv'
    BY <2>1 DEF IInv, CallTypeInv, Alone
  <2>3. acked' \in [Ids -> 0 .. MaxVersion] /\ told' \in [Ids -> 0 .. MaxVersion]
    BY <2>1 DEF IInv, AccountTypeInv
  <2>4. Counted(c) /\ Listing(c)
    BY <1>6, <2>1 DEF Counted, Listing, cache
  <2>5. QED
    BY <1>1, <1>5, <1>6, <1>7, <2>1, <2>2, <2>3, <2>4, OverKeepsIInv
<1>9. CASE Storage!UploadCompleted(c)
  <2>1. Refreshed(c) /\ Return(c) /\ Flying(c)
    BY <1>9 DEF Storage!UploadCompleted, Refreshed, Flying
  <2>2. QED
    BY <1>1, <1>5, <1>6, <1>7, <2>1, ReturnKeepsIInv
<1>10. QED
  BY <1>8, <1>9

LEMMA StorageKeepsIInv ==
    ASSUME IInv, page \in StoragePanels, Storage!Next
    PROVE  IInv'
<1> USE StorageIsConsole
<1>1. /\ page \in Waited /\ page \notin {"releases", "accounts", "deliveries"}
      /\ page \notin FilledFromAnswers
      /\ \A id \in Listed : id \in Displayed /\ id \in Ids
      /\ Fresh \subseteq Ids
      /\ 0 \in 0 .. MaxVersion
      /\ {"create", "edit", "archive", "restore", "look", "act"} \subseteq Operations \ {"get", "miss"}
  BY StoragePages, Numbers DEF Operations, Writes, Listed, Displayed, Fresh
<1>2. ASSUME NEW s \in Scopes, Storage!SelectScope(s) \/ Storage!SelectBucket(s)
      PROVE  IInv'
  BY <1>1, <1>2, SelectsKeepIInv, EmptyHandedKeepsIInv DEF Storage!SelectBucket
<1>3. ASSUME NEW c \in Calls, NEW op \in Operations \ {"get", "miss"}, NEW id \in Ids,
             NEW sent \in 0 .. MaxVersion, NEW form \in 0 .. MaxVersion,
             Ask(c, op, id, sent, form), op \in {"edit", "set"} => form = sent,
             NEW owner, Storage!Waits(c, owner)
      PROVE  IInv'
  BY <1>3, StorageSends
<1>4. WaitsOn(pending.busy)
  BY <1>1 DEF WaitsOn
<1>5. ASSUME NEW c \in Calls, Storage!BucketPanel(c)
      PROVE  IInv'
  <2>1. ASSUME Storage!BucketList(c) PROVE IInv'
    BY <1>1, <2>1, ReadingKeepsIInv, ChooseRowKeepsIInv
       DEF Storage!BucketList, Storage!ListStorageBuckets, Storage!GetStorageBucket
  <2>2. ASSUME Storage!SubmitBucket(c) PROVE IInv'
    BY <1>1, <1>3, <2>2 DEF Storage!SubmitBucket, Storage!CreateStorageBucket
  <2>3. ASSUME Storage!BucketInspector(c) PROVE IInv'
    BY <1>1, <1>3, <2>3, ShownFacts
       DEF Storage!BucketInspector, Storage!UpdateStorageBucket,
           Storage!ArchiveStorageBucket, Storage!RestoreStorageBucket
  <2>4. QED
    BY <1>1, <1>4, <1>5, <2>1, <2>2, <2>3, ChangedKeepsIInv DEF Storage!BucketPanel
<1>6. ASSUME NEW c \in Calls, Storage!ObjectPanel(c)
      PROVE  IInv'
  <2>1. ASSUME Storage!ObjectList(c) PROVE IInv'
    BY <1>1, <2>1, ReadingKeepsIInv, ChooseRowKeepsIInv
       DEF Storage!ObjectList, Storage!ListStorageObjects, Storage!GetStorageObject
  <2>2. ASSUME Storage!ObjectInspector(c) PROVE IInv'
    BY <1>1, <1>3, <2>2, ShownFacts
       DEF Storage!ObjectInspector, Storage!UpdateStorageObjectMetadata,
           Storage!CreateStorageDownloadUrl, Storage!CopyStorageObject, Storage!DeleteStorageObject
  <2>3. ASSUME page = "objects", Storage!UploadPanel(c) PROVE IInv'
    <3>1. pending.upload # None => /\ pending.upload.id \in Ids
                                   /\ pending.upload.version \in 0 .. MaxVersion
      BY <1>1, <2>3 DEF IInv, PendingInv, Copies
    <3>2. QED
      BY <1>1, <1>3, <2>3, <3>1
         DEF Storage!UploadPanel, Storage!CreateStorageUploadSession, Storage!CompleteStorageUpload
  <2>4. QED
    BY <1>1, <1>6, <2>1, <2>2, <2>3, RefreshObjectKeepsIInv, SessionKeepsIInv, DoneKeepsIInv,
       LookOverKeepsIInv DEF Storage!ObjectPanel, Storage!ObjectDone
<1>7. ASSUME NEW c \in Calls, Storage!Done(c) \/ Storage!ReadingOver(c, pending.busy)
      PROVE  IInv'
  BY <1>1, <1>4, <1>7, DoneKeepsIInv, ReadingOverKeepsIInv
<1>8. QED
  BY <1>2, <1>5, <1>6, <1>7 DEF Storage!Next

-----------------------------------------------------------------------------
(***************************************************************************)
(* The invariant holds from the start.                                     *)
(***************************************************************************)

LEMMA HistoriesStart ==
    ASSUME history \in [Ids -> {<<>>, Existing}]
    PROVE  HistoryInv
<1> DEFINE V == [active : BOOLEAN, fields : Versions]
<1>1. [active |-> TRUE, fields |-> 1] \in V
  BY VersionsAssumption DEF Versions
<1> HIDE DEF V
<1>2. <<>> \in Seq(V) /\ Existing \in Seq(V)
  BY <1>1 DEF Existing
<1>3. history \in [Ids -> Seq(V)]
  BY <1>2
<1>4. Len(<<>>) = 0 /\ Len(Existing) = 1
  BY DEF Existing
<1>5. \A id \in Ids : Version(id) \in {0, 1}
  BY <1>4 DEF Version
<1>6. \A id \in Ids : Version(id) \in 0 .. MaxVersion
  BY <1>5, VersionsAssumption
<1>7. QED
  BY <1>3, <1>6 DEF HistoryInv, V

LEMMA OpensInIInv ==
    ASSUME HistoryInv, NEW p \in Pages, NEW s \in Scopes, Opened(p, s),
           pending = IF p \in StoragePanels THEN [reading |-> None, busy |-> {}, upload |-> None]
                     ELSE IF p \in InspectorPanels THEN NotBusy ELSE None
    PROVE  IInv
<1>1. /\ page = p /\ scope = s /\ loaded = {} /\ failed = {} /\ fetch = None /\ editor = None
      /\ report = None /\ ~blind /\ blind = FALSE /\ clicks = 0 /\ raced = FALSE
      /\ \A c \in Calls : ~Flying(c)
      /\ calls = [c \in Calls |-> None]
      /\ rows = Nothing /\ acked = Nothing /\ told = Nothing
  BY DEF Opened, Flying
<1>2. Nothing \in [Ids -> 0 .. MaxVersion] /\ \A id \in Ids : Nothing[id] = 0 /\ 0 <= Version(id)
  BY VersionsAssumption DEF Nothing, HistoryInv
<1>3. ListTypeInv /\ EditorTypeInv /\ ReportTypeInv /\ CallTypeInv
  BY <1>1, <1>2 DEF ListTypeInv, EditorTypeInv, ReportTypeInv, CallTypeInv
<1>4. AccountTypeInv
  <2>1. acked \in [Ids -> 0 .. MaxVersion] /\ told \in [Ids -> 0 .. MaxVersion]
    BY <1>1, <1>2
  <2>2. \A id \in Ids : acked[id] <= Version(id) /\ told[id] <= Version(id)
    BY <1>1, <1>2
  <2>3. 0 \in 0 .. MaxClicks
    BY ClicksAssumption
  <2>4. clicks \in 0 .. MaxClicks
    BY <1>1, <2>3
  <2>5. raced \in BOOLEAN /\ page \in Pages
    BY <1>1
  <2>6. QED
    BY <2>1, <2>2, <2>4, <2>5 DEF AccountTypeInv
<1>5. PendingInv
  <2>1. CASE page \in StoragePanels
    BY <1>1, <2>1 DEF PendingInv, Waited
  <2>2. CASE page \in InspectorPanels /\ page \notin StoragePanels
    BY <1>1, <2>2 DEF PendingInv, Waited, NotBusy, StoragePanels
  <2>3. CASE page \notin Waited
    BY <1>1, <2>3 DEF PendingInv, Waited
  <2>4. QED
    BY <2>1, <2>2, <2>3 DEF Waited
<1>6. CallInv /\ FormInv
  BY <1>1 DEF CallInv, FormInv
<1>7. ReportInv
  <2>1. page = "releases" => pending.busy = {}
    BY <1>1 DEF NotBusy, StoragePanels, InspectorPanels, ReleasePanels
  <2>2. QED
    BY <1>1, <2>1 DEF ReportInv, ReportFits
<1>8. OneCallInv /\ EditorInv /\ ListInv
  BY <1>1 DEF OneCallInv, EditorInv, ListInv, ListedUp, FetchOK, InHand
<1>9. QED
  BY <1>3, <1>4, <1>5, <1>6, <1>7, <1>8 DEF IInv

LEMMA StartsInIInv == Init => IInv
<1> SUFFICES ASSUME Init PROVE IInv
  OBVIOUS
<1>1. HistoryInv
  BY HistoriesStart DEF Init
<1>2. PICK p \in Pages, s \in Scopes :
          \/ p = "config" /\ Config!Open(p, s)
          \/ p = "feature" /\ Feature!Open(p, s)
          \/ p = "targeting" /\ Targeting!Open(p, s)
          \/ p \in PlatformPanels /\ Platform!Open(p, s)
          \/ p \in AuthorizationPanels /\ Authorization!Open(p, s)
          \/ p \in IdentityPanels /\ Identity!Open(p, s)
          \/ p \in MailPanels /\ Mail!Open(p, s)
          \/ p \in TelemetryPanels /\ Telemetry!Open(p, s)
          \/ p \in ReleasePanels /\ Release!Open(p, s)
          \/ p \in AnalyticsPanels /\ Analytics!Open(p, s)
          \/ p \in StoragePanels /\ Storage!Open(p, s)
          \/ p = "audit" /\ Audit!Open(p, s)
  BY DEF Init
<1> DEFINE plain == EditorPanels \cup PlatformPanels \cup AuthorizationPanels \cup IdentityPanels
<1>3. /\ plain \cap (InspectorPanels \cup StoragePanels) = {}
      /\ InspectorPanels \cap StoragePanels = {}
  BY DEF EditorPanels, PlatformPanels, AuthorizationPanels, IdentityPanels, InspectorPanels,
         StoragePanels, MailPanels, TelemetryPanels, ReleasePanels, AnalyticsPanels
<1>4. CASE p \in EditorPanels
  <2>1. Opened(p, s) /\ pending = None
    BY <1>2, <1>4
       DEF EditorPanels, PlatformPanels, AuthorizationPanels, IdentityPanels, MailPanels,
           TelemetryPanels, ReleasePanels, AnalyticsPanels, StoragePanels,
           Config!Open, Config!Opened, Config!Nothing, Feature!Open, Feature!Opened,
           Feature!Nothing, Targeting!Open, Targeting!Opened, Targeting!Nothing, Opened, Nothing
  <2>2. QED
    BY <1>1, <1>3, <1>4, <2>1, OpensInIInv
<1>5. CASE p \in PlatformPanels /\ Platform!Open(p, s)
  <2>1. Opened(p, s) /\ pending = None
    BY <1>5 DEF Platform!Open, Platform!Opened, Platform!Nothing, Opened, Nothing
  <2>2. QED
    BY <1>1, <1>3, <1>5, <2>1, OpensInIInv
<1>6. CASE p \in AuthorizationPanels /\ Authorization!Open(p, s)
  <2>1. Opened(p, s) /\ pending = None
    BY <1>6 DEF Authorization!Open, Authorization!Opened, Authorization!Nothing, Opened, Nothing
  <2>2. QED
    BY <1>1, <1>3, <1>6, <2>1, OpensInIInv
<1>7. CASE p \in IdentityPanels /\ Identity!Open(p, s)
  <2>1. Opened(p, s) /\ pending = None
    BY <1>7 DEF Identity!Open, Identity!Opened, Identity!Nothing, Opened, Nothing
  <2>2. QED
    BY <1>1, <1>3, <1>7, <2>1, OpensInIInv
<1>8. CASE p \in MailPanels /\ Mail!Open(p, s)
  <2>1. Opened(p, s) /\ pending = NotBusy
    BY <1>8 DEF Mail!Open, Mail!Opened, Mail!Nothing, Mail!NotBusy, Opened, Nothing, NotBusy
  <2>2. QED
    BY <1>1, <1>3, <1>8, <2>1, OpensInIInv DEF InspectorPanels
<1>9. CASE p \in TelemetryPanels /\ Telemetry!Open(p, s)
  <2>1. Opened(p, s) /\ pending = NotBusy
    BY <1>9 DEF Telemetry!Open, Telemetry!Opened, Telemetry!Nothing, Telemetry!NotBusy,
                Opened, Nothing, NotBusy
  <2>2. QED
    BY <1>1, <1>3, <1>9, <2>1, OpensInIInv DEF InspectorPanels
<1>10. CASE p \in ReleasePanels /\ Release!Open(p, s)
  <2>1. Opened(p, s) /\ pending = NotBusy
    BY <1>10 DEF Release!Open, Release!Opened, Release!Nothing, Release!NotBusy,
                 Opened, Nothing, NotBusy
  <2>2. QED
    BY <1>1, <1>3, <1>10, <2>1, OpensInIInv DEF InspectorPanels
<1>11. CASE p \in AnalyticsPanels /\ Analytics!Open(p, s)
  <2>1. Opened(p, s) /\ pending = NotBusy
    BY <1>11 DEF Analytics!Open, Analytics!Opened, Analytics!Nothing, Analytics!NotBusy,
                 Opened, Nothing, NotBusy
  <2>2. QED
    BY <1>1, <1>3, <1>11, <2>1, OpensInIInv DEF InspectorPanels
<1>12. CASE p \in StoragePanels /\ Storage!Open(p, s)
  <2>1. Opened(p, s) /\ pending = [reading |-> None, busy |-> {}, upload |-> None]
    BY <1>12 DEF Storage!Open, Storage!Opened, Storage!Nothing, Opened, Nothing
  <2>2. QED
    BY <1>1, <1>3, <1>12, <2>1, OpensInIInv
<1>13. CASE p = "audit" /\ Audit!Open(p, s)
  <2>1. Opened(p, s) /\ pending = NotBusy
    BY <1>13 DEF Audit!Open, Audit!Opened, Audit!Nothing, Audit!NotBusy, Opened, Nothing, NotBusy
  <2>2. QED
    BY <1>1, <1>3, <1>13, <2>1, OpensInIInv DEF InspectorPanels
<1>14. QED
  BY <1>2, <1>4, <1>5, <1>6, <1>7, <1>8, <1>9, <1>10, <1>11, <1>12, <1>13 DEF EditorPanels

-----------------------------------------------------------------------------
(***************************************************************************)
(* It holds for ever.                                                      *)
(***************************************************************************)

LEMMA StepKeepsIInv == IInv /\ [Next]_vars => IInv'
<1> SUFFICES ASSUME IInv, [Next]_vars PROVE IInv'
  OBVIOUS
<1>1. CASE Handlers
  BY <1>1, ConfigKeepsIInv, FeatureKeepsIInv, TargetingKeepsIInv, PlatformKeepsIInv,
     AuthorizationKeepsIInv, IdentityKeepsIInv, MailKeepsIInv, TelemetryKeepsIInv,
     ReleaseKeepsIInv, AnalyticsKeepsIInv, StorageKeepsIInv, AuditKeepsIInv DEF Handlers
<1>2. CASE \E c \in Calls : Commit(c) \/ Reads(c) \/ Conflict(c) \/ Refuse(c)
  BY <1>2, CommitKeepsIInv, ReadsKeepsIInv
<1>3. CASE \E id \in Ids : Elsewhere(id, Others)
  BY <1>3, ElsewhereKeepsIInv
<1>4. CASE Revalidate \/ ListArrives \/ ListFails
  BY <1>4, RevalidateKeepsIInv, ListArrivesKeepsIInv, ListFailsKeepsIInv
<1>5. CASE UNCHANGED vars
  <2>1. UNCHANGED <<page, history, blind, scope, rows, loaded, fetch, failed, editor, report,
                    pending, calls, acked, told, clicks, raced>>
    BY <1>5 DEF vars, services, cache, copies
  <2>2. \A i : Version(i)' = Version(i)
    BY <2>1 DEF Version
  <2>3. ListTypeInv' /\ ListInv'
    BY <2>1, <2>2 DEF IInv, ListTypeInv, ListInv, ListedUp, FetchOK, CaughtUp, Up, Flying
  <2>4. QED
    BY <1>5, <2>3, CacheFrame DEF vars
<1>6. QED
  BY <1>1, <1>2, <1>3, <1>4, <1>5 DEF Next

\* Whatever the administrator, the other administrators, the services and the
\* network do, on whichever page: the invariant holds in every state.
THEOREM ConsoleInvariance == Spec => []IInv
BY StartsInIInv, StepKeepsIInv, PTL DEF Spec

-----------------------------------------------------------------------------
(***************************************************************************)
(* What it says of the console.                                            *)
(***************************************************************************)

LEMMA IInvTypes == IInv => TypeOK
<1> SUFFICES ASSUME IInv PROVE TypeOK
  OBVIOUS
<1> USE DEF IInv
<1>1. \A id \in Ids : history[id] \in Seq([active : BOOLEAN, fields : Versions])
  BY DEF HistoryInv
<1>2. PendingOK
  BY DEF PendingInv, PendingOK, Waited, Flying
<1>3. QED
  BY <1>1, <1>2 DEF TypeOK, ListTypeInv, EditorTypeInv, ReportTypeInv, CallTypeInv,
                    AccountTypeInv, FormInv

\* The page holds only versions of records that the services have made,
\* whatever answer is read late or not at all, and an inspector is never
\* without a record (readRecord and the checks of response.error before it).
THEOREM ConsoleIsTyped == Spec => []TypeOK
BY ConsoleInvariance, IInvTypes, PTL

\* An update names the version its form was filled from, on every page but
\* those of the platform and of segments: an accepted one replaces nothing
\* that its author was not shown.
THEOREM EditsReplaceWhatWasReadAlways == Spec => []EditsReplaceWhatWasRead
<1>1. IInv => EditsReplaceWhatWasRead
  BY DEF IInv, FormInv, EditsReplaceWhatWasRead, Loose
<1>2. QED
  BY <1>1, ConsoleInvariance, PTL

\* On the panels whose copy in hand is always filled from an answer: what a
\* mutation reported as saved is in hand, or something newer is, and in the
\* editors of entries, flags and segments it is of the scope selected;
\* resetCollectionState and the loads of the editor after a mutation, in
\* every order that does not overlap.
THEOREM EditorShowsOwnWritesAlways == Spec => []EditorShowsOwnWrites
<1>1. IInv => EditorShowsOwnWrites
  BY DEF IInv, EditorInv, EditorShowsOwnWrites
<1>2. QED
  BY <1>1, ConsoleInvariance, PTL

\* A list that could be fetched has what the page reported as its own write
\* and, where it says that the latest data was loaded, what it told of others:
\* the mutate() that a handler awaits before it reports.
THEOREM QuietListIsAsReportedAlways == Spec => []QuietListIsAsReported
<1>1. IInv => QuietListIsAsReported
  BY DEF IInv, ListInv, ListedUp, Up, QuietListIsAsReported
<1>2. QED
  BY <1>1, ConsoleInvariance, PTL

\* The results of a validation, a diff, a preview or an evaluation go when
\* another copy is loaded, and one that comes late is about a newer copy.
THEOREM ResultsAreNotOlderAlways == Spec => []ResultsAreNotOlder
<1>1. IInv => ResultsAreNotOlder
  <2> SUFFICES ASSUME IInv PROVE ResultsAreNotOlder
    OBVIOUS
  <2>1. page \in {"config", "feature", "releases"} /\ ~raced => ReportFits
    BY DEF IInv, ReportInv
  <2>2. report # None => page \in {"config", "feature", "targeting", "releases"}
    BY DEF IInv, ReportInv
  <2>3. QED
    BY <2>1, <2>2 DEF ResultsAreNotOlder, ReportFits
<1>2. QED
  BY <1>1, ConsoleInvariance, PTL

\* Whatever draft the service holds when it validates one, and whoever writes
\* another before the answer: what is published is what was found valid,
\* because the inspector is keyed by the release's version.
THEOREM PublishesWhatWasValidatedAlways == Spec => []PublishesWhatWasValidated
<1>1. IInv => PublishesWhatWasValidated
  <2> SUFFICES ASSUME IInv, page = "releases", NEW c \in Calls, Flying(c),
                      calls[c].op = "archive", Accepts(calls[c])
               PROVE  calls[c].form = calls[c].sent
    BY DEF PublishesWhatWasValidated, Flying
  <2>1. /\ calls[c].form >= calls[c].sent /\ calls[c].form <= Version(calls[c].id)
        /\ calls[c].form \in Nat /\ calls[c].sent \in Nat
    BY CallFields, Numbers DEF IInv, ReportInv, PublishOK
  <2>2. calls[c].sent = Version(calls[c].id)
    BY DEF Accepts
  <2>3. QED
    BY <2>1, <2>2
<1>2. QED
  BY <1>1, ConsoleInvariance, PTL
=============================================================================
