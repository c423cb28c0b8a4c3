# Asterloom: a verification project in TLA+

Asterloom is a modular monolith (.NET, `src/Backend`) with client SDKs and a
web console (Next.js, `src/Frontend`), which talks to it through a server of its
own that keeps the browser's session (the BFF). It gives applications tenants,
identity, dynamic configuration, feature flags, file storage, mail, desktop
releases, analytics and telemetry. All durable state is in PostgreSQL, most of
it as rows with a `version` that every change compares and increments; file
contents are in an S3-compatible store, sessions in Redis.

In the backend a request reads rows, awaits, checks, and writes with one
conditional statement or one transaction. In the console a handler reads what is
on the screen, awaits an answer, and changes what is on the screen by then.
Nearly everything that can go wrong happens between the reading and the writing,
and that is what is modelled here.

## 1. Inventory

| Part | State it keeps | Operations | Interacts with | What is hard about it |
|---|---|---|---|---|
| **Transactional outbox** (`Module.Infrastructure/Outbox`) | `outbox_messages` (lease, attempts, due time, outcome), `inbox_receipts` | enqueue in the producer's transaction; claim a batch; hand a message to its consumers one by one; record receipts; mark processed, failed, dead-lettered | written by Config and Feature; polled by every server process | concurrent dispatchers, crashes between effect and record, overrun leases, lost replies, retries |
| **File storage** (`Module.Storage`) | buckets with counters and quota, objects, upload sessions; bytes in S3 | create, update, archive, restore a bucket; create and complete an upload; copy, delete, edit an object | S3 through presigned tickets; used by Release | counters written back whole, checks on stale rows, bytes and rows that are not in one transaction |
| **Mail** (`Module.Mail`) | SMTP accounts, deliveries keyed by client message id | send (reserve, submit, record); manage accounts | an SMTP server that cannot roll back | idempotent retries, a crash between submission and record, races for one message id |
| **Dynamic configuration** (`Module.Config`, `Sdk.Config`) | entries, revisions, snapshots per environment; the SDK's cache | draft, publish, roll back, archive, restore; serve snapshots; refresh, fall back to last known good | outbox; Targeting; SDK clients over HTTP with ETags | a snapshot put together from many reads, of entries and of every rule's segment; refreshes that race in the client |
| **Web console sessions** (`Frontend/lib/auth`, `Frontend/app/api`) | login transactions, sessions and locks in Redis | log in, refresh under a lock, proxy a request, log out | Passport (token endpoint), backend, browser | a refresh token may be presented once; locks that expire; lost replies; a refresh beside a logout |
| **Web console** (`Frontend/features`) | per panel: the SWR list of a scope, the copy in hand, results about it, marks of what is under way | some 160 commands and reads on 32 panels; select a tenant, application, environment; initialize an application; upload a batch of packages | management services through the BFF; other administrators | answers in any order, lists fetched at any time, stale copies, panels that are mounted anew under a running call, one request of many failing |
| **Desktop releases** (`Module.Release`, `Sdk.Release`) | channels, artifacts, releases, signing keys | upload and verify artifacts; create, publish, pause, promote, roll back releases | Storage, two commits per step | two modules' rows that must agree; archiving what is in use |
| **Analytics** (`Module.Analytics`, `Sdk.Analytics`) | events, views; the SDK's queue, offline file and worker | track, flush, dispose; ingest with deduplication; retention | SDK clients over HTTP | lost answers and resends, restarts, a full queue, disposal during a flush |
| **Feature flags** (`Module.Feature`, `Sdk.Feature`) | flags and revisions; the provider's cache | draft, publish, archive; evaluate | outbox, Targeting | stale answers that overwrite newer ones in the provider |
| Targeting | segments | create, update, archive, restore; evaluate rules, percentage buckets | Config, which captures segments into its snapshots; Feature, Release | segments change while snapshots are put together; evaluation is pure |
| Authorization | roles, bindings, policies | grant, revoke; decide | every RPC | decisions are read afresh each time, without a cache |
| Identity (Passport) | users, clients, tokens (OpenIddict, ASP.NET Identity) | sign in, issue, revoke | web console, SDKs | the protocol state is the libraries' |
| Platform kernel | tenants, applications, environments | create, update, archive, restore | scope guard of every module | a hierarchy of single rows |
| Telemetry | settings, sources, records | validate and forward OTLP batches | an external collector | none beyond one compare-and-set |
| Audit, RPC pipeline, migrator, server host, protocol files, samples, generated client | an append-only log, or nothing | | | no interplay of actors |

What makes each correct, in a sentence: an event is delivered at least once and
settled once (outbox); quota, counters and rows agree whatever interleaves
(storage); one message id is submitted at most once and all callers hear the
same outcome (mail); clients are served every entry as it is published, each
version brought about by one release, for audiences that never go back to an
older segment, and a client never goes back (configuration); requests that race
neither spend a refresh token twice nor end the session (BFF); an edit replaces what its
author has read, and the screen agrees with what it has reported (console); a
delta is uploaded after the package it starts from (releases); live releases
refer to verified artifacts (releases); an accepted event reaches the server
unless the client says it does not (analytics); a provider's answer never gets
older (features). The last three are not modelled.

`PROJECT.json` lists every component with its status, the hazards at their lines
with the properties that guard them, and the code lines behind each definition.

## 2. Modules

| Module | Role |
|---|---|
| `OutboxDelivery` | abstract: events delivered in order, at least once, and settled once |
| `Outbox`, `MCOutbox`, `OutboxProofs` | the tables and dispatchers; instance; theorems |
| `StorageLedger` | abstract: atomic operations on buckets whose bytes always add up |
| `Storage`, `MCStorage`, `StorageProofs` | requests against tables and object store; instances; theorems |
| `MailOnce` | abstract: one delivery per message id, of which the server takes one copy at most |
| `Mail`, `MCMail`, `MailProofs` | send requests, accounts, SMTP server; instance; theorems |
| `ConfigFeed` | abstract: one configuration, each version of which releases, withdraws or returns one entry and serves all of them with the segments and visibilities of the time |
| `ConfigPublication`, `MCConfigPublication` | management calls, tables and targeting segments of an environment; instance |
| `ConfigClient`, `MCConfigClient` | the SDK's snapshot cache, fed by a configuration that changes as `ConfigFeed` says; instance |
| `ConfigProofs` | theorems of `ConfigPublication` and of `ConfigClient` |
| `BffSession`, `MCBffSession`, `BffProofs` | one browser session of the console; instance; theorems |
| `Console` | what all pages are made of: commands, services, list, copy in hand, other administrators |
| `Inspectors` | what the pages share whose record in hand is shown by a component keyed by id and version |
| `ConfigPage`, `FeaturePage`, `TargetingPage`, `PlatformPage`, `AuthorizationPage`, `IdentityPage`, `MailPage`, `TelemetryPage`, `ReleasePage`, `AnalyticsPage`, `StoragePage`, `AuditPage` | the handlers of each page |
| `ConsolePages`, `MCConsole`, `MCConsolePairs`, `ConsoleProofs` | the pages side by side and what they promise; instances; theorems |
| `ApplicationInitialization`, `MCApplicationInitialization`, `InitializationProofs` | the dialog that makes an application's first resources; instance; theorems |
| `VelopackUpload`, `MCVelopackUpload`, `VelopackProofs` | the card that uploads a batch of packages; instance; theorems |

Each module declares its bounds as constants (`MaxFaults`, `MaxCalls`,
`MaxVersion`, `MaxSnapshots`, `MaxClicks`, `MaxPolls`, `MaxGeneration`,
`MaxMounts`, `MaxUploads`) that occur only in guards, with named assumptions.
Definitions introduced by "(As it would be ...)" are faulty variants that stand
beside the definition they vary; for each property one of them is known to break
it.

### Outbox
One action per SQL statement of `PostgreSqlOutboxStore` and per effect of
`OutboxProcessor`: `Enqueue`, `Claim`, the receipt check, `HandleAsync`, the
receipt insert, `MarkProcessed`, `MarkFailed`. `pc`, `batch`, `current` and
`passed` are where a dispatcher is in its two loops. A worker is one process
incarnation (its id holds a fresh GUID), so a restart is another worker. Time
shows only as "due" and "leased". A claim takes any nonempty subset of the
candidates up to `BatchSize`, because `SKIP LOCKED` and the retry times leave the
choice open. A fault is a stop, a statement that throws (before or after it
took effect), or a lease that runs out under a working dispatcher.
Assumed: `HandleAsync` returns; all processes have the same consumers (none is
registered in this repository besides tests, so an event type without one stays
pending for ever, as the code has it).

### Storage
One action per statement, transaction or byte operation of a request. A request
keeps the copies of the rows it read (`seenBucket`, `seenObject`, `seenSession`)
and its place (`pc`, `job`); its transaction succeeds if the versions of its
copies are current. `Put` is a client using a presigned ticket, before or after
the upload is settled; `Expire` is the session's expiry; `Abandon` is a refusal
for reasons the model does not look into (an expected version that does not
match, invalid arguments, an inactive tenant), a cancelled call or a crash.
`latePut` and `interrupted` only observe. Object ids are fresh, with a fixed
bucket, key and size. The in-memory twins, which allow a ticket one use, are
stricter than what is modelled. Downloads and listings change nothing.

### Mail
One request is one call of `SendAsync`: look for the message id, read the
account, reserve by inserting the delivery, submit, wait for the server, record
the outcome. A retry is another request with the same message id. The SMTP
server takes the message before its reply is known; the exchange may fail before
or after that, and a request may be interrupted anywhere. Administrators update,
archive and restore the account by compare-and-set.

### ConfigPublication
A call reads its entry and works out the row it will write (`Begin...`),
validates the rules of what it is to publish, one read of a segment each
(`ValidateRule`), reads the latest snapshot's version (`ReadLatest`), lists the
published entries (`ListPublished`), captures the segment of every rule of every
one of them, again one read each (`CaptureRule`), and commits all of it in one
transaction under the environment's advisory lock (`CommitSnapshot`), provided
that the version is still the next and the entry still has the version read.
`Interrupt` ends a call anywhere. Segments are created, updated, archived and
restored by conditional writes at any time (`CreateSegment`, `UpdateSegment`,
`ChangeSegmentStatus`).

A `Definition` is its default, its schema and its ordered rules; the constant
`Rules` says which segment each rule is about, and nothing else of a rule is told
apart. A segment is its status and its version, and the version stands for its
rule. What is captured for a rule is that version, or 0 if the segment was not
active and the rule was left out (`Captured`); an item's `audience` holds it for
each rule of the definition. The visibility is kept apart because a draft update
writes it at once. `since` and `shown` only observe what each segment, and the
visibility of each entry, has been since the last commit: in `ConfigFeed` a
release may serve any of these. A release therefore changes what clients are
served of other entries too, when their segments or visibilities have changed;
`ConfigFeed` has it so, with each rule read at a time of its own.

### ConfigClient
Callers of `GetSnapshotAsync` with the cache read before and after the wait for
the one refresh lock, the request, the response, the store and the
`SnapshotUpdated` event; failed requests, cancelled waits and exceptions that
pass through are faults. Ages replace time: fresh, stale (good enough as a
fallback), dead. A snapshot is known by its version: the server's answer is the
current one, and "not modified" stores the same version again.

### BffSession
One browser session, one step per await of the handlers of `app/api`: the login
callback takes its transaction, exchanges the code and stores the session; the
proxy, `/api/auth/session` and the logout load the session; `ensureFreshSession`
takes the refresh lock or polls for what its holder stores, reads the session
again, presents the refresh token, and saves, deletes or gives up. A token pair
is known by its generation; `stale` holds the generations whose access token has
aged; `current` is what Passport will exchange. Passport is modelled as it is
configured here: rotation without a reuse grace, so that a token presented twice
is refused. `mishaps` only observes what happened around the handlers: the
lock's time ran out under its holder (`lapse`), a reply or a save was lost or
its instance stopped (`lost`), a reply could not be verified (`unverified`), the
account lost access (`withdrawn`), or the session was ended by a logout or by
its expiry (`ended`).

### Console, Inspectors and the pages
A write names the version it was decided on and makes the next one, so a copy
of a record is an id, its version, and the version its fields were filled from
(`form`). `history` keeps, for each version, whether the record is active and
which version wrote its fields. A call is sent, then answered (accepted with the
answer there or lost, refused, in conflict), then the handler goes on: it takes
the answer in hand or not, asks for the list again (`mutate()`), waits for it,
reports and returns. The list is one SWR entry per scope with
`keepPreviousData`; it is also fetched by the browser's focus, by the network or
by a change of scope (`Revalidate`), at any time. `pending` is what the page
marks as under way: buttons look at it, and each page is faithful to which
buttons look at which mark. Pages with inspectors differ: an inspector is
mounted anew for another id or version and what it was waiting for is forgotten,
while the call goes on.

`acked` and `told` observe what the page has reported, `blind` that an edit was
accepted whose author had not been shown what it replaced, and `raced` that two
calls overlapped, the scope changed under one, or a call was about a record of
another scope. In such a session an older answer may well end up on the screen
(there is no order between two answers that the pages could know of); `acked` and
`told` are no longer kept then, and the three properties that name `raced` say
nothing of it. The run still follows these sessions for the other properties.
A selection is of one scope; that another tenant unmounts the panels of
telemetry, analytics, mail and releases is not modelled.

Each page module names the commands (`UpdateTenant`, `PublishFlag`, ...) as the
management client does, then the handlers with their guards. On the page of
platform resources the records' own parents are taken to be active.

### ApplicationInitialization
`initialize()` as steps of groups of requests, those of a group sent together
(`Promise.all`). A request is answered, refused, or its answer is lost. The
dialog disappears when the tenant leaves the page's list (which a focus fetches),
a new one is mounted when the tenant is back, and a run that was under way goes
on. Names are unique on the server, so a second run of the same dialog may be
refused.

### VelopackUpload
The card's packages, signing bundle and delta sources; `preparePackages` as
definitions (`Blocked`, `DeltaFrom`, `ExistingArtifact`); `uploadAll()` as a loop
with ticket, transfer and completion of each package, fulls before deltas. The
loop keeps the sources it prepared with (`from`) and the full packages it knows
to be verified (`full`). The card can be mounted anew while a loop goes on;
other administrators archive artifacts.

## 3. What the runs check

| Run | Instance | Question |
|---|---|---|
| `outbox` | 2 workers, 2 events (two consumers and one), 2 faults, 2 attempts; 520 k states | delivered before processed, no redelivery by an owner, dead-letter limit, `OutboxDelivery`, and every event is settled in the end |
| `storage` | 2 callers, 4 calls, 3 objects of which 2 share a key, quota 1 or 2; 544 k | quota, counters, archive rule, deleted objects leave nothing, `StorageLedger` |
| `mail` | 3 requests for one message, 2 administrators; 671 k | at most one submission, true outcomes, every reservation settled, `MailOnce` |
| `config_publication` | 2 calls, 2 entries (4 and 2 changes), a segment of 2 versions that both have a rule for, 3 snapshots; 1.24 M | snapshots current, audiences never go back, `ConfigFeed` |
| `config_client` | 2 callers of one key, 2 versions, 2 faults; 131 k | the cache never goes back, events and forced refreshes are right, clients catch up |
| `bff` | a login, a logout, a proxied request, a session query, 3 generations, 1 look without the lock; 1.4 M | no token presented twice, nobody signed out and no old token stored by concurrency alone |
| `console` | 18 panels, one record, 2 scopes, 2 calls at a time, 3 versions, 3 clicks; 2.1 M | edits replace what was read, the copy in hand shows the own writes, results belong to it, what is published was validated |
| `console_pairs` | all 32 panels, a record in each of 2 scopes, 2 versions, 2 clicks; 1.9 M | a quiet list is as the page has reported |
| `velopack_upload` | a full package, its delta and a stranger, 2 uploads, 2 cards; 1.3 M | deltas wait for their source, rows tell the truth |
| `initialization` | 2 mounts, three presets turned on and off, two policy rules; 63 k | what is said to be complete was made and its secrets shown, a failure ends the run, every run ends |

Bounds. Two actors are enough for every race these codes have (a write based on
a copy that another actor made stale); the third mail request is a retry that
arrives when the first two are settled or stuck. Two faults allow a failure of
the recovery from a failure. Two events of different types show that one row does
not disturb another in a batch. Three objects with two on one key, and a quota
that holds one or two of them, are the smallest instance in which an upload, a
copy and a deletion compete for room and for a key. Four changes of one entry are
publish, draft, publish or roll back, archive, while the other entry is published
beside it (`DraftsAt` has drafts updated where they can differ from what is
published); two versions of the segment are its creation and its update or
archiving, which can fall between any two reads; and nothing new begins after
the third snapshot, the smallest number that leaves one to be overtaken after
one that both entries are in. In `bff` two requests compete for the lock, each may refresh again
after a 401 of the backend, and the third generation is what the second refresh
makes; the twenty looks of the code differ from one only in number. In `console`
three versions are the one that was read, another administrator's and the own
answer to it; three clicks are, for instance, choose, edit and save, and two
calls overlap in every pair of stages. A panel whose handlers are the same as
another's is in `console_pairs` only. In `velopack_upload` a second upload starts
after a failed one or on a new card beside the first. The safety results of all
passing runs are also proved without these bounds (section 5).

Symmetry is used for callers, calls and definitions where the run has no
liveness property. Deadlock is checked in `config_client` and `velopack_upload`;
in the other runs the bounded work comes to an end (requests are served, clicks
are used up, the dialog is closed), so stopping is legitimate.

Two runs show where the code does something other than its documentation says:

| Run | Finding |
|---|---|
| `storage_discard` | `CompleteUploadAsync` deletes bytes on an earlier inspection: of two calls for one upload, the slower removes the valid bytes of an object the faster made available |
| `console_tenants` | the forms of the platform page keep the fields of an older version and send the version the list has by then: another administrator's change is overwritten without a conflict |

`EditsReplaceWhatWasRead` therefore leaves the platform's panels out, and the page
of segments: after archiving or restoring the segment in the editor it keeps
the fields as they were and takes the new version, so that the next save replaces
what somebody else may have written in between (targeting-workspace.tsx:356).
If another segment was opened before the answer came, it even takes the record
of the first and keeps the fields of the second (`StatusIntoEditor`, whose form is
then of no version of that record).

`EditorShowsOwnWrites` is about the panels whose copy in hand is always the answer
of a read or a command (`FilledFromAnswers`: entries, flags, segments, mail
accounts, deliveries). Where a row of the list is taken in hand as it is (the
schemas panel does so beside its fetched read), the row clicked while the list is
still being fetched again after a save is the older one, and it stays
(section 7).

## 4. Fairness

- Outbox: weak fairness of every step of a running dispatcher and of its start
  (the host restarts the service and each loop iteration ends), of a row becoming
  due (the clock), and of the expiry of an abandoned lease. Faults are finitely
  many and there are more incarnations than faults: the claim is that events
  settle once the failures end.
- Mail: weak fairness of the steps of a request. The SMTP exchange returns or
  times out (30 s); interruption is a step of its own and never forced.
- ConfigClient: weak fairness of the applications' asking, of time and of the
  steps of a request (`RequestTimeout`); strong fairness of taking the lock,
  because `SemaphoreSlim` serves its waiters in turn, so no waiter is passed over
  for ever.
- Storage and ConfigPublication have no liveness property: nothing in the code
  runs on its own to finish what a client leaves (no worker sweeps expired
  sessions).
- ApplicationInitialization: weak fairness of the answers to a run's requests,
  which the proxy gives up on after 30 s (`fetchUpstream`).
- BffSession, ConsolePages and VelopackUpload have no liveness property: an
  administrator need not do anything, instances may stop, and what a handler of
  the browser leaves undone nobody takes up.

## 5. What is proved

All theorems hold for every value of the constants that satisfies the named
assumptions: types of the options, bounds that are numbers (positive where they
number the mounts of a dialog or the clicks on a card, of which there is a
first), a `None` that is not a member of the sets it is added to, a finite set
of objects in `Storage` (`ObjectsAreFinite`, for cardinalities), finitely many
packages in `VelopackUpload` (so that among the sources of a delta there is a
newest), and some record in `Console` (`IdsAssumption`).

- `OutboxProofs`: types, `ProcessedMeansDelivered`, `OwnerNeverRedelivers`,
  `HandledInOrder`, `DeadLetterNeedsAttempts`, `ExtraAttemptsNeedFaults`,
  `SettledIsFinal`, and that Outbox implements OutboxDelivery.
  Invariant: whoever owns a row holds the copy of its last claim
  (`LocksAgree`, `CopiesAreFresh`), the consumers it has passed have receipts
  (`PassedHaveReceipts`), and its place in the loops fits them (`LoopState`).
  Without the first part, a stale copy could mark a row it no longer owns.
- `StorageProofs`: types (so no counter falls below zero), `QuotaRespected`,
  `CountIsExact`, `CountersMatchObjects`, `ArchivedIsEmpty`,
  `SessionMatchesObject`, `DeletedMeansNoBytes`, `StrayBytesAreOfCopies`,
  `ArchivedIsFrozen`, and that Storage implements StorageLedger.
  Invariant: a copy whose version is current equals the row (`BucketCopies`,
  `ObjectCopies`, `SessionCopies`), so what a request checked on its copies
  (`QuotaChecked`, `EmptinessChecked`, `BytesChecked`) holds of the rows its
  transaction changes. Every step is then one of a few transactions on current
  rows, while one request moves on. The sums of sizes are counts: StorageLedger
  takes the set of all pairs of an object and the number of one of its bytes, so
  that adding or removing an object (`UnitsAdd`, `UnitsRemove`) is a fact about
  the cardinality of disjoint finite sets and needs no induction. `CountersStep`
  keeps the counters equal to these counts through each kind of transaction. In
  the refinement (`LedgerStep`) a transaction moves one object of the ledger
  (`ObjectMoves`), or changes one bucket (`BucketMoves`), and every other step is a
  stutter; that a bucket has a quota from the day it is created (`QuotaIsSet`)
  tells creation from the rest.
- `MailProofs`: types, `AtMostOneSubmission`, `SentMeansAccepted`,
  `AnswersAgreeWithRow`, `OutcomeIsFinal`, `ArchivedSettingsAreFrozen`, and that
  Mail implements MailOnce. Invariant: between its reservation and its completion
  a request owns a Pending row that only it can change, and only the owner of a
  row has submitted the message.
- `ConfigProofs`: types, `SnapshotIsCurrent`, `EntriesNameTheirSnapshot`,
  `RevisionsAreConsecutive`, `AudiencesNeverGoBack`, and that
  ConfigPublication implements ConfigFeed, for any segments and rules.
  Invariant: an entry's row is the one a call read as long as the version is
  (`HasEntry`), plain updates change nothing clients see (`UpdatesQuietly`),
  publications number their revision next (`PublishesNext`), and what is
  gathered for a snapshot that is still the next one (`Gathered`) is what is
  published now, since any publication in between would have taken its number,
  with each rule that was read captured as its segment was at some time since
  the last commit (`CapturedSince`), not as it is now: the segment may have
  changed behind the read. That the observers know the present (`SegmentsSeen`,
  `VisibilitySeen`) and that all that was captured before is no newer than
  anything seen since (`SnapshotsAreOlder`) then gives `AudiencesNeverGoBack`.
  Each step is a quiet write, a write of a segment, the commit of a current
  snapshot, or no write.
- `BffProofs`: types, `ReuseNeedsMishap`, `SignOutNeedsMishap`,
  `StoredTokensAreCurrent`, for any number of requests, polls and generations.
  Invariant: unless the lock lapsed, whoever is between the lock and its release
  holds it (`LockInv`); whoever waits, looks or refreshes has a record
  (`HoldersHaveRecords`) of a session that was signed in (`BeforeLogin`,
  `LoginInv`) and is refreshable (`DropInv`); and without any mishap the stored
  record is the current pair, all presented tokens are older, and only the
  holder of the lock is ahead of the store (`ChainInv`). A step that leaves these
  alone is a quiet one (`Quiet`), and most are.

- `ConfigProofs` for the client: `ListenersAreRight`, `ForcedAnswersAreCurrent`,
  `CacheNeverGoesBack`. Invariant: one caller at a time is under the refresh
  lock, whatever context it refreshes (`LockInv`); what it read in its second
  look is still what the cache has, but for its age (`HeldInv`); and what the
  server sent is no older than the cache and than the question (`ResponseInv`).
  Without the second part, "not modified" could confirm an entry that somebody
  replaced in between. Publication and client are proved about in one module, so
  the client's specification has names of its own (`ClientSpec`, `at`, `Nothing`).
- `VelopackProofs`: types, `DeltasFollowTheirSource`, `RowsTellTheTruth`, for any
  files, bundles, selections and number of uploads. Invariant: a card is busy
  uploading exactly while one loop of its own goes on (`LoopsInv`); what the
  server, the card's list or a loop has as verified was proved (`ProvedInv`);
  while a loop transfers or completes, the identity of its package is the one its
  ticket was for (`ClaimInv`); and a row that says "uploading" is what the card's
  loop has in hand (`RowInv`). The order of the queue is not needed for any of it:
  a loop asks for no ticket of a delta whose source it does not know as verified,
  so a bad order would cost uploads, not correctness.
- `InitializationProofs`: `CompletedIsMade`, `AFailureIsTheEnd`, for any policies,
  presets and number of mounts. Invariant: a mount runs at most once, and nothing
  is completed before it does (`OnceInv`); a run that is not over is at a group of
  a step it has chosen (`PlaceInv`); and of the run the dialog hears of, every step
  before its place, and what is answered of the group that is on its way, was
  made and its secrets can be copied (`RunInv`). `GoOnIs` says that the next step
  passes over no chosen one.

- `ConsoleProofs`: types, `EditsReplaceWhatWasRead`, `EditorShowsOwnWrites`,
  `ResultsAreNotOlder`, `PublishesWhatWasValidated`, `QuietListIsAsReported`, for
  all 32 panels side by side and any records, scopes, calls, versions and clicks;
  each property says which panels it is about (`EditorShowsOwnWrites` those of
  `FilledFromAnswers`). None of
  these is inductive: they speak of a page at rest, or of what is shown, and what
  decides them is on its way. The invariant has, of every call under way, what
  it may still be answered (`CallOK`) and that its form is of the version it names
  (`FormInv`); of a list under way, that it has seen what the page reported, and
  what the handler that waits for it is going to report (`FetchOK`, `CaughtUp`); of
  the copy in hand on the panels filled from answers, that no handler that goes on
  will leave it behind (`EditorInv`); of a validation under way, that it is about the copy in hand and
  cannot be older (`AsksAbout`), and of its waiter, that it is the inspector of that
  very version (`WaiterOK`); and while no calls overlapped, that there is one at
  most, about a record of the scope selected (`OneCallInv`). Without `FetchOK` a
  list that was asked for before a write could arrive after it was reported;
  without `WaiterOK` a release could be published on the verdict about a draft that
  was replaced.
  The proof has three layers. The first says what the operators of `Console` do to
  the calls, field by field (`AskSends`, `ReturnIsOver`, ...). The second has a lemma
  for each thing a handler does, under the conditions all pages meet: it sends a
  call (`SentKeepsIInv`), asks for the list (`AskedKeepsIInv`), returns
  (`OverKeepsIInv`), turns to another copy (`TurnKeepsIInv`), or changes the scope
  (`SelectKeepsIInv`); and one for each step of the services, of others and of the
  list. The third goes through the pages, action by action
  (`ConfigKeepsIInv`, ..., `AuditKeepsIInv`), and shows that the handlers meet these
  conditions. A page is an instance of its module, whose copies of `Console`'s
  operators are first shown to be `Console`'s (`ConfigIsConsole`, ...).

So every safety property that a passing run checks is a theorem, each action
property among them and each refinement. Only model-checked are the four
liveness properties (`EventuallySettled`, `ReservationsSettle`, `ClientsCatchUp`,
`InitializationEnds`): they rest on fairness and on `ENABLED`, which are beyond the
prover. The two findings of section 3 are counterexamples of TLC.

## 6. Not modelled

- The parts with status "not_modelled" or "partly" in `PROJECT.json`, for the
  reasons given there.
- Close to half of the TypeScript of the repository (`lib/api/generated`) is a
  client generated by Kiota: serializers and request builders. A good part of the
  rest is the markup of the panels, translations, tests, and the editors of
  definitions and rules, whose state is one object that is replaced at each
  keystroke and handed to the page as a whole.
- On the server: the life of channels, releases and artifacts over Storage, the
  analytics client, and the feature provider. What reading them showed is in
  section 7; each is a state machine of its own and not part of the models here.
- SQL beyond its effect: a statement or transaction is atomic, versions and
  unique keys are enforced, and an error is a fault. The in-memory stores do the
  same operations under one lock.
- Contents: hashes, message text, values, schemas and the conditions of rules are
  members of small sets or left out; of a configuration's rules the segments they
  refer to are modelled, of a segment its status and version.
- In storage, a repeated `CompleteUpload` with the original expected version is
  refused before it reaches the answer meant for repetitions; expected versions
  are not tracked, so the model shows it as a refusal. `DeleteObject` removes
  bytes before its transaction; a conflict leaves an available row without bytes,
  which no document excludes.
- In mail, an account archived after a request read it is still used by that
  request; nothing forbids it.
- In the configuration client, handlers of `SnapshotUpdated` run while the
  refresh lock is held: a handler that waits for a refresh of the same client
  never returns. The model's listener only takes note.
- In the console: filters, search and pages of a list beyond the change of scope
  (except in the audit trail), what a field contains, and toasts. Selecting
  another tenant or application changes the scope of the open panel; that some
  panels are unmounted by it is left out.
- In the session: encryption, cookies and the comparison of the CSRF token are
  the choice between a request that is let through and one that is refused; two
  browsers are two sessions, which share nothing.

## 7. What the models do not state, and known disagreements

Places where the code does what a reader of its documentation or of its screens
might not expect, and that no property here can promise to be otherwise. The
model has the behaviour wherever the component is modelled.

Backend, modelled:

- An upload completed after its expiry leaves its bytes in the store for good
  (`StorageManagementService.cs:389`), though "otherwise, the invalid bytes are
  removed" (Docs/Module/File-Storage.md:141-142).
- A failed upload leaves a row that can be neither deleted nor overlooked: its
  bucket can never be archived (`StorageManagementService.cs:140-145`).
- A copy that is cancelled after the bytes were copied leaves bytes no row knows
  (`:538`; theorem `StraysAreCopies`); metadata of an object is checked against
  the bucket's status without a version (`:222`; harmless, theorem
  `ArchivedDoesNotChange`).
- A send that is interrupted after the server's acceptance leaves `PENDING`, which
  Docs/Module/Mail.md:114 explains as "SMTP delivery has not completed", for ever
  (`MailDeliveryService.cs:140`).
- A draft update changes the entry's visibility at once
  (`ConfigManagementService.cs:141`), and the next publication of any other entry
  serves it (`:604`), though "Draft changes never leak before Publish"
  (Docs/Module/Dynamic-Config.md:35).
- Every publication captures the current segments of all entries' rules again
  (`ConfigManagementService.cs:578-598`), so publishing one entry changes what is
  served of others whose segments were changed, archived or restored since the
  last snapshot. Conversely, an archived segment goes on matching in the snapshot
  that is served until something in its environment is published, though
  "Archiving a Segment invalidates or stops matching dependent configurations."
  (Docs/Module/Targeting-Rollout.md:87). In `ConfigPublication` these are
  `CaptureRule` and `ChangeSegmentStatus`, which leaves the snapshots alone.
- The rules of one snapshot are read one by one (`:583`): two rules of the same
  segment may be captured with different versions of it, when it is changed
  between the reads. `AudiencesNeverGoBack` therefore compares a snapshot with
  older ones, not the rules of one.

Backend, not modelled:

- Completing an artifact upload commits Storage's upload first and the artifact's
  row afterwards (`ReleaseManagementService.cs:415`); an artifact is checked for
  live releases and then archived under its own version only (`:532`); a rollback
  republishes a release whose artifacts may have been archived since (`:929`).
- In the analytics client a batch that is refused for good stays at the head of
  the queue (`AsterloomAnalyticsClient.cs:148`), a delivered batch is dequeued
  before the offline file is rewritten (`:253`), events tracked during the last
  flush of a disposal are accepted with nobody left to send them (`:190`), and an
  exception of a handler ends the worker silently (`:225`).
- The feature provider stores overlapping answers in the order they return
  (`AsterloomFeatureProvider.cs:203`).

Sessions:

- A refresh that finds its session gone goes on with its own copy and saves it
  (`session.ts:149`): a logout beside it is undone, though "Explicit logout
  immediately clears both layers" (Docs/Module/Identity.md:149). In `BffSession`
  this is `Latest`, and why a session that ended counts as a mishap.
- The lock lives as long as one token request may take, and an ID token that
  cannot be verified, because the key set is out of reach for instance, is a
  permanent error (`token-client.ts:148`): the session is deleted.
- A refresh that fails after a 401 of the backend is answered 502 (`route.ts:105`),
  where Docs/Module/Web-Console-Bff.md:75-76 has 503 for failures of a refresh.

Console:

- Validation, difference and preview are computed from the server's draft, not
  from the fields on the screen (`config-workspace.tsx:346`);
  `ResultsAreNotOlder` is the part of it that holds.
- On the schemas panel a row of the list is taken in hand as it is
  (`analytics-schemas-panel.tsx:150`). Clicked while the list is being fetched
  again after a save (`:107`), it is the older version, and it stays in hand after
  the save is reported; the next save conflicts. The same holds of the other
  panels outside `FilledFromAnswers` that choose rows.
- While the list of another scope is awaited, the rows of the one before stay
  and can be chosen (`config-workspace.tsx:201`); the read then asks for the
  record in the new scope and misses.
- After a conflict the pages of configuration, features, targeting and
  authorization say "Latest data loaded", but the copy in hand remains the old
  one, and every retry conflicts again.
- Adding a member who is on a page of the list that was not loaded sends version
  0 and is refused.
- A segment that is archived or restored while another is being opened ends up
  in the editor with the other's fields, and the next save writes them to it
  (`targeting-workspace.tsx:342-360` uses the segment selected at the click). The
  proof attempt found it: the fields' version could exceed the record's own.
- The detail of an audit event may arrive after the filters were changed
  (`audit-workspace.tsx:103`); deleting a client or scope leaves its inspector;
  the hash of a file chosen earlier may be shown for one chosen later
  (`release-artifacts-panel.tsx:627-646`).
- The secrets made by an initialization whose dialog disappeared are shown to
  nobody (`platform-workspace.tsx:806`), though they are "shown once and disappear
  when this window closes" (`application-initialization-dialog.tsx:779`).
- A package whose transfer failed leaves an artifact in state Uploading, and
  its identity blocks the batch from then on; a signing bundle read late replaces
  the one chosen after it; and the source of a delta that is queued can still be
  changed on the screen, without effect on the upload.

What would come next, in this order: Release over Storage, composed by instance,
because both modules commit in one operation; the analytics client with its
server as a refinement of "every accepted event is counted once"; and the feature
provider.
