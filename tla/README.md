# A TLA+ development of flightdeck

flightdeck is a project tracker for people and coding agents: a Go service over
PostgreSQL with a REST API, an MCP server and a web UI.  Two instances can
"keep one project in step" (`src/README.md:141`): each runs a sync engine, and
the engines exchange sealed messages through a small mailbox host.  This
directory models the system in TLA+, checks the models with TLC and proves the
results that matter most with TLAPS.  Paths below are relative to the
repository; `engine.go` is `src/internal/sync/engine.go` and `mailbox.go` is
`src/internal/mailbox/mailbox.go`.

## 1. Inventory

| Component | State | Operations | Interacts with | What makes it correct |
|---|---|---|---|---|
| **Mailbox host** (`mailbox.go`) | one directory per mailbox: `meta.json` with `NextSeq`, one file per undelivered message; leases in memory | Create, Send, Receive, Ack, Delete; `auth` outside the mutex | HTTP senders and receivers | an accepted message is carried away only after it was received; numbers are never announced twice; bounded backlog; revocation is final; nothing wedges |
| **Sync engine** (`engine.go`, `protocol.go`, `client.go`, `queries/sharing.sql`) | per share and row: `sent_hash`, `base_hash` | every 10 s: Receive, apply, Ack, push what is unsent; `mergeConflict` | the item, activity and project tables, which users edit meanwhile; the mailbox host | copies agree when both are silent; nothing overwritten; they do fall silent; `sent_hash` never ahead of the wire; nothing is echoed |
| **Share lifecycle** (`service/sharing.go`) | `project_shares`, five mailbox settings | put the configuration, ShareProject, AcceptInvite, unshare; a pass that meets a mailbox that is gone | mailbox hosts, engine | the two ends of a share mirror each other; one engine drains one mailbox |
| **Items and activity log** (`service/service.go`, `store/items.sql.go`) | rows with `version`, `idempotency_key`, `deleted_at`; append-only activity | create, bulk create, update with `expected_version`, complete, delete, log | API, MCP, ingestion, engine, outbox, embedder, cache | no lost update under a version guard; one item per key, for winners and losers of the race; the status log tells how the status came about |
| **Orient cache** (`service/cache.go`) | TTL map, singleflight group | get, build, set, clear on write | every write and every orient read | a read that starts after a write sees it |
| **Webhook outbox** (`service/webhooks.go`, `queries/webhooks.sql`) | events with attempts, lease, subscribers already served | enqueue with the write, lease a batch, deliver, reschedule, park | item writes, several workers | each event reaches each subscriber at least once or is parked |
| **Embedding worker** (`service/embedder.go`) | `embedding`, `embedding_model` of each row | list a batch, call the API, retry row by row, save or park | item updates, sync upserts | a vector belongs to the text it is stored with; a poisoned row stops nobody |
| **Project hierarchy and purge** (`service/hierarchy.go`, `projects.go`) | `parent_slug`, `status` | validate parent, create, patch, archive, purge | items, attachments | no cycles, no orphans, a purge is deliberate |
| **Attachments, maintenance** (`service/attachments.go`, `maintenance.go`) | rows, and objects in a blob store | upload, delete, daily sweep | items, sync upserts | the limit per item; no row without its object |
| **Live update hub** (`service/hub.go`, `api/stream.go`, `web/src/App.tsx`) | a bounded channel per browser | broadcast inside the write's transaction; the browser refetches | item writes, browsers | an idle browser shows what is there |
| **MCP sessions** (`mcp/server.go`) | two capped sets of session ids | add, overflow reset, nudge | every tool call | one nudge; no session that oriented is told it did not |
| **Context impact, usage** (`service/context_impact.go`, `usage.go`) | immutable events; `tool_calls` | record under a key; record, sweep, report | MCP and REST | one event per key; the report says what happened |
| **Setup wizard and settings** (`api/setup.go`, `service/settings.go`) | `settings`, `api_keys`, the process's snapshot | complete setup once, put settings, reload, mint, revoke, rotate, restart | every request | the snapshot follows the table; one wizard; nobody is locked out |
| **Search and orient** (`service/service.go`, `features.go`, `store/items_search.sql.go`) | none of their own | up to four search tiers merged by rank; ready list, `next_action` | items, links, embeddings API | nothing found is lost, doubled or put behind what every tier ranks lower; what is called ready is |
| Rate limiter, authentication, DTOs, public pages, certificates, update checker, metrics, web rendering | none of their own, or sequential | decode, check, format, query | service | see section 5 |

What is hard in it: the mailbox host promises at-least-once delivery over a file
system whose writes can be cut in two, with leases that expire under a working
receiver and acks that name numbers only; the engine runs on two machines at
once, reads rows and writes them back later while users edit them, and can be
cut short between any two of its steps; the rest are check-then-act races on one
database and background workers with leases and retries.  `PROJECT.json` lists
each hazard at its line with the properties that look for it.

## 2. Modules

| Module | Models |
|---|---|
| `Mailbox` | the host's `Store`, one action per operation, plus the cuts: `SendTorn` (message file written, counter not saved), `CreateTorn`, `DeleteTorn`, `Damage` |
| `MailboxDelivery` | the host with concurrent HTTP senders and receivers: `auth` outside the mutex (`Authorize`, then `Accept`, `Refuse`, `WriteFails` or `SaveFails`), drain / apply / ack with crashes and lost responses, lease expiry, restart, revocation |
| `Courier` | the abstract specification: a letter waits until it was received and is carried away only then |
| `MailboxCourier` | the refinement mapping from `MailboxDelivery` to `Courier` |
| `Fanout` | the abstract specification of the outbox: an event is POSTed to its audience, to nobody who answered, and settled once |
| `OutboxFanout` | the refinement mapping from `WebhookOutbox` to `Fanout` |
| `Merge` | `mergeConflict` as operators on versions of an item |
| `SyncPair` | two engines and their users, composed with `Mailbox` by `INSTANCE`: each drains the mailbox that bears its id |
| `WebhookOutbox` | the webhook outbox: events committed with their write, workers that lease, deliver and report, with crashes and database errors; the tables they read, as users change them |
| `Items` | callers that create (alone or in batches, under keys), update with and without a version, complete and delete items, statement by statement under READ COMMITTED |
| `OrientCache` | the orient bundle, its cache and singleflight group, under writes that clear it and writes that do not |
| `Embedder` | the embedding worker against edits, deletions and outages |
| `Projects` | parents, archive and purge by several requests, with uploads beside them |
| `Attachments` | uploads, deletes and the daily sweep over rows and objects |
| `ContextImpact` | impact reports under keys |
| `Usage` | tool calls, their sweep, the usage report and its separate statements |
| `Shares` | the life of shares on several instances and hosts |
| `Settings` | settings, the snapshot, the wizard, API keys, restarts |
| `LiveFeed` | browsers on the event stream |
| `Sessions` | what the MCP server remembers of its sessions |
| `Orient` | `ready_next` and `next_action` over links and moving statuses |
| `Search` | `searchSmart` with tiers that fail and rank fusion |
| `MCMailbox`, `MCSync`, `MCOutbox`, `MCService` | constants for TLC |
| `MailboxProofs`, `SyncProofs`, `WebhookProofs` | theorems about mailbox, merge and engines, and outbox |
| `ItemsProofs` | theorems about `Items` |
| `ContextProofs` | theorems about `OrientCache`, `Embedder`, `Sessions`, `ContextImpact`, `Orient`, `Search` |
| `StorageProofs` | theorems about `Projects` and `Attachments` |
| `InstanceProofs` | theorems about `LiveFeed`, `Shares`, `Settings`, `Usage` |
| `ServiceProofs` | the theorems of the service's components, of all of them together (`MCService`) |

### How state and actions correspond to the code

*Mailbox.*  The `Store` runs every operation under one mutex, so an operation is
one action.  `files` is the directory of `.msg` files, `nextSeq` is `NextSeq` of
`meta.json`, `status` says whether a directory and its metadata exist.  `leases`
has one record per Receive, because its messages are leased to one deadline and
run out together; `LeaseExpires` may come at any time after.  Bodies are opaque.
An ack may be cut short by an I/O error after any of its files (`AckHeld` acks a
subset).  Writing one file is atomic (write to a temporary name, then rename).

*SyncPair.*  A pass of `SyncShare` is cut at every point where another process
can get in between:

| Step of the code | Actions |
|---|---|
| `client.Receive` | `StartPass` |
| `applyItem`: read the row and its state, merge, log the conflict | `ReadItem` |
| `UpsertSyncedItem`, then `RecordApplied` or `RecordMergedBase` | `WriteItem`; only the row: `WriteTorn` |
| `applyActivity`, `applyProject` | `ApplyNote`, `ApplyProject` |
| `client.Ack` | `AckBatch`; answer lost: `AckUnanswered` |
| the three listings of `pushOutbound` | `AckBatch`/`StartPass`, `ListItems`, `ListActivity` |
| `client.Send` and `RecordSent` | `SendRow`; answer or record lost: `SendUnanswered`; refused: `SendRefused`; mailbox full: `SendFull` |
| a pass that fails or crashes before its ack | `AbortPull` |
| users, through the API or an agent | `SetTitle`, `SetStatus`, `SetMeta`, `AppendBody`, `RewriteBody`, `DeleteItem`, `CreateItem`, `CreateNote`, `EditProject` |

`st[i][e]` is the row of `project_share_state` with its columns `sent` and
`base`; content stands for its own hash, that is, SHA-256 is taken to be
injective.  A body is a sequence of passages, each with a mark of its own, so
that containment and joining mean what they mean on strings of distinct
passages.  Scalar fields are grouped by how the merge treats them (see `Merge`).
`created_at` is constant.  Activity rows (`Notes`) are attached to an item or to
none.  A created item and a changed status log activity in the same transaction,
while there is a note left to log; the bound on notes is a bound of the model.
`known`, `wrote`, `removed` and `parted` are history variables the code does not have.

`parted` has the rows that met one of three events, after which nothing need bring
their two copies together.  An engine *falls silent* on a row by an apply that leaves
it as `sent_hash` already has it, although the message said something else: a merge
that comes out as what was sent before.  Two messages *cross*: an engine takes over
the peer's content while its own last word, another one, is still on the host.  A
message is *overtaken*: an ack removes a later message about a row and leaves an
earlier one, which will be applied after it.  TLC shows each of the three to be
needed: without any one of them `InStepUnlessParted` is violated.

Two reads that the code makes separately are one step each because nothing else
writes what they read: `sentHashes` is read once per push and only the engine
writes it.

*WebhookOutbox.*  A worker's life is cut at every statement on the database and
at every POST:

| Step of the code (`service/webhooks.go`) | Actions |
|---|---|
| `enqueue`, inside the transaction of a write | `Enqueue`; a payload that cannot be built commits no event and is no step |
| `LeaseWebhookEvents` | `Lease`: copies of due rows go to `batch`, `Pushed` takes them off `due` |
| `ListActiveWebhooksForEvent` and the `already` set | `Begin`; on an error: `LookupFails`, which reschedules without a look at the attempts |
| `deliver`, for one subscriber | `Post`: 2xx, or any other end |
| `MarkWebhookEventDelivered`, `ParkWebhookEvent`, `RescheduleWebhookEvent` | `Finish`, by way of `Report`; when the UPDATE fails: `FinishUnreported` |
| the process stops, or its context is cancelled | `Crash` |
| `next_attempt_at` passes | `FallDue` |
| the sweep, project deletion, the webhook API | `Purge`, `DeleteProject`, `CreateWebhook`, `DeleteWebhook` |

`job`, `left`, `got` and `failed` are the local variables `ev`, what is left of
`hooks`, the part of `delivered` added here, and `~allOK`.  A report is written
by id from the copy, as in the code, so that two workers on one event write over
each other; and it is lost when the row is gone.  The order of a batch and of
the subscribers is left open, and `ORDER BY next_attempt_at` too, so that a
lease takes any due events: more behaviours than the code has.  `owed`, `acked`,
`repeated`, `unreported` and `overrun` are history variables.

*The service's components.*  Each of the thirteen modules from `Items` to
`Search` keeps the part of the database its properties need and nothing else, and
shares no variable with another one: a row of `Items` is its key, status and version;
in `Attachments` an item is live, deleted or purged; in `Embedder` it is the number
of its last edit.  A step is a statement on the database, a call to a service
outside, or a step of a process's own memory between two of which others can run.

| Module | Code | Actions |
|---|---|---|
| `Items` | `CreateItem`, `CreateItems`, REST `createItem` and bulk, MCP `create_item(s)`, ingestion | `BeginCreate`, lookup by key, insert (waits for a pending row with the key), commit, rollback; who loses the unique index looks again |
| | `UpdateItem`, `CompleteItem`, `SoftDelete` | read, `UPDATE ... WHERE version`, log, commit |
| `OrientCache` | `ProjectContext`, `orientCache` | miss, one read per section, set, clear after the commit, expiry |
| `Embedder` | `drainBacklog`, `embedBatch`, `embedRowsIndividually`, `saveVec` | list a batch, call, one by one, save, park, a refused key, stop of the process |
| `Projects` | `ValidateProjectParent`, `PurgeProject`, `api/projects.go` | the walk up, the write; the purge's checks, its list of objects, the rows, then the objects one by one |
| `Attachments` | `AddAttachment`, `DeleteAttachment`, `runMaintenanceOnce` | count, put, row; row, object; list keys, objects, rows; restore by a synced row |
| `ContextImpact` | `RecordContextImpact` | look up, resolve, insert, look again; a project or item that goes |
| `Usage` | `RecordToolCall`, `UsageReport`, `PurgeOldToolCalls` | record, the two aggregates, sweep, a day passes |
| `Shares` | `SetMailboxConfig`, `ShareProject`, `AcceptInvite`, `DeleteProjectShare`, `SyncShare` | each setting put and read alone, each mailbox created alone, the row, the invite |
| `Settings` | `PutSetting`, `ReloadSettings`, `completeSetup`, `cmd/flightdeck/main.go` | the row, three reads, the store; the wizard's list of such writes; keys; boot |
| `LiveFeed` | `Broadcast`, `stream`, `useLiveUpdates` | announce, commit or roll back, frame, focus, refetch |
| `Sessions` | `sessionSet.add`, `addTool` | load, store and count, sweep key by key, reset the counter, look |
| `Orient` | `buildProjectContext`, `NextAction`, links | the parallel reads, moves and links in between |
| `Search` | `searchSmart`, `finalizeItems`, `rrfMerge` | one step per tier, each of which may fail |

Variables whose comment says *history* are not in the code: they record what a
property must be excused for (an edit between listing and save, a reset, a second
acceptance, an overlapped reload), so that each property is as strong as the code
makes it and names where it ends.

## 3. Runs

| Run | Checks | Bounds |
|---|---|---|
| `mailbox_safety` | the type invariant; `LossNeedsTornSend`, `AcceptedSeqsDistinct`, `PendingBounded`, `RevokedIsEmpty`, `NoOvertaking`, `ImplementsCourier` | one mailbox, three messages, two senders, two receivers, a backlog of two, one message per Receive; symmetry in messages and clients |
| `mailbox_live` | `EventuallyDelivered`, `CorruptNeverWedges` | one sender, one receiver, two messages, no symmetry |
| `mailbox_lost` | finds `NoAcceptedLost` violated | as `mailbox_live` |
| `sync_pair` | `InStep`, `Settles` | one shared item, two edits among: append and delete on both sides, title on the higher id; one fault among a refused send and a host restart; mailboxes of two, two per Receive |
| `sync_faults` | `SentIsReal`, `NotesUnion`, `InStepUnlessParted` | one item not yet created, one note, two edits of any kind, one fault of any kind, mailboxes of two, one per Receive |
| `sync_stale` | finds `InStep` violated | one edit, no fault |
| `sync_overwritten` | finds `NothingOverwritten` violated | three appends or deletions, no fault, no edit between an engine's read of a row and its write (`CalmSpec`) |
| `sync_redelivery` | finds `InStep` violated | two edits, one pass cut short before its ack |
| `sync_echo` | finds `NotesNotEchoed` violated | one creation, no fault |
| `outbox_workers` | `NoneSkipped`, `OnlyLapsesRepeat`, `OneFate`, `ImplementsFanout` | two workers, one event, two subscribers, one of them for the project only, two attempts, one fault |
| `outbox_live` | `EventuallySettled` | one worker, two events in batches of two, one subscriber, two attempts, one fault |
| `service` | the types of the thirteen modules; `RetriesAgree`, `LoserServed`, `NoUnseenOverwrite`, `StatusLogHonest`, `CacheFresh`, `EmbeddingSound`, `EmbedderDrains`, `ForestUnlessRaced`, `PurgeDeliberate`, `RowsKeepBlobs`, `RowsOpen`, `OverLimitByRacersOnly`, `ImpactOnce`, `MirrorEnds`, `ReportSound`, `SettingsSound`, `LiveViewCurrent`, `NudgesHonest`, `ReadyNextSound`, `SearchAnswer` | two actors per module (callers, admins, uploaders, reporters, instances, requests, browsers; three tool calls), as listed below |

*The `service` run.*  The thirteen modules have no variable in common, so their
product says no more than each of them alone and has a hopeless number of states.
`MCService` therefore picks one component in its initial state (`active`) and runs
that one; the others keep still.  The states of the run are the sum of the states
of the components, some 750 000.  `Items` appears twice, once for creations from
an empty table and once for updates of an item that exists: a creation and an
update meet in deletions, which both have.  Where it bounds what happens:

- `Items`: two callers, two rows, two keys, three updates.  Two batches name the
  keys in opposite orders, so that they can wait for each other.
- `OrientCache`: two readers, two sections, one write that clears and one that
  does not.  Two readers are a leader and a follower, or an old and a new build.
- `Embedder`: two items and an activity row, batches of two, one text the API
  refuses and one whose vector is unusable, two edits, one outage or one refusal of
  the key.
- `Projects`: two projects, two requests, one object.  Two requests race each other
  into a cycle of two; longer cycles differ in the length of the walk only.
- `Attachments`: a limit of one, two uploads of two parts, one sweep.
- `ContextImpact`: two reporters, one key, three contents of which two differ
  under the key, two events.
- `Shares`: two instances and two hosts, two configurations, two mailboxes: one share
  with everything that can fail in it.  What two shares could do to each other needs
  four mailboxes, and is covered by the theorem.
- `Usage`: a window of a day against a retention of none, two days, two calls.
- `Settings`: two requests, two writes, two keys, one mishap.
- `LiveFeed`: two writers, two browsers, a buffer of one, two commits.
- `Sessions`: three calls of two sessions, sets that hold one.
- `Orient`: two items and one of another project, two links, two moves, limits of
  one, so that a blocked item can fill the list.
- `Search`: three rows, limits of zero and one and the default, every tier with
  any list, and failing.

*Why the bounds are enough to be of interest.*  With a backlog of two and one
message per Receive, a message can be leased, expired, queued behind a damaged
one and refused for want of room; three messages and two senders make one number
be written twice with a receiver holding the first.  One mailbox is enough for
host safety, since operations name one mailbox and only `MaxMailboxes` relates
them.  In the sync runs two edits can cross, follow each other on one side, and
meet a merge that is on its way back.  `MaxSeq` bounds how many messages a
mailbox ever takes; in `sync_pair` it does not bind (the state space is the same
for 6, 7 and 10), so `Settles` is not an artefact of running out of numbers.
In `outbox_workers` one subscriber can answer and the other refuse, in two
rounds, by two workers of which either may outlive its lease; events meet only
in a batch, which `outbox_live` has and the theorems cover for every size.

*The slices of the sync runs* are chosen because the properties do not hold of
every kind of edit, and the violation runs say exactly where they stop:
`sync_pair` is the use the merge is built for.  `sync_faults` has every kind of edit
and of fault, and says of them all why two silent copies differ when they do
(`parted`, section 2).  Outside `sync_pair`, `sync_stale` shows
that title edits by the lower id are lost, `sync_redelivery` that redelivery
rolls rows back.  Metadata and `closed_at` have no tiebreak in the merge at
all.  With three appends on two sides and no fault, or two edits and an
unanswered send, TLC finds the two copies of the body permanently different too
(check `InStep` in the `sync_overwritten` slice): the same cause as
`sync_overwritten`.

*What the violation runs show.*

- `mailbox_lost`: a Send writes message 1 and fails to save the counter; a
  receiver is handed it; the next Send, which is answered 202, overwrites number
  1; the ack of the first delivery deletes it unread.  The comment at
  `mailbox.go:249` calls this case harmless.
- `sync_stale`: the instance that first sends an item keeps an empty `base_hash`
  for it, as an unchanged row is never sent back.  Every later edit by its peer
  looks two-sided.  When the peer has the lower id its scalars lose the
  tiebreak, the merge is the sharer's old row, which is what `sent_hash` already
  says, and nothing goes back: the copies differ, in silence, after one edit.
- `sync_overwritten`: one instance sends an item and two later versions of it; the
  other appends a passage when it has applied the first.  The second version is
  merged with that passage and the merge becomes `base_hash` (`RecordMergedBase`,
  `engine.go:207`), so the third finds the row unchanged since base and is applied
  straight over the merge: the passage is in neither copy, and both engines are
  silent.  It takes three edits, one here and two there: with two the run passes.
  The run leaves out the other way to lose a passage, which needs two edits and no
  merge and which TLC, looking for the shortest trace, would show instead:
  `applyItem` reads the row, a user edits it, and `UpsertSyncedItem` writes over the
  edit (`engine.go:166-198`).  To see that one, give the run `Spec` for `CalmSpec`
  and two edits.  `CalmSpec` allows every step of `Spec` but an edit at that moment,
  so what it finds is a behaviour of `Spec`.
- `sync_redelivery`: leases last a minute and the engine polls every ten
  seconds, so after a pull that failed before its ack newer messages overtake
  the old ones, which then overwrite them on redelivery.
- `sync_echo`: activity listed after its item was created, and items listed
  before, reach the peer in the wrong order; the peer stores the activity without
  its item, records the hash of what arrived, and sends its own version back; so
  does the origin with that, and so on for ever.  (TLC finds no bound on the
  number of messages this one creation leads to.)

### Fairness

`MailboxDelivery!FairSpec`: strong fairness of each receiver's drain, apply and
ack, because the engine polls on a ticker (`engine.go:38-52`) and a failing step
is retried on the next pass, and is taken not to fail for ever; weak fairness of
lease expiry, because leases carry a deadline.  Nothing is assumed of senders,
faults or revocation.  `SyncPair!FairSpec`: weak fairness of each engine's pass
(the ticker), and of lease expiry; nothing of users and faults, which are finite
in number in any case.

`WebhookOutbox!FairSpec`: weak fairness of the worker's steps (the ticker of
`webhooks.go:59-70`, and the client's timeout of ten seconds, `service.go:56`,
which ends every POST) and of `next_attempt_at` passing.  Nothing is assumed of
writes, of what subscribers answer, of deletions and of the sweep.  Faults are
finite in number (`MaxFaults`): with a database that always fails nothing settles.

`MCService!ServiceSpec`: weak fairness of the embedding worker's own steps
(`Embedder!WorkerStep`), because the worker's goroutine runs until the process ends
and ticks (`embedder.go:37`), and a call to the API has a timeout.
`EmbedderDrains` is stated for edits and outages that end (`MaxEdits`,
`MaxOutages`): under an API that never answers nothing is embedded.  The other
properties of that run are safety and need none.

### Deadlock

Deadlock is checked in every run of the mailbox and of the sync engines.  The
outbox has a finite supply of events and webhooks and really stops when they are
used up; and in `service` a component that has used up its bounds, or has answered
its one search, stops.  Two batch creations that name the same keys in opposite
orders wait for each other's uncommitted rows: PostgreSQL breaks that deadlock by
failing one, which is a step of `Items`.

## 4. Proofs

All theorems hold for every value of the constants that satisfies the named
assumptions: any number of mailboxes, messages, senders and receivers
(`MailboxAssumption`, `NoRequestAssumption`); any number of workers, events,
subscribers and faults, any attempts and batches (`OutboxAssumption`); any rows, any
kinds and number of edits and faults, two instances with distinct numeric ids
(`SyncAssumption`); and any number of the actors and rows of the service's modules.
The assumptions of those (`ItemsAssumption`, `CacheAssumption`, `EmbedAssumption`,
`SessionsAssumption`, `ContextImpactAssumption`, `ProjectsAssumption`,
`AttachmentsAssumption`, `FeedAssumption`, `SharesAssumption`, `SettingsAssumption`,
`UsageAssumption`, `OrientAssumption`, `SearchAssumption`) say that bounds are numbers,
that "no key" and the like are not keys, and, where something is counted or sorted,
that the sets are finite; `ProjectsAssumption` that there are finitely many slugs.
`ContentAssumption` (`SyncPair`) says that no content is taken for an absent row or an
empty hash, that what an edit writes is a mark and not the sign for nothing or the
separator of two bodies, and that a damaged file is no envelope.
TLC evaluates every one of them.

| Theorem | Says |
|---|---|
| `MailboxProofs!TypeCorrect` | `Spec => []TypeOK` |
| `MailboxProofs!OnlyTornSendsLose` | an accepted message is stored until applied, unless its mailbox was revoked, its file was damaged, or its number was torn |
| `MailboxProofs!SeqsNeverReannounced` | no number is announced twice |
| `MailboxProofs!RevocationIsFinal`, `BacklogBounded` | as the properties of `mailbox_safety` |
| `MailboxProofs!DeliveryInOrder` | a message is handed out before an earlier readable one only while that one is leased |
| `MailboxProofs!HostImplementsCourier` | every step maps to a step of the courier or a stutter |
| `SyncProofs!MergeConverges` | both sides compute the same title, body and deletedness |
| `SyncProofs!MergeKeepsBoth` | both bodies are in the merge, and a deletion stands |
| `SyncProofs!MergeSettles` | merging the merge back into an input changes nothing |
| `SyncProofs!SyncTypeCorrect` | `Spec => []TypeOK` |
| `SyncProofs!SentHashIsReal` | `sent_hash` is never ahead of the wire |
| `SyncProofs!NotesAreUnion` | when both engines are silent the two databases have the same activity |
| `SyncProofs!OnlyPartingsDiffer` | when both engines are silent, their copies of a row are the same, unless it parted |
| `SyncProofs!InStepWithoutPartings` | as long as no row has parted, `InStep` |
| `WebhookProofs!OutboxTypeCorrect` | `Spec => []TypeOK` |
| `WebhookProofs!DeliveredSkipsNobody` | a delivered event was answered by all it was owed to |
| `WebhookProofs!RepeatsAreLapses` | a POST is repeated only after a lapse |
| `WebhookProofs!SettledOnce` | delivered or parked, not both, but for a lease that ran out in a worker's hands |
| `WebhookProofs!OutboxImplementsFanout` | every step maps to a step of the fan-out or a stutter |
| `ItemsProofs!OneItemPerKey` | two creations under one key are never answered with two items |
| `ItemsProofs!LoserIsServed` | who loses the race for a key gets the winner's item; refused are the empty key and a deleted item's |
| `ItemsProofs!VersionsGuard` | an update that named a version follows directly on the one that made it |
| `ItemsProofs!LogTellsTheChange` | the status log tells the change, unless another update came between read and write |
| `ContextProofs!CacheTypeCorrect`, `WriteThenOrient` | types; a bundle misses a clearing write only if the write ran while it was being built |
| `ContextProofs!VectorsOfCurrentText` | a vector is of the row's text, and a parked row has a text that was refused, unless the row was edited between listing and save, or the key was refused |
| `ContextProofs!NudgedOncePerReset` | one nudge per session and reset |
| `ContextProofs!OneEventPerKey` | a key is answered with one event, which holds what was reported |
| `ContextProofs!OrientTypeCorrect`, `ReadyWhileRead` | types; what orient calls ready was open and unblocked while its bundle was made |
| `ContextProofs!SearchTypeCorrect`, `SearchKeepsHits` | types; an answer keeps its limit, every hit there is room for, and the order all lists agree on |
| `StorageProofs!PurgeKeepsBlobs` | no project's row outlives its object, whatever purge runs beside the upload |
| `StorageProofs!PurgesAreDeliberate` | a purged project is archived and childless, unless that changed after the purge looked |
| `StorageProofs!LiveRowsOpen` | the object of a live item's row is there |
| `StorageProofs!LimitExceededByRacers` | the limit is exceeded by at most one for each further request in flight |
| `StorageProofs!CyclesNeedARace` | a cycle of parents goes through a parent written after its check was overtaken |
| `InstanceProofs!ViewsCatchUp` | a browser at rest shows the last announced write, unless it fetched between event and commit |
| `InstanceProofs!EndsMirror` | a share's two ends mirror each other; a mailbox is drained by one |
| `InstanceProofs!SettingsAreSound` | the snapshot follows the table; one wizard; a closed wizard has shown a key or was cut short |
| `InstanceProofs!ReportsAreSound` | no tool is called unused that was used; counts of sessions nest |
| `ServiceProofs!ServiceTypeCorrect` | `ServiceSpec => []ServiceTypeOK` |
| `ServiceProofs!ServiceKeepsPromises` | `ServiceSpec` implies every safety property of the `service` run |

*The mailbox argument.*  `LossNeedsTornSend` is not inductive: an ack deletes
files by number, so one must know that the number a receiver holds can, for an
untorn letter, only be that letter's.  `IInv` of `MailboxProofs` adds that
accepted letters lie below `NextSeq` with distinct numbers, that every stored file
at or above `NextSeq` is torn, and that what receivers hold was stored and is
either torn or still the same letter wherever that number is stored.  The same
invariant carries the refinement.

*The order argument.*  `NoOvertaking` is about one step, a Receive, and needs of the
invariant only that no two files share a number and that an idle receiver holds
nothing: the files before a handed one are then finitely many, and whichever of them
parses and is free was among the first `ReceiveLimit` before it was (`EarlierFinite`,
`HandedInOrder`).

*The sync argument.*  `SentIsReal` is not inductive either: an apply records as
sent what it received earlier.  `Heard` says that every message in hand, and
between read and write of an item the content about to be written unless it is
a merge, came out of the mailbox.  A merge is never recorded as sent
(`RecordMergedBase` leaves `sent` alone), which is the one place where the code
could get ahead of the wire.

*The notes argument.*  `NotesUnion` relates two databases, two mailboxes and what is
in hand, at rest; `NInv` says what joins them before.  A note is nobody's before it is
its origin's, and has one content but for the side that wrote an activity without its
item (`NoteOK`).  `ToldOK` is the heart: an instance that has the note and nothing to
say about it has told its peer, who has it or will read it (`UnreadAbout`); and where
two silent instances have it differently, one of them is about to read the other's.
`MailOK` and `HandOK` keep a message readable until the pass that took it is done with
it: only its own reader acks it, and redelivery hands out the same letter.

*The agreement argument.*  `InStep` is false in general, so the question is what makes
two silent copies differ.  `OnlyPartingsDiffer` answers it for any rows, edits and
faults: nothing but the three events of `parted`.  What the merge computes plays no
part.  Two facts hold of a row that has not parted, in every state.  `WordOK`: the
newest letter about it still on its way is what its sender last said, or the sender has
more to say.  `AgreeOK`: once no letter about it is unread on either side, both have
the same as their last word, or one has more to say.  At rest neither has, and then the
rows themselves are the same.  A step that takes in a message keeps `AgreeOK` because
whoever does so falls silent on what it just heard or goes on speaking, and because of
batches (`BatchOK`): what is applied is the earliest letter, unless one was overtaken.
A step that edits keeps both because the edit is never what was said before: each edit
writes a mark of its own, and `MarksOK` says that no content anywhere, in a database, a
sync state, a hand or a mailbox, has a mark of an edit yet to come.  So an instance
that edits has more to say.  An edit that restores by hand exactly what was sent
before is outside the model (section 5).

*The merge argument* rests on containment of sequences being reflexive and
antisymmetric (`ContainsSelf`, `ContainsAntisymmetric`) and on a joined body
containing its parts (`ContainsParts`).  Together with `sync_stale` and
`sync_overwritten` it locates the trouble: the merge is right, and it is
`base_hash` that decides wrongly when to merge.

*The outbox argument.*  `NoneSkipped` speaks of rows, and what makes it true is
in a worker's hands: `Covered` says that while no POST has failed, whoever the
event is owed to has answered or is still on the worker's list.  That holds at
the lookup because what is owed is still registered and what the copy has as
served has answered (`ServedAnswered`), and it holds under two workers and any
crash, because it never mentions the row.  `OnlyLapsesRepeat` and `OneFate` do
depend on who else is there: `Lone` says that an event is held by one worker
unless its lease ran out there, and `Exact` that the answers of an event that
never lapsed are all known to its row, its copy or its worker, whoever has it.

*The fan-out argument.*  `Fanout` has no worker, lease, copy or attempt.  That the outbox
implements it adds two things to the properties above: a POST goes to a subscriber the
event is meant for and that was registered once (`Addressed`, of the list a worker
made at its lookup), and an event is parked only if some such subscriber has not
answered it (`Unanswered`: whoever failed a worker is not on its list any more, and has
not answered anyone, since until a lapse nobody else has the event).  A settled event
stays settled until it is swept or its project goes.  The rest of the mapping is in
`IInv`: `Covered` for what is delivered, `Lone` for what is settled once, `Exact` for
what is POSTed once.

The comments on the queries promise more than that: "concurrent workers never
grab the same event" (`webhooks.sql:35`) and "no duplicate deliveries"
(`webhooks.sql:52`).  Both hold up to `overrun` and `unreported`, which is to say
that a batch of fifty with POSTs of up to ten seconds must finish within the
minute of its lease; one process, as deployed, meets only the crash and the
failed report.

*The items argument.*  What a caller was answered says nothing of who else holds
its key.  `OneHolder` is the unique index itself: one row per key, deleted rows
included, which is why a winner found once is the only one for good.  It survives
the insert because an insert waits for a pending row with its key, and `Owned`
says that a pending row belongs to a transaction that can still roll back.  For
updates, `ReadersHold` says what a transaction knows between its read and its
write: no version the row has not had, and under the version the row still has,
its status.  `RowMatchesLog` makes a row what its updates have made of it.

*The cache argument.*  `CacheFresh` is about a bundle that is stored long after it
was built.  `BuildSees` says of a build at work that each answered write that
clears was seen, came meanwhile, or concerns a section still to be read; at the
last read the third case is gone.  Writes that do not clear are outside it
(section 6).

*The orient argument.*  `ReadsOK` says of each parallel read what it returned when:
it is inside the histories of what was open and free since the bundle was begun
(`HistoryOK`), and is what the rows say as long as nothing moved.  `ReadyNext` takes the
first of a list that was cut already; that taking the first few commutes with cutting
first is a fact about cardinalities of initial parts (`Below`, `FirstCardinality`).

*The search argument.*  The merged list is stated by places: a row stands behind the
rows that go before it, by score and then by where it was first met.  `BeforeOrder`
shows that to be a strict total order of a finite set, `Places` that it then gives each
row a place of its own and leaves none free, so the list has every row once.  A row that
every list puts ahead has the greater sum of weights (`WeightFalls`, `AheadBefore`), or
the same and was met first.  Scores are integers here: the sums of the code are
floating point and may break ties of equal sums otherwise.

*The worker argument.*  `CopiesCurrent`: the copy in the worker's hands is of the
row's text, or the row has been edited since it was listed (`raced`), which is what
an edit of a row that has no vector yet does unnoticed.

*The session argument* is one of counting: `Ledger` says that what a session was
given, and what calls at work still owe it, is what the set forgot of it and what
it holds.  `sync.Map` without a lock is enough because `LoadOrStore` decides.

*The impact argument.*  `EventsDistinct` and `RepliesReal`: whoever was told of an
event was told of a stored one, and the index leaves one to a key; nothing ever
deletes a single event.

*The purge argument.*  `PurgeKnows` and `KeysKnown` say what a purge has looked at:
its project is as it was when it looked, or the request is marked `moved`; and the
objects on its list have no row, or one that goes with the project.

*The forest argument.*  A cycle is reachability, and reachability is a least closed
set: the rounds of `Descendants` are shown to reach the least set that holds the project
and, with each project, its children (`DescendantsLeast`, `DescendantsUp`).  So the invariant speaks of sets and not of
paths: `NoCleanLoop` says that a set of projects that each have their parent in it
holds one whose parent was written after its check had been overtaken, and
`WalkHolds` that a request about to write has walked up from its new parent without
meeting its project, witnessed by a set closed under children that has the one and not
the other (`Apart`), unless it is marked.  When the tree changes, whoever's witness it
breaks is marked by the same step (`OvertakenWalks`).

*The attachment argument.*  `MissingKnown` confines missing objects to items some
sweep began on and to rows whose commit was answered with an error; `UploadKnown`
and `UploadsApart` say that the object of an upload at work is on no one else's
list.  For the limit, an upload in flight adds at most one row, and who passes
the count has counted every row there is: rows and passed uploads together grow only
by a count that saw fewer rows than the limit, beside at most all the other uploads.

*The feed argument.*  `ToldNotAtRest`: whom an open transaction has told, and who
has not fetched or subscribed since, has a frame or a fetch to come.  When the
transaction commits, every view that is old is of such a browser or of one that
fetched too early.

*The shares argument.*  `Paired` says of any two ends, in rows and in invites, that
they are of one pair of mailboxes or share none; `HeldApart` that the mailboxes a
`ShareProject` has created but not yet written down are nobody's; `OneSharer` and
`JoinersAccepted` trace two drains of one mailbox to an invite accepted twice.

*The settings argument.*  `ReadsHold`: what an undisturbed reload has read is in the
table still.  `WizardsApart`: whoever has passed the check under the lock holds the
lock, and until it mints no other has, or every key was revoked since.

*The usage argument.*  The report's statements see different tables, since calls
are recorded and swept between them.  `CallsKept` bounds the sweep, `StatsCover`
says that an answered aggregate has every kept call of the window; the counts of
sessions are of one statement each, and nest by what they count.

*The service argument.*  The components share no variables.  Whatever the step, each
takes one of its own or none (`StepOfEach`), so a behaviour of the service is one of
each component (`RunsComponents`), and what was proved of them carries over; the items
alone may start with a live row, and `ItemsOfService` starts their induction anew.
`UsageTypes` and `SettingsTypes` add to the types what bounds the counters: calls by
`MaxCalls`, wizards by the keys they made, identities by mishaps.

*Induction.*  The library's induction theorems take an operator, which the provers cannot
instantiate.  Where induction is needed it is done on sets: a non-empty set of numbers
has a least element (`NatLeast`, `LeastNumber`, from well-foundedness), so a set that
holds 0 and the successor of each of its numbers holds them all (`NatInd`,
`CountingUp`).  The finite iteration of `Descendants`, a recursive function, and the
sorting of `Search` are proved that way.

*Only model-checked.*  `EventuallyDelivered`, `CorruptNeverWedges`, `Settles`,
`EventuallySettled` and `EmbedderDrains` are liveness under fairness, which TLAPS
cannot prove, as it cannot reason about ENABLED.  `InStep` holds of the slices of edits
of `sync_pair` and not in general (section 3: the counterexamples with three appends),
so there is no theorem of it for every size; `InStepWithoutPartings` is what there is
instead, and on the slice itself it is the merge that mends what parted.  No module with a theorem reaches a
RECURSIVE operator.

## 5. Not modelled

*Of the modelled components:* sealing (XChaCha20-Poly1305), JSON and HTTP; unknown
message kinds and our own mail coming back, both of which the engine discards;
several shares of one project; peers of different versions; in `SyncPair` edits that
restore a former content, since each writes a mark of its own (between a merge and
the next push such an edit would fall silent like a merge that comes out as what was
sent); clocks (leases expire at any time, tickers are fairness); `/healthz`, tokens,
file permissions; the lengths and formats of fields; the order of lists where no
property is about it; in `Orient` the page `next_action` cuts from the ready items
(twenty unless asked otherwise, in an order of its own among items of one priority);
in `LiveFeed` the orient cache between a browser's refetch of a project's context and
the tables (what it can add to staleness is the matter of `CacheFresh`); in `Usage`
the aggregates over searches, in-flight items and impact rates.

*Components left out, and why:*

- The rate limiter (`ratelimit/ratelimit.go`): a map of buckets under one mutex and
  arithmetic on the clock.  Nothing is interleaved; a unit test reaches all of it.
- Authentication, DTOs, public pages, metrics, the update checker: they decode,
  check and format one request and keep no state but a time of last use and a cached
  answer.
- Certificates: a CA is read or made at start and signs; cryptography and files.
- The generated store (`store/*.sql.go`): no component of its own.  Its statements
  are modelled where they are used; the listings and aggregates that only fill a
  page are not.
- Feature summaries, activity search, `veccache` (a pure memo), pgvector's
  distances: read-only and without a schedule, or outside the repository.
- Commands, migrations, deployment; the web UI except its use of the event
  stream, and the bug widget: start-up, SQL schema and rendering.

## 6. Where code and comments part

Met while modelling, besides the five that have a violation run (section 3).  They
are behaviours the models have and the properties name as their excuses:

- *Items.*  The index of idempotency keys covers soft-deleted rows, the lookup does
  not: the key of a deleted item is refused until the sweep takes the row, thirty
  days later.  REST passes the key "" on, MCP makes it NULL.  A batch that loses one
  key fails as a whole.  A soft delete between read and write of an update is
  reported as a conflict.  A synced row overwrites `deleted_at`.
- *Orient cache.*  "every write clears it" (`cache.go:8-10`) is not so of REST
  `deleteItem`, links and references, REST project writes, MCP
  `set_project_instructions` and `update_project_summary`, and synced rows; for those
  the bundle is stale until its TTL.  `ready_next` is chosen from the truncated open
  list and regards archived projects, `next_action` does neither.
- *Embedder.*  The comment of the guarded UPDATE says a racing edit cannot be left
  with a stale vector; it can while the row has no vector yet.  `IsPoison` "reports
  whether err means the input itself was rejected" (`embed.go:109`), yet takes a 401
  or 403 too: under a bad key a batch is sent row by row and rows with nothing wrong
  are parked, an item until it is edited, an activity row for good (`denied`).
- *Projects.*  `PurgeProject` removes the objects after the rows, its comment says
  before; it deletes by slug alone, whatever became of the project since the check.
  Crossed parents are not repaired by the next validated change.
- *Attachments.*  After a commit whose answer was lost the object is deleted under
  its row.
- *Live updates.*  "every mutation writes an event" (`hub.go:5`): updates that keep
  the status, and deletions, do not.  The promised refetch on reconnect
  (`hub.go:9-10`) is not in `App.tsx`.  The event is sent inside the transaction, so
  a browser may refetch too early.
- *Sessions.*  A late `Store(0)` leaves the counter below the size of its set.
- *Usage.*  A report covers up to ninety days; calls are kept for sixty.
- *Settings and shares.*  The mailbox configuration is five rows written one by one.
  A reload that cannot
  read stores an empty snapshot, where its comment says it keeps the previous one
  (`settings.go:38-41`).  A wizard that fails after its
  first key leaves setup closed.  `InstanceID` is read once, at start, and a failed
  read makes a new one.
- *Links.*  Cycles of `item_links` are not refused.
- *Search.*  A limit below the threshold of thin recall always runs the later tiers.

## 7. What is left

1. A refinement for the engines, as `Courier` and `Fanout` are for mailbox and outbox.
2. Larger instances: two shares at once in `Shares`, two items in `SyncPair`, three
   projects in a cycle.  What each would add is named in section 3.
