# Firenook in TLA+

TLA+ models of Firenook: its Firestore core (the versioned store, its disk backend,
listen targets and streams, transactions), the browser console's editors, lists,
forms and live channel, and the npm launcher. TLC checks them on small instances.
TLAPS proves the safety properties of the Firestore core for every value of the
constants. `PROJECT.json` maps each definition to the lines it stands for. Paths
below are relative to `src/`.

The models cover a small part of the repository by lines. The crates that are not
modelled are listed at the end, with the reason.

## The system

| Part | State | Operations | What is hard about it |
|---|---|---|---|
| Store state (`crates/core-store/src/lib.rs`) | documents, revision, bounded change log and commit points, their floors | commit, snapshot at a revision or a time, changes since a revision, reopen | eviction splits a commit; the clock stands still or steps back |
| Disk store (`crates/core-store/src/disk.rs`) | redb, write-ahead journal, field index, usage figure, notes | commit, flush, bulk load, open and replay, close | crashes and power cuts between steps; a step that fails half-way |
| Watch targets (`crates/watch-broker`, `IncrementalQuery` of `crates/query-engine`) | visible documents, cached sort keys, revision | initialise, apply touched keys, full refresh | a batch moves several keys across a window's edge |
| Listen streams (`crates/grpc-front/src/listen.rs`) | active targets, response buffer | add, remove, resume, refresh | several reads of a store that moves; tokens after a broken stream |
| Transactions (`crates/grpc-front/src/service.rs`) | open transactions and their reads, the write lock | begin, read, commit, roll back | resent commits, a rollback racing a commit, writers without the lock |
| Clearing endpoints (`crates/rest-front/src/lib.rs`) | none of their own | delete batches of keys | they commit without the write lock |
| Live channel (`console/src/lib/live`) | leader, relay, subscriptions, cursors | elect, subscribe, relay, resume | tabs, streams and the engine come and go while requests are out |
| Lists of rows (`console/src/components/console/use-cursor-rows.ts`) | a window of cursor pages | load, read again, slide, patch | answers that land after the list moved |
| Console editors and forms (`console/src/auth`, `rules`, `pubsub`, `firestore`) | drafts over what was last read | edit, save, create, import | the same thing changed elsewhere; late answers |
| Console flows (`console/src/storage`, `functions`, `logs`, `messaging`, dialogs everywhere) | queues, feeds, counters, openings | upload, run, follow, confirm | requests that outlive what they were sent from |
| npm launcher (`packages/cli/src`) | builds, engine, command; the terminal's lines and task | start, exec, init, stop | processes end in any order |

The disk store keeps the store state in memory beside its files. Listen streams
and transactions read snapshots of the store. A listener is woken by commits and
polls once a second. Commits of the gRPC and REST frontends share the rules
runtime's write lock. The console reads the engine over HTTP and follows it over one
event stream per browser, which one tab owns and relays to the others. The launcher
is the parent of the builds, of the engine and of the command of `emulators:exec`.

## Modules

| Module | Models | Run |
|---|---|---|
| `SnapshotStore` | what the store promises its readers: windows of revisions and of read times | `mvcc`, as the property `ReadsStable` |
| `MvccStore` | `State` of the store | `mvcc` |
| `DiskStore` | `DiskStore`, `Journal`, flusher, bulk commits, notes, open | `disk`, `disk_torn_tail` |
| `WatchTarget` | evaluating and refreshing one target, as operators | through the next two |
| `TargetRefresh` | one target following a store, and a client applying its batches | `listen` |
| `Listen` | a stream with several targets, the store and the client | `listen`, `listen_reconnects` |
| `Transactions` | transactions, the write lock, plain writes, clearing | `transactions`, `transactions_missing_get` |
| `LiveChannel` | tabs, the leader, the relay, the engine's hub, for one topic of each kind | `live` |
| `CursorRows` | `useCursorRows` over a list that changes in the engine | `cursor_rows` |
| `AuthUser`, `AuthCreate` | an account's inspector; New user and Import | `console_editing` |
| `RulesDraft` | drafts of rules per scope, checks, apply and save | `console_editing` |
| `PubsubForms`, `PubsubPages` | settings and create forms against the broker's bounds; the topics page and its address | `console_editing` |
| `DocumentEdit`, `CellEdit` | a document by fields or as JSON; a cell of the grid | `console_flows` |
| `Uploads` | the upload queue, its tray, and the pool of slots | `console_flows` |
| `RunForms` | a function's Run tab and its streams | `console_flows` |
| `LogFeed` | the log page's feed over the engine's ring | `console_flows` |
| `Counters` | a list patched by the frames of a counters topic | `console_flows` |
| `Surfaces` with `SurfaceKit`, `SurfaceCatalogue` | every dialog, confirmation and button that sends a request | `console_flows` |
| `Launcher`, `SetUp`, `TerminalLog`, `TerminalTask` | the processes; `init`; the terminal's lines and footer task | `launcher` |

Proofs: `MvccStoreProofs`; `TransactionsProofs`; `DiskStoreInvariant` and
`DiskStoreProofs`; `ListenProofs`, `ListenConversation` and `ListenClientProofs`;
`CursorRowsProofs`. Each extends the module it is about; the inductive invariants of
`Listen` are stated in `ListenInvariants`, which the three about it share.

`MC...` modules give the constants their values. `MCTargetRefresh`, `MCEditing`,
`MCFlows` and `MCLauncher` put several components side by side: the first state
chooses the one whose behaviour is followed, and the variables of the others stay
as they are. The components of one such run do not interact.

**MvccStore.** Variables carry the names of `State`'s fields. `commit_from` is
the whole commit: planning, the commit time, installing, and both evictions.
`from_persisted` is a reopen, which empties the log. `history` and `times` are
ghosts that remember every revision. A document is an opaque value with its
times. Byte budgets count one unit per retained version. `SnapshotStore` sees of it
the newest revision, what each retained revision is answered with, and the times a
read time can name.

**DiskStore.** Every operation holds the store's mutex, so operations do not
interleave. An operation is cut into steps where a crash would leave a different
disk: append, persist, sync, durable commit, truncate. `visible` is redb as the
process sees it, `durable` the file, `journal` and `synced` the journal's frames
and the part on stable storage. `Crash`, `PowerLoss` and the failing steps may
happen wherever the code could meet them. `owed` records which revision an open
must recover.

**WatchTarget and TargetRefresh.** A document is reduced to whether it matches,
where it sorts, and its update time. `apply_touched` handles keys in key order;
`Enters`, `Stays` and `Leaves` are the arms of its match. In `TargetRefresh`,
`Commit` writes or deletes any set of keys, `Expire` loses the history, `Refresh` is
`refresh_with_changes`.

**Listen.** The stream task handles one request or refresh at a time. It is cut
where it reads the store: the snapshot (`StartAdd`, `Wake`), the baseline of a
resumed target (`Initialize`), the change history (`ReadHistory`), the evaluation
and its sends (`Evaluate`). Commits happen in between. A full response buffer
holds the task before its next request or refresh. The client is external: it
applies documents to a pending view, keeps that view at a checkpoint, and resumes
from the checkpoint's token. Rules decisions are nondeterministic. The store is
assumed to read back exactly above its floor, which is what `SnapshotStore` states
and `MvccStore` is proved to implement.

**Transactions.** `LockCommit`, `Validate`, `Install` and `Answer` are the commit
under the write lock; `LockWrite` is a write outside a transaction. `Validate`
may always fail, which stands for a rules denial. `ClearSnapshot` and
`ClearCommit` are the clearing endpoint, which deletes without the lock. The
code deletes up to 500 keys per commit; the model deletes all it found. A version
is the revision that wrote it; `VersionsIdentified` of `MvccStore` justifies
identifying it with the update time the code compares.

**LiveChannel.** One topic, resumed in one of the four ways the topics use. A page's
`at` is what it shows; the engine's `version` is what it should show. Faults (a
hidden or closed tab, a dropped stream, a restarted engine, a lost or refused
request, an ended topic, a page left) are actions with a budget per kind of topic.

**CursorRows.** A request is sent, read by the engine and delivered in three steps.
React Query is external: a page fetch remembers the pages it started from and lands
over whatever is held by then.

**Editors and forms.** Each keeps what the engine holds, what the page last read, the
draft and the requests in flight, and lets the engine's side be changed elsewhere at
any time. `Surfaces` is one state machine for all dialogs and buttons;
`SurfaceCatalogue` describes each of them, section by section, as a record of how its
source treats a request: where its state lives, what opening resets, what dismissal
waits for, how a failure is said.

**Launcher.** A process ends at one moment and the launcher hears of it at a later
one. What follows an await whose last promise just settled belongs to the step that
settled it.

## Runs

| Run | Shows | Bounds |
|---|---|---|
| `mvcc` | retained revisions, read times and changes are exact; a version has one identity; the store implements `SnapshotStore` | 2 keys, logs of 3, 5 revisions, a clock reading 1 or 4 |
| `disk` | an open store shows one whole revision, recovers what it owes, keeps index, figure and notes in step; acknowledged commits become durable | 2 keys, 3 commits, every combination of options, no torn frames |
| `listen` | views and tokens are exact across siblings, resumes, resets and a broken stream; and, for one target of every kind, the incremental view is the evaluated one and its batches lead a client to it | stream: 2 targets, 2 keys, 2 revisions, 2 listens, 1 disconnect, a buffer of 1; target: 3 keys, 2 sort values, 1 refresh |
| `listen_reconnects` | the client settles on the latest documents | 2 targets, 2 revisions, 1 listen, 1 disconnect, a buffer of 2 |
| `transactions` | one installation per transaction, rollback is final, reads are checked, answers are the commit's own | 2 transactions, 2 sends each; 1 key, all read methods and clearing with 4 revisions; 2 keys and batched reads with 3 |
| `live` | what is watched is taken by the engine, pages show what it holds or know that they do not, a feed has no hidden gap | 2 tabs with a page each, 1 fault, a ring of 1, 2 or 3 versions |
| `cursor_rows` | no row shown is out of date once all is quiet, and the window is the list | 6 keys, pages of 1, a window of 2 pages, 3 changes, 3 loads |
| `console_editing` | saves write what their author saw; forms and broker agree; the address, the rules editor and its checks are of what is shown | 2 edits, 2 requests, 1 change elsewhere, per editor |
| `console_flows` | documents, uploads, runs, logs, counters and surfaces: see the properties' comments | 2 fields, files, rows or openings; 3 runs; 4 log lines |
| `launcher` | exit codes and last words are of what happened, nothing is left behind, `exec` passes on the code, each line is printed once | 2 codebases, one of them watching; 2 calls, 4 lines; 2 tasks |

Why the bounds are enough to be interesting. Three log entries let eviction split
a batch of two changes, and five revisions pass the floor more than once. Three
disk commits reach a flush between two of them and a crash after each. One refresh
of the single target suffices because `ViewExact` covers the sort keys too: after it
the target is one that `initialize` could have made, and `Init` ranges over every
content. Two targets and one disconnect reach a checkpoint sent for one target while
its sibling lags; windows are the single target's subject, as the stream's commits
write one document shape. The first setup of `transactions` has one key because two
exceed what TLC finishes with every read method. A window of two one-row pages over
six keys loses and gains pages at both ends. A feed needs three entries to lose one
from a ring of one. In the console, two requests of one surface are enough for one
to be answered after the other opening began. For the Firestore core the theorems
below remove the bounds.

`live` is cut with a constraint (`DroppedFeedAlone`): for a feed, a dropped stream is
followed with one page in use, and two pages to two entries. A feed's subscriptions
share nothing in the engine. Its symmetry exchanges the two tabs with their pages.

Two runs must find a violation, each with an entry under "findings":

| Run | The code | The text it departs from |
|---|---|---|
| `disk_torn_tail` | a full-length tail frame with wrong bytes fails the open as corrupt | `DESIGN.md:68` |
| `transactions_missing_get` | a missing document read by GetDocument is not checked at commit | `COMPATIBILITY.md:122` |

`CHECK_DEADLOCK FALSE` stands where the bounds end the run: after the last
revision, listen, send or edit nothing is left to do. `disk` is checked for deadlock.

## Where properties make exceptions

A property that the code keeps except in cases we understand says so and is checked
outside them. The exceptions are history variables or named sets, so that they stay
visible.

- `ConflictsAbort`, `AnswersOwnWrite`: not in a setup that clears the database. The
  clearing endpoints (and the console's batch delete) commit without the write lock.
- `CursorRows`: `lost` (a batch aborted by the next one after its keys stopped
  waiting), `marred` (a page fetched while a batch was out, a loaded page emptied, a
  cursor that no longer stands at a row, a row that changed while being read). In the
  last three the table can show a row twice or miss one (`use-cursor-rows.ts:363`).
- `LiveChannel`: `Without(...)` names the faults each claim excludes. A tab hidden, or
  a page left, while a POST is out can strand a subscription until the next change; an
  invalidation topic tells nothing of what changed while no stream was there.
- `AuthUser`: `crossed`, a second factor changed before the first change was read
  back: the list is written from what was shown.
- `RulesDraft`: `lost`, an answer that finds the editor at another text or scope drops
  that draft. `rejected` diagnostics (`draft.ts:65`) may outlive their text.
- `PubsubPages`: a dead-letter policy removed elsewhere under an open dead letter; a
  palette command over an open dialog.
- `DocumentEdit`: `TypesSurviveJson` is said of rows with distinct names; `mapEntries`
  takes the last of a name. A remounted inspector drops its edits.
- `Uploads`: `early`, a file cancelled during the rules dry run is sent all the same
  (`uploads.ts:325`, against the comment at line 7).
- `RunForms`: `crossed`, an action answered while the last one was still on its way.
- `LogFeed`: `mixed`, a view opened while paused and resumed, and older lines that
  arrive when their row has left the front.
- `Counters`: a tab that joins another's subscription after a frame passed it by
  (`channel.ts:362`), and a list read while more than `Limit` frames arrived.
- `Surfaces`: the sets in `MCFlows` name the surfaces that keep a failure of an earlier
  opening, close on a late answer, can be pressed twice, or fail silently.
- `Launcher`: a hub listing heard after the engine ended by itself starts the command
  all the same; a command ended by a signal never passes on a code
  (`runtime.mjs:340`), although `docs/getting-started.md:233` promises one; a stop
  before the command ran exits 0; a first build slower than two minutes counts as
  failed. Builds are detached and outlive a launcher that is killed.
- `TerminalLog`: lines cut by a resize before their frame. `TerminalTask`: a watch that
  ends in a compile leaves its task.

Observations on the core without a run. `apply_touched` lists an evicted key before
the key that takes its place (`crates/watch-broker/src/lib.rs:252`), so a batch is not
always in document-key order as the comment at line 58 says; an entry evicted and
deleted in one batch is reported as removed. A store run with the journal, crashed,
run with `--no-wal` and then with the journal again replays the first run's frames: a
commit that the middle run did not show comes back. `--no-wal` is documented as an
unsafe opt-out, so `DiskStore` keeps one journal setting for the life of a store.

## Fairness

`disk` assumes that a thread inside an operation goes on, and strong fairness for the
flusher taking the mutex. The standard library promises no fairness of its mutex. The
assumption is that commits, which release it after every operation, do not keep the
flusher out for ever. A crash and a fenced store discharge `FlushedEventually`, they
are not excluded.

`listen_reconnects` assumes that the stream task goes on (`run` is a loop with a
one-second poll, so no notification is needed), that the client reads its
responses, and that it asks again for what a broken stream lost. Nothing is
assumed of commits, disconnects or new listens, which are bounded. With its one
listen the run does not show that a target settles beside a sibling added later;
that the sibling's checkpoint certifies nothing false is `CheckpointExact`.

`launcher` assumes that Node's event loop takes what waits for it, that the hub of a
running engine answers or its request times out, and that an engine asked to stop
ends. A command is not assumed to end: `PassesOnTheExitCode` starts when it did.

## Proofs

The theorems hold for every value of the constants that satisfies the named
assumptions of the modules: limits positive or natural, sentinels (`Absent`,
`Nobody`) outside the sets they stand beside, keys finite where the code counts or
orders them, specifications and setups of their type. None bounds the number of keys,
targets, transactions, commits or crashes. Where a module caps a counter for TLC
(`MaxRevision`, `MaxCommits`, `MaxSends`...), the cap is an arbitrary natural number.

| Module | Theorem | States |
|---|---|---|
| `MvccStoreProofs` | `TypeCorrect`, `SnapshotsCorrect`, `ChangesCorrect`, `ReadTimesCorrect`, `VersionsCorrect` | `TypeOK`, `SnapshotsExact`, `ChangesComplete`, `ReadTimesExact`, `VersionsIdentified` |
| | `ReadsStay` | the refinement of `SnapshotStore`, `ReadsStable` |
| `TransactionsProofs` | `EndsOnceAlways`, `CheckedReadsAlways`, `AnswersOwnWriteAlways` | the properties of those names |
| | `ExistingConflictsAbortAlways` | `ConflictsAbort` for documents that existed, by every read method |
| | `ConflictsAbortAlways` | `ConflictsAbort`, where a setup clears or reads by `BatchGetDocuments` only |
| `DiskStoreProofs` | `ShowsItsRevisionAlways`, `DerivedExactAlways`, `RecoversWhatIsOwedAlways` | the properties of those names, torn frames included |
| | `NeverCorruptAlways` | `NeverCorrupt`, where power cuts leave no torn frames |
| `ListenProofs` | `ViewsExactAlways` | `ViewsExact` |
| | `RefreshWithChangesExact` | `refresh_with_changes` returns the full evaluation, and a batch that leads a client to it |
| `ListenClientProofs` | `CheckpointExactAlways`, `NoFalseFilterAlways`, `TokensCertifyAlways` | a token certifies what the client holds, and no filter is sent |
| | `TokensAdvanceAlways` | `TokensAdvance` |
| `CursorRowsProofs` | `RowsInvariant`, `ShownIsCurrentAlways` | the inductive invariant; `ShownIsCurrent` |

The two extra hypotheses are not conveniences: without the one of
`ConflictsAbortAlways` the run `transactions_missing_get` is a counterexample, and
without the one of `NeverCorruptAlways` the run `disk_torn_tail` is.

**The store.** The inductive invariant `IInv` adds to the properties what they need
to survive a commit. `LogOrdered`: the log's revisions never descend and none is
newer than the current one. `PointsContiguous`: commit points name consecutive
revisions up to the current one, starting after the history floor, which is never
behind the change floor. `TimesIncrease`: commit times grow with revisions, and no
document is newer than the commit that left it. And the last entry of `history` is
the current documents. Without the order of the log, eviction could drop a change of
a revision that is still claimed; without contiguous points, a read time could fall
between two of them. Planning a batch yields the new documents and a log suffix that
leads from the old documents to the new ones (`PlanCorrect`); appending it and
evicting a prefix keeps every revision at or above the new floor (`LogStep`).
`ReadsStay` follows: initial states map to initial states, a commit maps to
`Publish` and a reopen to `Forget`.

**Transactions.** `OpenInv`: every recorded read and every answer of an open
transaction is of its snapshot, and every answer the code records is recorded.
`LockInv`: outside a setup that clears, the revision under the lock is the current
one until the write is installed; a commit past validation agrees with what its
client was answered. `InstalledInv`: writes were installed at most once, on a
revision that agrees with the answers. `take_transaction` removes the token when
the commit is validated, whatever comes of it, which is why a resent commit finds
nothing: `OpenInv` says that an open token is not about to be installed.

**The disk store.** The invariant is split by the phase of the process. Down: the
journal's file, in either state a power cut may leave, continues the redb file
(`Continues`: its frames start at most one revision after redb's and lead from one
`history` entry to the next) and reaches what is owed. Opening: what was replayed is
a prefix of the journal, and an index found valid stays so. Up: the journal also
continues what readers see. Running and not fenced: memory and redb agree
(`Settled`). A commit between its journal and redb, and a bulk load in its
transaction, have conjuncts of their own. `Kept` is what needed finding: the part
of the journal on stable storage is a prefix of the journal or, when a truncation has
not reached the disk, holds nothing that redb has not. `DiskStoreInvariant` has the
invariant and the steps of the flusher, notes and bulk loads; `DiskStoreProofs`
commits, crashes, power cuts and opens.

**Targets.** `ListenProofs` first proves `ApplyTouchedExact`: whenever `apply_touched`
does not give up, the documents and sort keys it leaves are those of a full
evaluation, its batch leads a client from the old view to the new one (`Leads`), and
it reports what is stored (`Reports`). A window is a set of keys with rank below the
limit; lemmas say how one key entering, staying or leaving changes it
(`WindowWithRoom`, `WindowEvicts`, `FullEnters`, `FullStays`...). The loop over the
touched keys is a fold; the invariant after each key is that the working view is that
of the documents with the keys so far replaced (`LoopFollows`).

**Streams.** `ListenInv`: every target shows the content of its revision, and what the
task holds across its awaits stays good while commits go on: the initial view is of
the snapshot, and the history names every key that changed since any lagging
target's revision or is marked incomplete. `ViewsExact` follows.

**The client.** Whether a token certifies what the client holds depends on what is
still in the channel. The invariant therefore speaks of the conversation: for each
target there is a state `e` that the client will be in once it has read every
response on its way (`Talk`), every state on the way is certified, and `e` agrees
with the requests on their way, the one in hand and the stream's targets (`Agrees`):
when `e` is listening, its pending documents are the target's and its token is not
ahead of it; when it has asked, one request carries its token. `Prepared` says that
what the task has computed for a resumed target leads from the view at its token to
the view at the snapshot, and that no filter is due. An action that sends appends to
the talk of each target; `Receive` takes its first step; `Disconnect` drops it. The
conversation, as facts about any values, is `ListenConversation`; the steps are
`ListenClientProofs`.

**Lists of rows.** `RowsInv` accounts for every row that may be out of date. Its key
is named by an event on its way, waits for the next batch or was given up (`Due`), or
is in the batch that is out (`Asked`); or the window is being read whole. What a
batch, a single page or a page fetch has already read obeys the same rule, since the
engine may change a row between the read and its landing. That only one kind of read
is out at a time (`OneRead`) is what makes it inductive: a batch lands on pages that
differ from the list only in its own keys and in those still due. The exception of
`ShownIsCurrent`, a page fetched while a batch was out, is where it stops holding: the
fetch lands over the patched rows with the pages it started from. `PatchedCurrent`,
`JoinedCurrent` and `WindowCurrent` say what patching, joining two reads of a page and
sliding the window keep.

How the provers' limits were met. The library's induction theorems take an operator
and cannot be used; induction is over a set of naturals closed under successor
(`SetInduction`), or over the subsets of a finite set of keys (`KeyInduction`).
`MapThenFoldSet` is a CHOOSE of a recursive function: `FoldExists` and `LoopExists`
show that such a function exists and give its equation. A lemma about a step takes
the primed values as constants.

Only model-checked: all liveness (`FlushedEventually`, `Settles`,
`PassesOnTheExitCode`) and `ENABLED`, out of the prover's reach; `BatchesExact`, of
which the theorems above contain the part about operators but not the behaviours of
`TargetRefresh`; `WindowIsTheList`, which is about the order of rows over many reads
of changing pages; the properties of `LiveChannel`, whose exceptions are worded for the
faults a run allows and which other faults, or more of them, would break; and the
properties of the editors, forms, surfaces and the launcher, which range over
catalogues of concrete forms and gain little from other values of the constants.

## What is not modelled

Within the modelled parts: transforms and field values; memory accounting; redb's
own format; changing `--no-wal` between two opens; nearest-neighbour queries and
projections; resuming by read time and its count-only filter; server-assigned
target IDs; malformed and future resume tokens; a client that reuses an active
target ID; several databases; commit observers as deliveries; `delete_path` and
the console's batch delete, which commit without the lock as the modelled endpoint
does. In the console: drawing, wording and layout, tables and filters, the timers of
reconnection, the problems ring of the logs. In the launcher: options and
`firebase.json`, MCP registration, the caps of the terminal's history (2000) and of
its raw lines (200).

Not modelled: write streams, WebChannel sessions, the Pub/Sub broker and scheduler,
Cloud Tasks queues, Storage, the rules engine and runtime, the request history, the
suite runtime, Auth, Functions and Extensions, the console's backend, exports, the
command line and the conformance harness. `PROJECT.json` gives the reason for each.
WebChannel sessions (ordering and deduplication of forward maps, the replay buffer),
the Pub/Sub broker (leases and acknowledgements) and the task queues (slots and late
completions) are protocols of their own and would be the next modules.
