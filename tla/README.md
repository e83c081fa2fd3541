# contextctl: a TLA+ verification project

contextctl watches Markdown sources, indexes them into a vector store, publishes
what it found as an ordered chain of publications, turns publications into
reviewed cards, and answers queries from the approved cards and the published
index. This directory models what the program does to its state, from the file on
disk to the answer of a query: TLC checks the models on small instances, and the
most important results are proved with TLAPS for all instances.

## 1. The system

```
 source file ──observe──► ingestion.db ──index──► Qdrant
                              │ publication chain + outbox
                              ▼
                         registry.db ──cards, approval──► selection ──► MCP / HTTP
```

`packages/ingestion-indexing`, `packages/registry-lifecycle` and
`packages/selection-delivery` are the three domains; `apps/contextctl-daemon`
composes them into a CLI (`ingest`, `doctor`, `backup`, ...) and a daemon.
Every store is SQLite (one transaction per store operation) or Qdrant (HTTP
requests whose answer may be lost). Nothing spans two stores, and the CLI and
the daemon may be several operating system processes on the same files.

| Component | State | Operations | Hard behaviour | What makes it correct |
| --- | --- | --- | --- | --- |
| Index staging (`publish-document-index.ts`, `cleanup-failed-index-staging.ts`) | staging attempt rows, Qdrant points and retention leases, catalog rows, current pointer | publish a version; sweep what failed publications left | expiring leases, lost answers, crashes, several publishers and sweepers, no common transaction | a catalogued version is complete for ever; orphans stay findable and are collected |
| Publication workflow (`markdown-publication-workflow.ts`) | observations, checkpoint, recovery intents, publications, latest pointer | observe, capture, index, publish, checkpoint | a run may end after any of about a dozen store accesses; overlapping runs; edits during a run; contents beyond a limit | one chain of publications; every publication indexed; every catalogued version recoverable; edits get published |
| Documents (`document-capture.ts`, `document-segmentation.ts`, `semantic-unit-lineage.ts`, `managed-chunk-generation.ts`, `document-incremental-update.ts`) | blocks, units and chunks with identities and revisions; pending snapshot and baseline; vectors | parse, match blocks with the previous capture, cut into units and chunks, plan, harvest vectors, embed, validate | repeated and moved blocks, limits, a crash between embedding and publishing, a change of profile | every stage accepts what the previous one made; the incremental index equals a rebuild; what was not edited keeps its identity |
| Observation retention (`retain-source-observations.ts`) | observation leases, comparison and latest pointers | lease, renew, release, select, delete | candidates selected before a run acquires one of them | no observation in use is deleted |
| Publication delivery (`reconcile-publication-ready.ts`) | delivery columns of publications: owner, lease, attempts, next attempt | claim a batch, notify, complete, reschedule | lease expires while a notification is in flight; rows offered out of chain order | delivered means consumed; everything is delivered in the end |
| Registry intake (`claim-publication.ts`, `intake-publication.ts`, `publication-chain.ts`) | consumer cursor per source, cards, versions | claim, defer, detect forks, store cards with the cursor | late, repeated and reordered notifications; crash between claim and store | each publication takes effect once, whole and in chain order |
| Card lifecycle (`approve-card-version.ts`, `card-impact.ts`) | versions, served pointer, decision trail | approve, reject, rollback, disable, assess impact | load and save apart, against intake | only validated words are served, and the trail says why |
| Card meaning (`fact-grounding.ts`, the meaning generators) | none | generate, fall back, ground | numbers and identifiers cut differently by two tokenizers | nothing that no source states gets into a card |
| Reachability (`scope-reachability.ts`, `build-reachability-report.ts`) | none | read the stores, judge every scope, gate a release | reads one after the other beside writers | a state that lasted through the report is the state reported |
| Selection (`query-scoring.ts`, `minimum-sufficient-set.ts`, `selection-plan.ts`, `context-assembly.ts`) | the plan of a query | filter, score, judge, cover facets, drop redundant cards, read, assemble | shared scopes and guides, caps and floors, conflicting reads | the set is sufficient; the code never refuses its own plan; an answer is one context |
| Prepared catalog (`prepared-card-catalog.ts`) | active cards, two cached candidate indexes, refresh loop | refresh, passive refresh, query | requests while a refresh settles; failing builds | a refresh covers its caller; the active index is cached; queries catch up |
| Embedding scheduler and thread (`embedding-runtime-scheduler.ts`, `worker-thread-local-embedding-inference-resource.ts`) | two bounded queues, running calls, scopes, timers, sampler; request table of a thread | run, abort, finish, scopes, stop; start, answer, exit, close | timers cancelled by other callbacks; events of a thread that was replaced | no lost wake-up, background yields, every call settles |
| Requests (`deadline.ts`, `runtime-control.ts`, `context-application.ts`, `managed-document-search.ts`, the audit thread) | budgets, stages, batch of searches, request table of the audit thread | admit, select, audit, search, assemble, answer | a deadline racing a result; abort; a thread that dies | an answer is in time, audited, and given |
| Transports (`stdio-transport.ts`, `node-http-server.ts`) | buffer, request table; connection | read, dispatch, cancel, end | frames cut anywhere, oversized frames, a full table, callers that leave | one answer for each request |
| Admission, maintenance, lifecycle (`admission.ts`, `ingestion-maintenance-worker.ts`, `lifecycle.ts`) | lanes with slots and queues, worker, accepting/draining/closed | admit, queue, refuse, abort; one cycle after another; drain, close | nested lanes, shutdown with work queued and running | nobody waits for ever; nothing runs over what is closed |
| Backup (`state-backup.ts`, `qdrant-snapshot-archive.ts`) | archive, databases, collections | copy, snapshot, restore, roll back | writers beside the copy, lost answers, damage | a backup is one moment; a restore is all or nothing |
| State databases, asset installation | schema version, marks, owner; revisions and the active pointer | open, migrate, inspect; download, verify, activate | several processes, a stop between two steps | what is opened is one's own and whole |

`PROJECT.json` lists every component with its status, and under `hazards` the
places in the code that are hard to test, each with the properties that watch it.

## 2. Modules

| Module | Models | Used by |
| --- | --- | --- |
| `StagingAttemptStore`, `VectorIndex`, `IndexCatalog` | the rows of `index_staging_attempts`; points, retention leases, unconfirmed and late requests of Qdrant; catalog rows and the current pointer | `IndexStaging` (the catalog also `PublicationWorkflow`) |
| `IndexStaging` | publishers and sweepers step by step over the three stores, with time | `MCIndexStaging` |
| `PublishedIndex` | abstract specification: versions become searchable whole, one at a time, and stay so | refinement in `IndexStaging` |
| `PublicationStore`, `CheckpointStore` | intents, publications, latest pointer; the checkpoint row | `PublicationWorkflow` |
| `PublicationWorkflow` | `MarkdownPublicationWorkflow.publish`, one action per store access | `MCPublicationWorkflow` |
| `DocumentCapture`, `DocumentUnits` | records and validators, parser walk and block matching; segmentation, unit lineage and chunking | `DocumentReindex` |
| `DocumentReindex` | one document through captures, edits, crashes, embedding faults and changes of profile | `MCRequests` (inputs in `MCContent`) |
| `CandidateScoring`, `SelectionPlanning`, `ContextAssembly` | scores and verdicts; facets, plan, costs and the minimal set; the reads of a plan as one answer | `SelectContext` |
| `SelectContext` | one query from its words to its answer | `MCRequests` (inputs in `MCContent`) |
| `ObservationRetention` | observations with what protects them, runs and sweeps | `MCOperator` |
| `PublicationConsumption` | abstract specification: publications of a source take effect in order, once and whole | refinement in `RegistryIntake`; Registry in `PublicationDelivery` |
| `PublicationDelivery` | the outbox columns and the reconcilers of several daemons | `MCDaemon` |
| `RegistryIntake` | `claimPublication`, `intakePublication` and the operator commands on cards, one action per store access | `MCRegistryIntake` |
| `FactGrounding`, `ScopeReachability` | how a card's words are made and judged; the reachability report and the gate | `MCOperator` |
| `EmbeddingScheduler`, `PreparedCatalog`, `DaemonRuntime` | native embedding calls; the prepared catalog; lanes, maintenance worker and shutdown | `MCDaemon` |
| `ManagedSearch` | a batch of searches | `RequestResolution` |
| `RequestResolution` | queries from arrival to answer, under one clock, with their budgets and the audit thread behind its proxy | `MCRequests` |
| `Transports`, `EmbeddingWorker` | the two transports; the embedding thread and its proxy | `MCRequests` |
| `StateBackup`, `StateDatabases`, `AssetInstallation` | backup and restore; opening and migrating a database; installing model files | `MCOperator` |
| `IndexStagingProofs`, `PublicationWorkflowProofs`, `RegistryIntakeProofs`, `DocumentReindexProofs`, `SelectContextProofs`, `RequestResolutionProofs` | theorems about the modules of these names; `PublicationWorkflowProofs` also about `MCPublicationWorkflow`, whose first instance is one process, `SelectContextProofs` about the modules `SelectContext` extends, `RequestResolutionProofs` about `Transports` | |
| `DaemonProofs`, `OperatorProofs` | theorems about `EmbeddingScheduler`, `PublicationDelivery`, `PreparedCatalog` and `DaemonRuntime`; about `AssetInstallation`, `ObservationRetention`, `StateDatabases`, `StateBackup` and `ScopeReachability` | |

The store modules hold the operations of one store as operators over its
variables; the modules that compose them declare the variables and `INSTANCE`
the stores. `map` in `PROJECT.json` gives the source lines of each definition.
Operators whose comment calls them a mutation or mutant are wrong variants of the
operator that follows; replacing it by them must break a property.

An `MC` module that holds several specifications without common state picks one of
them at the start (`part`) and lets the others rest, so a behaviour of it is a
behaviour of one of them.

### IndexStaging

A publisher is one execution of `publish`; its program counter stands at the
next await. `find` looks the version up, `acquire` takes the attempt row,
`retain` takes the Qdrant lease, `list` finds what is staged, `renew`/`reretain`
renew the row and the lease before every batch and before the commit, `upsert`
writes a batch, `verify` lists again, `commit` is `commitCurrent`; errors go to
`abandon` and the `finally` block to `release`. A sweeper claims eligible rows
and treats each: renew, consult the catalog, count retained points, delete,
complete or release. `PublishFail` and `SweepFail` are errors (a write whose
answer is lost may have been applied), `PublishCrash` and `SweepCrash` the end
of the process.

The server answers to nobody (`VectorIndex`). The abort that ends a request
(`requestSignal`, `qdrant-vector-index-adapter.ts:684`) ends the wait and not the
work, and `#retryTransient` sends a second copy, so a write that failed, one that
succeeded on a retry, and one whose process died may all be `late`: carried out
(`LateWrite`), once or several times, at any step that follows, until no copy is left
(`LateEnd`). `MaxLate` bounds how many are late at one time, for the runs only. Most
of it does no harm: late upserts write what is there or belongs there, and late lease
points only steer whether a sweeper waits. A late delete does: the sweeper has let go
of the row, another publisher stages, verifies and commits the version, and the delete
is carried out. `struck` remembers the versions such a delete has hit since a publisher
last verified them, and `Intact` is complete or struck. What the project claims of
published versions (`PublishedComplete`, `PublishesWhole`) is about `Intact`;
`PublishedWhole` is the claim without the exemption and fails (finding 4).

Time is a shared clock that `Tick` moves. Nothing in the code makes a commit
look at the staging lease again, so safety rests on a publisher and a sweeper
not sleeping for longer than the lease's slack between a renewal and the request
it protects; `PublishStall` and `SweepStall` bound that time and
`StallAssumption` says the grace period (24 h) and the cleanup lease (5 min)
outlast them, as the adapter's three attempts of 30 s justify. An upsert is late for no
longer than a publisher stalls (a day lies between that and the grace period); a late
delete has no such bound. Clocks of
processes on one machine agree. Chunk contents are abstract: a version is a
digest of its records, so stored records cannot be incompatible.

### PublicationWorkflow

One source. A worker runs `publish` again and again. `Register` copies the
checkpoint; `ReadPendingIntent` and `RecoverBeforeObservation` are the recovery
before observation; `Inspect`, `EnsureComparisonBaseline`, `ConfirmCheckpoint`,
`RepairBaseline`, `Observe`, `Observed` lead to a new observation; `Capture`,
`ReadLatest`, `Index`, `BeforeCatalogCommit`, `CommitIndex`,
`PreparePublication`, `CommitPublication`, `SaveBaseline`, `MarkBaseline` are
`#publishSnapshot`. `Stop` ends a run after any step. Observations are
deduplicated by digest, so an observation is its content; a snapshot carries
`ids` for its block, unit and chunk identities, which capture either carries
over or issues anew; an index version is the pair. `Oversized` contents are beyond
the limits of a publication: building it throws, after the identities were saved
as pending and before an intent exists. Staging appears by the result that
`IndexStaging` establishes: found, committed, or failed. Legacy checkpoint rows
are left out.

### DocumentReindex and the document modules

A file is a sequence of nodes as remark yields them (remark is external), a text a
sequence of words, stops and newlines, a token a word; digests are the texts
themselves. `Issue` is capture, segmentation, chunking and the pending snapshot,
`Resume` a run that finds one; `PlanAndHarvest`, `EmbedBatch`, `EmbedFault`,
`Publish`, `CommitReady` and `AdvanceBaseline` follow the reindexer and the
workflow; `Edit`, `Crash` and `Reconfigure` (the daemon's embedding profile) come in
between. Similarity of text windows is a parameter.

The model shows these consequences of the code, which no property forbids: a
profile that changes while a snapshot is pending makes every run fail with
`pending_structural_snapshot_conflict` until it is changed back; an unchanged file
is not captured again after a change of profile; an empty document leaves the
index head as it was. `AcceptsItsOwnOutput` exempts files with content that is
empty after normalisation (`HasEmptyContent`): a paragraph of an image only, an
empty heading or a fenced block of newlines gives an empty block that
`document-model.ts` refuses; not in the checked files, but of the same kind, are a
list of empty items (`remark-markdown-parser.ts:88`) and an oversized code block
whose last lines are blank, which is split into a chunk of no tokens
(`managed-chunk-generation.ts:363`) that `document-model.ts:747` refuses.

### SelectContext and the selection modules

Scores are hundredths; BM25, n-gram similarity, cosine similarity and facet scores
are inputs chosen from values on each side of the thresholds. The steps are the
policy filter, the lexical and the semantic ranking, their fusion (reciprocal ranks
scaled by 61·62·63 so that they stay whole), verdicts, facets, the removal of
redundant cards one at a time, the plan with its checks and its audit record, the
reads and the assembly of the answer. Items and targets are sets; the word that
coordinates two facets is also a stop word; there is one kind of quote; logarithms
are tabulated for catalogs of up to four cards. `HandOver` forgets the intermediate
values once the plan is made and stands for no code.

### ObservationRetention

An ingester acquires a lease with its observation, records the intent, publishes,
moves the comparison pointer and releases; retention selects candidates in one
query and deletes each in a transaction that looks at the protections again. Time
passes, so leases expire under slow runs.

### RegistryIntake

One source, whose feed says for each publication how every unit stands. A
consumer is a process that takes publications in: `Claim` is the look at the
claim record, `Follow` the chain position, `AddClaimedVersion` one load of a
card and its draft, `AssessImpact` and `LoadImpacted` the units that changed
without a new version, `Commit` the one transaction. An operator's command
loads (`Approve`, `Rollback`, `Reject`, `Disable`), checks the catalog limits
where it promotes, and saves; `RollbackReload` is the second load of a rollback.
`writeCard` appends the versions and overwrites the pointer from the copy, as
the SQL does. Everything interleaves at every await; the history variable
`overlapped` records whether two use cases ever ran at the same time. `trail` is
the pointer the last event of the card explains. An unchanged unit is published
again with the index version it was built into.

### PublicationDelivery

`commitReady` adds a row with an arbitrary `produced_at`; couriers claim the
first rows of the batch, notify Registry one by one, complete or reschedule.
Registry is the abstract `PublicationConsumption`. A lease lapses while its
courier works (`Lapse`, bounded with the failures) or after it gave up
(`Ripen`); an update that finds another owner ends the batch (`LoseBatch`).

### FactGrounding and ScopeReachability

A text is a sequence of words with stem, number and kind. A unit's request goes to
the language model, whose answer is any of a set and may fail, or to the rules;
grounding then collects numbers and identifiers of the result and of its sources.
Coordinates are those of documents, with ids of one length. A description that
joins sixteen long names or a question of a long heading can exceed its limit and
is refused, which `NothingIsMadeUp` allows. A heading of two lines keeps its line
break (`remark-markdown-parser.ts:345`), the rules copy it into description, question
and alias, and `checkText` refuses a control character, so the version of such a unit
is rejected too; the reader of a model's answer folds it into a space.

The report reads versions, decisions, cursors and newest publications one after
the other while publications, intakes and decisions of other processes commit, one
step each; one source, one scope per version. `build-reachability-report.ts:45`
says that "both answers come from one read", but versions and decisions are read by
separate statements: a scope that gets a further version in between is left out of
`ReportIsHonest`, as are waiting scopes of a source that was never consumed (it has
no cursor) and of publications other than the newest, which the report does not look
for. Decisions are explained per card, and scopes of superseded versions stay
`pending_approval`.

### EmbeddingScheduler, PreparedCatalog, DaemonRuntime

The event loop runs one callback at a time, so an action is a whole callback.
Scheduler: `RunResolve`, `RunBackground`, `Refuse` are calls of `run`,
`AbortWaiting` an abort, `Finish` the `finally` block of `#start` with the `#drain`
it may call, `Promote` and `Sample` the two timers, `EnterScope`/`LeaveScope` the
two ends of `runResolveScope`, `StopAccepting` the shutdown. Delays are not
modelled: a pending timer may fire at any moment.

Catalog: the refresh loop lists the cards (`BeginPass`), compares, builds the index,
activates; `Loop` looks at the request flag, `Settle` is the later microtask that
clears `#pending`; other callbacks may run between the two. `seen` and `written`
tell whether a catalog has come back.

Runtime: a task has a path of lanes; it holds the lanes it has entered and may wait
for the next. `Submit` is `AdmissionLane.run`, `Leave` the end of a task with the
promotion of the oldest waiting one, `Abandon` a caller that gives up. The
maintenance worker's timer, cycle and stop, `beginDraining`, the wait for idle
lanes (which may end at its time limit) and the release of resources in reverse
order of registration are one action each.

### RequestResolution, transports, threads

A stage ends by its result, its timer or the caller's abort, whichever callback runs
first; timers may fire late, and the work a stage awaits may never answer. The audit
thread has a table of calls, messages in both directions and a life of its own. A
stage timeout during search reports its items as `cancelled` and not retriable
(`managed-document-search.ts:226`, `:549`), which `context-application.ts:446`
and ADR 0008 of selection-delivery word differently. The proxy of the audit keeps a
thread that died: an append that comes later is never settled, its query ends by its
deadline, and `close` of the proxy waits for ever (`cli/runtime.ts:333`).

The stdio input is a sequence of pieces and newlines that arrives in chunks cut
anywhere; HTTP is one request on one connection; the embedding thread is started on
demand, and events of a thread that was replaced still arrive.

### StateBackup, StateDatabases, AssetInstallation

A publication stands for its row, its index version and its records. A request to a
server can fail before it has an effect, after it, or take effect when nobody waits
for it any more. `RestoreAllOrNothing` therefore exempts an upload that the server
carries out after it was asked whether it had (`qdrant-snapshot-archive.ts:139`); in
the same way a snapshot that timed out while being created stays on the server
(`:44`). fsync and power loss are left out.

A database file is its mark, version, owner and the schema steps it has. Openers
look, wait, and create or migrate in one transaction. Two openers of an empty
Registry database can both take it for theirs (`registry-database.ts:440`, `:101`;
the comments at `:447` and `:466` do not expect it): `OwnedByItsOpener` states what
does not hold and `OpenedIsOwn` exempts it. A stop between the migration of the
ingestion database and its claim of an application id leaves an unmarked file that
opens but that inspection calls `schema_invalid`; a version read before another
process migrated makes the opener fail and roll back.

## 3. Runs

| Run | Instance | Distinct states | Shows |
| --- | --- | --- | --- |
| `race` | 1 version of 2 chunks in batches of 1, 2 publishers, 2 sweepers. Different scopes: a resumed stamp, clock to 5, no late requests; same scopes: clock to 4, 1 late request at a time | 3,103,106 | `PublishedComplete`, `OrphansTracked`, `CleanupExcludesWriters`, `AcknowledgedAsRequested`, and `PublishesWhole`: `IndexStaging` implements `PublishedIndex` |
| `live` | 1 chunk, 2 publishers, 1 sweeper, 1 late request at a time; publications, faults and late requests end | 453,883 | `RemainsCollected` |
| `staging_struck` | 1 chunk, 2 publishers, 1 sweeper, 1 late request at a time | | `PublishedWhole` is **violated** (finding 4) |
| `workflow` | alone: 1 process, 4 contents (one empty, one beyond the limits), 2 edits, 3 stops; together: 2 processes, 1 edit, 1 stop | 1,228,744 | `OneChain`, `PublishedIsIndexed`; alone also `AloneKeepsBaseline` and `AloneConverges` |
| `workflow_revert` | 1 process, an edit may bring an earlier content back | | `Converges` is **violated** (finding 1) |
| `registry` | wide: 3 cards for 2 places, 2 publications, 3 decisions; pair: 2 cards with rejected versions and an intake cut short; long: 3 publications about 1 card | 157,301 | `ServedIsValidated`, `CatalogAsDecided`, `ConsumesInOrder` (`RegistryIntake` implements `PublicationConsumption`), `RemovedStopsServing`, `EventuallyConsumed` |
| `registry_stuck` | 2 consumers, 3 publications | | `EventuallyConsumed` is **violated** (finding 2) |
| `daemon` | scheduler: 2 slots, 3 + 3 calls, 1 scope; delivery: 2 daemons, 2 publications, 2 faults; catalog: 4 contents, 3 writes, 2 callers, 2 failures; runtime: 4 queries on 2 slots and 1 place, 2 builds, 2 cycles | 239,499 | `NoLostWakeup`, `DeliveredIsConsumed`, `DeliveredStays`, `ActiveIndexKept`, `OrderlyCycles`, `DaemonSettles` |
| `refresh_joined` | the catalog of `daemon` | | `RefreshCoversCaller` is **violated** (finding 5) |
| `requests` | resolution: 2 queries on 1 slot, 2 targets, a budget of 4 ticks; stdio: every input of up to 3 symbols and 3 long ones, 2 requests in flight; http; thread: 3 calls, 2 threads; selection: 10 catalogs of up to 4 cards, 12 queries, 13 reads; documents: 15 files, 2 edits, 2 profiles, 1 crash | 186,253 | `AnsweredIsAudited`, `AnsweredInTime`, `TransportsAnswerOnce` (its parts `AnsweredAsSent` for stdio and `OneHonestAnswer` for http), `EveryoneAnswered`; `NeverRefusesItself`, `NothingLost`, `AdmittedForAReason`, `AnswerIsOneContext`; `AcceptsItsOwnOutput`, `TakenOverIsTrue` (its parts `KeptUnitsStillTrue` and `VectorsAreOwn`), `PublishesTheFile`, `ChangesOnlyWhatChanged` |
| `operator` | backup: 2 publications, 2 collections, 2 backups, 2 restores; assets: 2 installers, 2 revisions of 2 files; retention: 2 drafts, 2 ingesters, 3 days; databases: 3 openers on every file a release has left; report: 2 cards, 2 scope versions, 2 publications, 2 decisions; grounding: 8 headings in every place, any answer of a model | 2,957,008 | `BackupIsOneMoment`, `RestoreAllOrNothing`, `ActivePointerIsWhole`, `RetainedWhileUsed`, `OpenedIsOwn`, `ReportIsHonest`, `NothingIsMadeUp` |
| `reachability_removed` | the report of `operator` | | `RemovedIsOrphaned` is **violated** (finding 3) |

Bounds. In the staging runs a lease is one or two ticks and the grace period
two, so a clock of 5 ticks lets every lease expire, be taken over and expire
again; two chunks in batches of one make a version that is partly written; two
publishers are enough for a takeover and two sweepers for a stolen claim. One late
request at a time is enough for each kind to arrive at every step of the others (it may
be carried out again, and another may follow it). Publishers that ask for different
scopes do without: who is told what does not depend on the vector index, and scopes do
not matter to it. The proofs hold for any `MaxLate`.
Versions only meet in the current pointer; what holds of several is proved. In
the workflow the contents allow an edit during a run, an edit after a stop, an
empty document and one that cannot be published; two stops cut a run and its
recovery. In the registry run two publications give a card a version to approve
and one that changes or removes its unit, three a card served by a version older
than the last; three units make a catalog that can exceed a limit of two. In the
scheduler three calls per priority fill the slots, the queue and the refusal; in
delivery two rows in one batch can be offered against chain order, lost midway
and taken over; the catalog's contents are interchangeable, so its first one is
fixed; in the runtime four queries fill two slots, the queue and the refusal, and
two builds the lane the cycle asks for. In `requests` the budget leaves a tick for
each stage and one to spare, and inputs of three symbols contain every place at
which a frame can be cut; the long ones fill the request table. For documents the
policy is scaled down to chunks of 12 tokens, so that one section is beyond a chunk
and another beyond a unit; the files rename, rewrite, swap, repeat and raise
sections. In `operator` two of everything let one process act between any two steps
of the other. Systems that have run out of publishers, edits, calls or publications
stop, so deadlock is not checked; that nobody is stuck is what `RemainsCollected`,
`AloneConverges`, `EventuallyConsumed`, `DaemonSettles` and `EveryoneAnswered` say.
The type invariants of the modules (`TypeOK`, `WorkflowTypeOK`, `RegistryTypeOK`,
`SchedulerTypeOK`, `DeliveryTypeOK`, `PreparedTypeOK`, `RuntimeTypeOK`,
`ResolutionTypeOK`) hold on these instances too; no run repeats them.

Symmetry is used in `race` and `operator`, which check no liveness.

Fairness. `live`: a publisher and a sweeper that can take a step eventually do
(the daemon's maintenance cycle repeats), time passes, and a late request has an end;
faults end, as a sweeper that fails every time collects nothing. `workflow`: ingest is run
again, and a run that is not cut short goes on; stops are bounded. `registry`: an
intake that has begun goes on, and a publication that may be claimed again and again
is claimed (strongly fair: the outbox reschedules what was deferred). `daemon`:
native calls and scopes end (each is awaited under a deadline), timers fire, and the
sampler infinitely often finds the event loop not delayed, which is the code's own
premise ("Event-loop delay is transient"); dates pass, cycles go on and repeat, and
a row that is claimable again and again is claimed, because the back-off of a refused
row outgrows the interval between cycles; the event loop runs and queries keep
triggering the passive refresh; running tasks end, and shutdown goes on, but nothing
is assumed of waiting tasks. `requests`: the clock goes on, due timers fire,
callbacks run and ports whose signal is aborted settle; nothing is assumed of the
work a stage awaits, nor of the audit thread; a peer on stdio that closes its end
delivers what it sent; an embedding thread goes on until it fails and then exits.

`DaemonSettles` is one formula for four specifications. Besides its listed mutant,
each part by itself can break it: a shutdown that waits for the worker to stop by
itself, a promotion timer that is armed again before the queue is looked at, a claim
that leaves rows in delivery to an owner that stopped, a comparison that takes a kept
index for the active one.

## 4. Proofs

Every theorem is about the specification of one component and holds for every value
of its constants that satisfies the named assumptions; the runs check the same
definitions on small instances. An `MC` module runs the components it combines one
at a time or side by side without common variables, so the theorems speak of the
same actions as the runs. Each invariant below is inductive: it holds at the start,
every action keeps it (one step of the proof per action), and it implies the
properties that are listed with it.

| Module | Properties of runs that are proved | Assumptions on constants |
| --- | --- | --- |
| `IndexStagingProofs` | `PublishedComplete`, `OrphansTracked`, `CleanupExcludesWriters`, `AcknowledgedAsRequested`, `PublishesWhole` | `ConstantsAssumption`, `StallAssumption` |
| `PublicationWorkflowProofs` | `OneChain`, `PublishedIsIndexed`, `AloneKeepsBaseline` | `WorkflowAssumption`; the last also `FirstAssumption` |
| `RegistryIntakeProofs` | `ServedIsValidated`, `CatalogAsDecided`, `RemovedStopsServing`, `ConsumesInOrder` | `RegistryAssumption`; `ConsumesInOrder` also needs `OneConsumer` |
| `DocumentReindexProofs` | `TakenOverIsTrue`: `KeptUnitsStillTrue` and `VectorsAreOwn` | none |
| `SelectContextProofs` | `NeverRefusesItself`, `NothingLost`, `AdmittedForAReason`, `AnswerIsOneContext` | `CatalogAssumption`, `ValuesAssumption`, `ReadsAssumption`, `ScoringAssumption`, `PlanningAssumption`, `AssemblyAssumption` |
| `RequestResolutionProofs` | `AnsweredIsAudited`, `AnsweredInTime`, `TransportsAnswerOnce`: `AnsweredAsSent` and `OneHonestAnswer` | `BudgetAssumption`, `ResolutionAssumption`, `StdioAssumption`, `HttpAssumption` |
| `DaemonProofs` | `DeliveredIsConsumed`, `DeliveredStays`, `NoLostWakeup`, `ActiveIndexKept`, `OrderlyCycles` | `DeliveryAssumption`, `ProfileAssumption`, `PreparedAssumption`, `RuntimeAssumption` |
| `OperatorProofs` | `ActivePointerIsWhole`, `RetainedWhileUsed`, `OpenedIsOwn`, `BackupIsOneMoment`, `RestoreAllOrNothing`, `ReportIsHonest` | `AssetAssumption`, `RetentionAssumption`, `DatabaseAssumption`, `BackupAssumption`, `ReachAssumption` |

The type invariants are theorems too (`TypeCorrect`, `WorkflowTypes`, `RegistryTypes`,
`SchedulerTypeCorrect`, `PreparedTypes`, `RuntimeTypes`, `ResolutionTypes`).

`IndexStagingProofs` proves for every set of versions, chunks, publishers and
sweepers and all lease lengths, from `ConstantsAssumption` and
`StallAssumption` only:

- `TypeCorrect`, `PublishedAlwaysComplete`, `OrphansAlwaysTracked`,
  `CleanupAlwaysExcludesWriters`: the type invariant and three invariants of `race`;
- `AcknowledgedAlwaysAsRequested`: what a caller is told is what the catalog has,
  because the row of a catalogued version never changes (`RowsStay`);
- `StagingRefinesPublishedIndex`: every step of the protocol is a step of
  `PublishedIndex` or leaves it alone.

The properties are not inductive. `StagingInv` adds what leases really
guarantee: a sweeper past its renewal still holds its row with an expiry ahead
of the clock (`SweepHoldsRow`) and works on an unpublished version
(`SweepsUnpublished`); a publisher that acts on a renewal may have lost the row
to another publisher, but not to cleanup, since the row's `last` is too recent
to be eligible (`PublishKeepsRow`), and the same row covers an upsert of its that is
late (`LateUpsertsCovered`); what verification saw is there at the commit
(`VerifiedStaysStaged`), unless a late delete has struck it; a sweeper that still owns the row it cleaned leaves
nothing behind (`CleanedBeforeComplete`); rows are forgotten only for published
versions (`ForgetsPublished`). The argument in one line: two leases on the same
row cannot both be ahead of the clock, and stalls are shorter than the slack. Nothing
is needed about late deletes, whenever they come: they remove, which no
part but completeness minds, and `struck` is what completeness exempts. Late lease
points need nothing either: whether a sweeper sees one (`SweepCount`) only decides
between deleting and waiting, and both are safe.

`PublicationWorkflowProofs`, for any number of runs, contents, edits and stops.
`WorkflowInv` has four parts. `ChainInv` is about the tables alone: intent ids are
unique, an intent is marked committed exactly when its publication is there, a pending
intent succeeds the latest publication, and nothing succeeds the latest one yet.
`WorkersFit` says what a run in the middle of `#publishSnapshot` knows: its snapshot is
of its target, its intent is stored, past the catalog commit the row is there with
the stamp the run carries. `StoresOK` types the stores and says that the checkpoint and
the comparison pointer name stored observations; `Indexed` is `PublishedIsIndexed`.
`OneChain` needs them all: that two overlapping runs cannot both extend the chain
follows from `MayCommit` comparing `prev` with the latest id, but only because ids do
not recur. `AloneKeepsBaseline` needs two more parts, about the one process that ingests
the source. `LedgerOK`: an unfinished publication is of exactly the identities the
checkpoint holds back, and the latest publication is the baseline or is about to become
it, so a stop at any step leaves enough to go on with the same identities. `RunOK`
says what the run adds: until it captures, its copy of the checkpoint is the stored one;
from then on the identities it works with are those held back; and what it commits
succeeds the latest publication, so by `ChainInv` it is not published yet and becomes the
latest. `FirstAssumption` says that there is a process. The theorem covers edits that
bring a content back (finding 1): such a source may be blocked, its baseline stays right.

`RegistryIntakeProofs`, for any consumers, operators, units and publications.
`ServiceInv` carries the honesty of a card (a served version is one of the card's, is
validated, and is the one whose words are stored) to every copy an intake or a command
holds between its load and its save: a save of a stale copy can undo a decision, never
serve unvalidated words. `TurnsInv` adds, as long as nothing overlapped, that there is
one use case at a time and that its copies are current, which gives
`CatalogAsDecided` and the action property `RemovedStopsServing`. `ChainInv` ties the
draft of an intake to the publication after the cursor; with one consumer
(`OneConsumer`, the `registry_consume` lane of one process) every step is a step of
`PublicationConsumption` or invisible to it. `RegistryAssumption` asks for finitely
many units and that the value standing for "no version" is not one.

`DocumentReindexProofs`, for any files, policy and profiles, whatever segmentation
and chunking make of a file. `DocInv`: a pending snapshot is one observation ahead of
the baseline and of another file; what is published is the publication of one of
the two, and of the pending one exactly from its publication to the baseline's move,
so a run that resumes after a crash knows where it is (`PublicationInv`, `JobInv`); a
vector on its way stands for the text of its revision under the profile of the run,
as the records of every index do that it may be taken over from (`VectorInv`). Units
inherited from the baseline stay true because inheritance asks for the same facts,
scope, profile and chunks, and the baseline's units were.

`SelectContextProofs`, for any catalog, query, thresholds' inputs, limits and reads.
`SelectionInv` follows the phases. The score of a card without a declared match stays
at 34 or below, and similarity lifts none such but the leader (`ScoredInv`,
`HybridScores`), which gives `AdmittedForAReason`. In planning, the running cost is the
measured one: `RemovalIsExact` says that the savings of a card are the difference of
two measurements, also where scopes, guides and targets are shared, so the final
measurement, the item and target counts and the audit record (`RecordAgrees`) agree
and nothing refuses the plan (`NeverRefusesItself`). `NothingLost` follows from the
coverage that `PreservesFacetCoverage` keeps at each removal. `AnswerIsOneContext` is
proved about `AssembleContext` (`AssembledIsOne`): fusing, first places and the cut to
the budget are shown to partition the chunks of the believed reads. The sums of the
model are folds over finite sets; the lemmas at the head of the module show by
well-founded induction on cardinality that they unfold, split, reindex and count.

The assumptions are what the code guarantees of its inputs: a card carries at least
one scope (`fact-grounding.ts:92`), a field without words is not indexed
(`query-scoring.ts`), a retrieval guide's key is a digest of the whole guide, texts
have a length, ranks, references and revisions are numbered in the order the code
sorts them by, and thresholds, limits and budgets are positive.

`DaemonProofs`. The scheduler's invariant adds to `SchedulerTypeOK`, `NoLostWakeup` and
`BackgroundYields` that a delayed event loop is being sampled as long as the scheduler
accepts calls. Lemma `Drained` says what `#drain` starts in terms of counts;
`FinishStarts` that when a call ends while resolve calls wait, the session was full, so
exactly the first of them takes the slot and no background call can.
`DeliveryInv` adds to `DeliveredIsConsumed` what ties an answer to the row it is
written to later: a courier answered with success has a consumed publication at
the head of its batch (`AnswerStaysTrue`), which stays true while others run
because consumption only grows. Nothing is needed about leases: a row is only
changed by the owner written in it, or claimed while it is not delivered
(so `DeliveredStays`: no late failure or claim puts it back).
`PreparedInv`: while every catalog is a new one, the newest cache entry
is the served one except between acquire and swap, when both are there; what is built
is neither served nor cached; callers that wait are covered by the pass that is running
or by the request on record, so one that resolves uncovered (finding 5) leaves its
request there (`UncoveredStaysOnRecord`).
`RuntimeInv`, for any lanes' sizes, tasks and paths: a task's depth says exactly which
lanes it is in, a queue holds exactly those waiting for its lane, lanes and queues are
within their limits; a scheduled worker has finished its last cycle's steps; and
shutdown is a sequence of facts, each resting on the one before (lanes closed and
queues empty once draining began, worker stopped and its cycle over before the
database is released).

`RequestResolutionProofs`, for any profile of deadlines that
`assertDaemonRuntimeProfile` accepts (`BudgetAssumption`). `ResolutionInv` says that a
reply on its way back that reports success has its row, so that a query that went past
the audit stage has its row, whichever of reply, thread exit, timer or abort came
first; and that an answer was given in less than the total. `MaxNow` is the bound of
the clock and needs only be a natural number.

The two transports are in the same module. `HttpAnswersOnce` needs what `HttpInv` says
of a connection: who has hung up, timed out or been answered, and which of them it was
first. `AnsweredAsSent` speaks only of a session that has ended; `StdioInv` says what
holds on the way there, for any input, any cut of it into chunks and any number of
calls in flight. It is an inventory per kind of line (`Covers`): what is answered, queued,
in flight and still to be read of the input together is what that kind is owed, never
more than the input has of it, and less only where a cancellation may have named a
call. `Fits` adds that calls in flight are at most `Capacity` and carry distinct
numbers, and that a session that is discarding an oversized line buffers nothing of it.
Each operator of `Transports` that reads or answers moves lines from one column of the
inventory to another; there is one lemma for each (`TakeLineStep`,
`DropOversizedStep`, `PumpStep`, `FinishStep`, ...), over lemmas about where the first
line of a buffer ends. The model cuts lines with recursive functions over the length
of what is buffered; that they have the values their definitions say is shown by
induction over that length. A first attempt failed on `Answers`, whose `CASE` had two
arms for an oversized notification: TLC had always taken the first, the definition now says so.

`OperatorProofs`:

- `AssetInv`: what is moved into place was verified in staging and what the pointer is
  about to name is verified where it lies; a revision only ever changes to one that
  was verified. `AssetAssumption` says that the root is
  found with an empty pointer or one to a verified revision.
- `RetentionInv`: a run whose lease has not run out has the observation and a lease row
  that says so, so a sweep's deletion, which looks for the protection again in its own
  transaction, skips it. The list a sweep selected earlier needs no invariant.
- `DatabaseInv`: the file is as it was found, or at the current level and version
  with the mark and owner it had or none; an opener past a check knows what it checked
  of the file it found, and the file only grows (`Grows`) while others open it.
- `MomentInv`: a backup past its two locks holds them, so both databases are what they
  were when it took them; everything published is in a collection that it saved or
  has still to save, and was in it when it was saved. Records are never removed while
  a publication names them, and the list of collections is taken after the locks.
- `RestoreInv`: a restore uploads only to collections that were absent when it looked
  (and so not among those it found), each collection it is done with holds what the
  archive has, and until an ambiguity is reported every collection on the server was
  found, is an upload nobody waited for, is on the list to undo, or is being looked
  into. `BackupAssumption` names collections and publications by numbers.

- `ReportInv`: versions, cards and decisions only grow and point at each other
  (`TablesInv`); what a report has read is a past state of each table, every scope
  outside `grown` has had no further version since the versions were read, and `seen`
  holds every state a scope has been in since (`RunningFacts`), so the verdict that
  `judge` reaches from reads of different moments is one of them. `ReachAssumption` says
  that plans name scopes there are.

Only model-checked, and why:

- the liveness properties (`RemainsCollected`, `AloneConverges`, `EventuallyConsumed`,
  `DaemonSettles`, `EveryoneAnswered`): fairness and `ENABLED` are outside the prover;
- `PublishesTheFile`, `ChangesOnlyWhatChanged` and `AcceptsItsOwnOutput`: they compare
  what recursion over a document's blocks, windows and words computes with a
  definition of the result, and the modules use recursive operators and filters that
  the provers cannot unfold; `KeptUnitsStillTrue` and `VectorsAreOwn` need nothing of them;
- `NothingIsMadeUp`, for the same reason over the words of a card.

## 5. Findings

1. **A content that comes back can block a source** (`workflow_revert`). A file
   goes A, B, A with its identities carried over: the index version of A recurs,
   `DocumentIndexPublisher.publish` returns the catalogued row without calling
   `beforeCatalogCommit`, no recovery intent exists, and the workflow throws
   `publication_commit_incomplete`. The identities are already pending, so every
   later run resumes the same observation first and fails the same way, although
   `docs/operations.md` says that running `ingest` again is the remedy.
2. **The registry's cursor can move backwards** (`registry_stuck`). Intake reads
   the claim record and the cursor, awaits, and commits without reading them
   again; `registry_consume` serialises one process only. An intake overtaken by
   another process overwrites the cursor, its successor is already claimed and
   never moves it again, and the publication after that is deferred for ever.
3. **A removed unit's scope is reported as waiting for approval**
   (`reachability_removed`). The withdrawal clears the pointer and leaves the version
   `validated` without a withdrawal event, so the report judges the scope
   `pending_approval` and the release gate passes, where ADR 0005 says it stays
   `orphaned` and stops the gate.
4. **A published version can lose its records** (`staging_struck`). A delete whose
   sweeper stopped waiting, or the first copy of one that a retry completed, reaches the
   server after the row was freed and another publisher committed the version. It
   filters on the version alone, so nothing stops it, although cleanup is a
   "maintenance operation for vector-only versions never published".
5. **A refresh can be done without its pass** (`refresh_joined`). `refresh()` joins
   `#pending` until a microtask after the loop's return clears it; a caller in between
   resolves with the loop's result, although the comment there requires one more pass.
   `UncoveredIsOnRecord` is what is left: the request waits for the next call or query.

Several properties hold only under a condition, which their definitions state:

- `AloneKeepsBaseline` is about runs of `ingest` that do not overlap. A run
  saves copies of the checkpoint it read at its start and can promote identities
  no publication carries when another run published in between.
- `AloneConverges` exempts a source that was read once with a content beyond the
  limits of a publication: it resumes that content at every run, also after the file
  was corrected.
- `ConsumesInOrder` is about one consuming process; two can both add the versions
  of one publication, for the reason of finding 2.
- `CatalogAsDecided` and `RemovedStopsServing` are about use cases that take turns
  (`~overlapped`). An intake and an operator's command save whole cards they loaded
  earlier, and each can undo the other.
- `NothingIsMadeUp` exempts the keywords that the deterministic generator cuts out of a
  decimal: "v18.2" gives "v18", grounding does not find the number 18 in the fact, and
  the version is rejected, although the comment at
  `deterministic-card-meaning-generator.ts:54` says a thin heading never produces a
  version only to be rejected. A heading of two lines is refused for its line break.
- `PublishedComplete`, `PublishesWhole` and what is proved of them exempt versions that
  a late delete has hit since they were last verified (`struck`, finding 4).
- `ActiveIndexKept` is about catalogs that do not come back: a cache hit does not
  renew its entry, so after A, B, A the build of C evicts A while A is active.
- `RetainedWhileUsed` is about leases that have not run out and ids that differ. The
  code counts lease ids per process, so two processes can share one, and the first
  to finish releases the other's; a run slower than its lease can lose the
  observation of its intent or of its pending snapshot and then fails with
  `observation_baseline_corrupt`.
- `OpenedIsOwn`, `ReportIsHonest`, `RestoreAllOrNothing` and `AcceptsItsOwnOutput`
  name their exemptions; section 2 says what the code does there.

## 6. Plan

1. Lemmas about capture, segmentation and chunking, each pass by induction over the
   blocks, towards `PublishesTheFile` and `AcceptsItsOwnOutput`.
2. The same over the words of a card, for `NothingIsMadeUp`.
3. Models left to extend: review states of cards, the size limit of the audit trail,
   the sources and activity files.

## 7. Not modelled

Embedding providers (numeric inference and network calls), vector search and its
scores, wire formats, the texts of prompts and diagnostics, argument parsing,
`doctor`, configuration and wiring, database statements of each schema version,
contracts, benchmarks, installation scripts and the in-memory twins of the stores:
they are sequential data transformations or I/O without protocol state. The sources
file is read, changed and written whole without a lock, so two `sources` commands at
once lose one's change; nothing claims otherwise. Power loss and fsync are outside
every model. `PROJECT.json` gives the reason component by component.
