# Verification of the indexing protocols of unified-kg-rag

unified-kg-rag builds a knowledge graph from a corpus of documents and answers
questions over it. Answering reads; building writes, in runs that take hours,
over stores that offer no transaction across each other. What is hard to get
right is therefore on the write side: which run may write, and what a broken
run leaves behind. This project models those protocols in TLA+, checks small
instances with TLC and proves the main invariants with TLAPS.

Paths below are relative to `src/unified_kg_rag/` unless they start with `src/`.

## 1. The system

An ingestion run (`application/ingestion/pipeline.py`) takes the write lease of
its namespace, diffs the corpus against the document registry, sends the
documents that changed through its stages (load, chunk, extract, summarise,
cluster), and writes the result to a vector store, a graph store and the
registry. Another run may start at any time, on any host. A run may be stopped
(a signal), lose its lease, fail in any stage or die.

| Component | State | Operations | Interacts with | Hard behaviour | Correct when |
|---|---|---|---|---|---|
| Namespace lease (`application/ingestion/namespace_lease.py`, `shared/write_fence.py`) | the lease item of the registry; `_renewed_at`, `_lost`, `writes_from` of each run | enter, heartbeat, fence check, retake, exit | every store write asks the fence; registry adapters hold the item | clocks, slow renewals, frozen threads, requests in flight, a retake beside the run's own heartbeat | a run the fence lets write owns the lease, and a lease retaken is one held; writes of two runs are never in flight together |
| Document registry (`adapters/doc_status/`) | one record per document, lease and settings items | get, put_many, delete, conditional lease write | lease, delta detection, indexer | batches written in part | a record never claims what the stores do not hold |
| Delta detection (`domain/ingestion/delta_detector.py`, `domain/models/document.py`) | none (a function of corpus and registry) | classify, retry limits, unread files | attempts, indexer | order of the two filters | every difference is processed by some run |
| Attempts and quarantine (`domain/ingestion/attempts.py`) | deaths, batch sizes and open attempts in the records | open, settle, plan, close, quarantine, release | delta detection, pipeline | several culprits, runs that die | a culprit is isolated, an innocent document never quarantined |
| Incremental indexer (`application/ingestion/incremental.py`) | the run's delta, fingerprints and prior records | write-ahead, remove, commit, record | registry, removal, indexing manager | crash between any two writes; partial failure | registry and stores agree whatever fails |
| Text unit removal (`application/storage/removal.py`) | pending strip note | find, delete, derive again, re-key, retire | stores, derivation | shared items, a crash between any two writes, a retry with more to remove | the stores end as a full build of what is left; nothing others state goes |
| Cross-run merge, indexing manager (`application/storage/`) | retired ids, commit note | merge, derive, write, delete retired | stores | crash between renames | re-keyed items are found again |
| Reset and rebuild (`incremental.py:2246`, `indexing_manager.py:260`) | the run's delta; index types dealt with | record ahead, swap indexes, write and sweep the graph, record, clear | registry, stores | partial failure and crash between any two | what a reset dropped is gone from the stores before its record is |
| Resume, pipeline state (`resume.py`, `pipeline_manager.py`) | run metadata, completed stages | choose the start stage, restore context | stage cache, registry | a registry changed meanwhile | never resumes on a stale delta or a missing cache |
| Stage cache and S3 copy (`cache_manager.py`, `adapters/aws/s3_cache.py`) | data files, index, metadata | save, load, upload, download | resume | cut uploads, stop in a checkpoint | an index entry implies its data |
| Model response cache, retry (`adapters/llm/`) | pending, written and served responses | lookup, update, discard, flush | stages | late answers, concurrent flush | a failed item's response is not served again |
| Concurrency helpers (`shared/utils/concurrency.py`) | pools and tasks | gather, cancel, shut down | stages, retrieval | a failure or stop while tasks run | no task outlives its owner unnoticed |
| Console jobs (`application/cli/console/jobs.py`) | jobs, claims, child processes, stored records | start, watch, stop, kill, shutdown, mark lost | spawns runs; lease as last guard | claims across awaits, restarts | at most one watched job per namespace |
| Console answers (`application/cli/console/ask.py`) | the chain and the retired chains | answer, reset, close | retrieval | reset while a chain is built or used | a chain in use is not closed; a new setting takes effect |
| Summary tree (`summary_tree_stage.py`) | tree nodes and their artifact record | rebuild | stores, retrieval | crash in a rebuild | a recorded tree is complete |
| Graph resolution, clustering, chunking, extraction | none | pure functions and model calls | stages | - | outputs are nondeterministic here |
| Retrieval, search strategies, graph queries, MCP tools | caches of one query | read only | stores | deadlines | - |
| Evaluation, CLI, configuration, observability, web UI, deployment | - | - | - | - | - |

`PROJECT.json` lists every component with its sources, and every hazard with the
line where it bites and the properties that would catch it.

## 2. Modules

| Module | Models |
|---|---|
| `NamespaceLease` | the lease protocol of several runs, each with a main thread, a heartbeat thread and writes in flight |
| `MCNamespaceLease` | its instances: clocks, symmetry and a view that drops fields no later step reads |
| `NamespaceLeaseProofs` | type correctness, the fence, and that writes of two runs are never in flight together, proved |
| `DocStatus` | the registry record and every pure decision about it: attempts, plan, classification, retry limits, records written |
| `IncrementalIndexing` | the runs over registry and stores, with an environment that edits and failures at every step |
| `DocumentIndex` | the abstract specification: what the registry promises about the stores |
| `MCIncrementalIndexing` | instances |
| `IncrementalIndexingProofs` | the inductive invariant, three invariants, the refinement, and that only culprits are quarantined, proved |
| `FullBuild`, `MCFullBuild` | the same runs next to resets, in any order |
| `FullBuildProofs` | the same four theorems, with resets |
| `PipelineResume` | the checkpoint of one pipeline id: stages, stage cache, metadata, S3 copy, stop, and every rule of the resume |
| `MCPipelineResume` | four stages, run whole or in phases, on two deployments |
| `PipelineResumeProofs` | what indexing commits is fresh, coherent and knows its failures, proved |
| `ModelCalls` | the attempts of a batch's items with timeout and retry, and the cache of model responses they share |
| `MCModelCalls` | two items, what an earlier run stored, and the disturbances |
| `ModelCallsProofs` | type correctness and two invariants, proved |
| `TextUnitRemoval` | a removal over both stores, item by item: derivation, re-keyed ids, the strip note, and its retries |
| `MCTextUnitRemoval` | five spellings of three names, over four text units |
| `TextUnitRemovalProofs` | nothing kept is ever absent, nothing removed comes back, and when a derivation has rounds enough, proved |
| `ConsoleJobs`, `MCConsoleJobs` | the console's jobs over its memory, its records and its children |
| `AskService`, `MCAskService` | the chain the console's questions share |
| `ConsoleJobsProofs`, `AskServiceProofs` | their safety invariants, proved |

### 2.1 NamespaceLease

A run is one `NamespaceLease` object. `ReadHolder`, `AcquireLease` and
`AcquireDenied` are `__enter__` and `_acquire` (:188-236): the holder is read first, and
whether to wait for late writes is decided from that read. `PassFence` and
`FailFence` are the fence (`check_held`): it looks only at the run's own clock
and its last renewal, and refuses with a third of the term left (`Expiring`).
The heartbeat sends a renewal (`HeartbeatSend`); the registry applies it
(`HeartbeatApply`) or the request errs with or without having been applied
(`HeartbeatError`). The answer is that another run holds the lease
(`HeartbeatDenied`); or it came after the lease had expired, which is then lost
(`HeartbeatTooLate`, `_lose`) and, in a step of its own since the main thread may
act in between, released (`HeartbeatReleases`); or it renews the term
(`HeartbeatRenewed`), after which the thread goes on (`HeartbeatContinues`) or, if
the run ended meanwhile, gives the lease up again (`HeartbeatGivesUp`). A release
or a give-up may fail. `RetakeRequest` is the conditional write of `retake()` as
the registry applies it, `RetakeAnswer` what the main thread does when the answer
comes: it clears `_lost`. Nothing keeps the two apart from the heartbeat's steps;
the history variable `crossed` tells which runs retook their lease while a renewal
of their own, or the release after a late one, was under way.
`ExitBegin`/`GiveUp`/`GiveUpFails` are `_exit`, including the lease
that is left *expired* rather than released when a stop leaves requests in
flight or a takeover wait is handed on (`HandsOn`). `Tick` is time, `Land` a
store applying a write, `TtlDrop` DynamoDB's TTL.

Times are ticks. `Term` is `indexing.lease_seconds`, `Request` the longest
write request, `Margin` the takeover margin; `Skew` is how far each run's clock
is ahead, `Pause` how long a live thread may go without a step, `SendDelay` the
time from the fence check to the send, `TtlGrace` how long after its expiry
DynamoDB keeps the item. `StaleReads` and `Retakes` switch two behaviours off for
`WritesExclusive`, which is false with them (section 5).

Not modelled: the in-process stores (SQLite), where a write does not outlive its
process; a lease request that lands after its client gave it up.
`Takeable` is DynamoDB's strict comparison; SQLite's differs by the boundary.

### 2.2 DocStatus and IncrementalIndexing

One run at a time goes through the steps of `pc`:

`idle` -FilterToDelta-> `open` -OpenAttempts-> `extract` -WriteAhead-> `mark`
-MarkDeleted-> `remove` -RemoveDoomed-> `strip` -StripShared-> `forget`
-ForgetRemoved-> `commit` -Commit-> `record` -RecordProcessed-> `close`
-CloseAttempts-> `idle`.

`FilterToDelta` is `filter_to_delta` with all of `detect_delta`: files that
failed to load, the classification (`Classify`), the plan of attempts
(`PlanAttempts`) and the retry limits (`StopRetryingExhausted`), in the code's
order. `WriteAhead` takes the stages' output (`Extractions`, a nondeterministic
choice within each document's text units) and records every document PENDING
with old and new text units (`Ahead`). `MarkDeleted` to `ForgetRemoved` is
`remove_changed_and_deleted`. `Commit` writes the items; any subset may fail, or
be reported failed though applied. `RecordProcessed` decides PROCESSED or FAILED
per document (`HasFailed`, `ProcessedRecord`). Each step has a `Cut` twin in
which it is interrupted with part of its writes done (`WrittenInPart`);
`Stop` and `Die` end a run between two steps, `StageFails` is a stage that
raises, `RemovalFails` a removal that failed in part. `Killers` are contents
that kill the process at `KillStep`.

`stored` is the set of pairs (item, text unit it cites), so deleting an item and
stripping a citation from a shared item are both the removal of pairs.
`indexed` is a history variable: what the commit that recorded a document
PROCESSED extracted for it.

Abstracted: one scope and one suffix; `retry_count`, `written_by` and paths; one
index type; the content of items. Not modelled: communities and reports,
re-keyed (retired) ids and the notes about them (in `TextUnitRemoval`), extraction records, schema
annotations, resumed runs, resets (they are in `FullBuild`), confirmations (a declined one is no
run), checks made before the first write (they equal a `Stop` at `extract`).

`DocumentIndex` says what all this is for. A document is absent, dirty or clean;
its content changes only while it is dirty; it becomes clean only with the
content it has, and absent only when nothing of it is stored. The mapping
(`Mode`, `Contents`) reads a record PROCESSED as clean, any other record as dirty, and no
record as absent.

`FullBuild` extends `IncrementalIndexing`: from `idle` a run may also be a reset,

`idle` -ResetFilter-> `build` -ResetWriteAhead-> `rebuild` -SwapIndex for each
vector type, WriteGraph, in any order, EndPhases-> `sweep` -Sweep-> `rerecord`
-ResetRecord-> `clear` -ClearRegistry-> `idle`,

each with its `Cut` twin, and `ResetStop` between any two. `ResetFilter` reads the
whole corpus and skips what is quarantined; `ResetWriteAhead` also records PENDING
the documents the corpus no longer has (`Dropped`). An index is filled aside and
swapped in whole, so a failure leaves the old one; the graph is written over the
stored one and then swept of what the build did not write, so a failed graph write
leaves both (`"kept"` in `done`). Only a rebuild that is recorded clears the other
records. `GraphItems` are the items of the graph store, the rest of the entities
their copies in a vector index. `EmptyResets` admits a reset whose every document
is quarantined (section 5), `MaxResets` bounds resets for TLC.

### 2.3 PipelineResume

`Start` is the start of a run: the download (`sync_pipeline_from_s3`), the
resume point (`determine_resume_strategy` with its refusals and rewinds, in the
order of `prepare_resume`), the restored context. A stage is `Begin` (status
RUNNING, results downstream dropped), then `Complete` or `Fail` (the status is
saved), `SaveData` and `SaveIndex` (its output, in the code's order), and the
upload (`sync_pipeline_to_s3`, or `SyncFails`, which sends a part of the files in
`_upload_order`). `request_stop` only asks while a checkpoint is written;
`CheckpointOnStop` is what a stop still does. `Kill` ends a run anywhere, each
write may fail. `Reconfigure` is the operator's change of a stage's settings,
`OtherRun` a run of another pipeline id that changes the registry.

An output is the identity of the execution that produced it, the identities it
was computed from, and whether it lacks units: what a property can tell apart.
A cache key is the settings of the stage and of those upstream of it
(`stage_cache_key`); a delta is the registry state and settings it came from.

Bounds: an operator asks for a stage only when the stages before it completed, a
rebuild only with a window that has loading, and every synced run starts on a
fresh host (an ECS task). `MaxChanges = 1` in `resume` because two changes
suffice for the finding of `resume_return`. `torn` marks a checkpoint in which a
status became durable without its output: the process ended between the two, a
write of the output failed, or an upload sent the new status over what is left of
an older output (`TornCopy`). `WholeCheckpoints` does not explore what follows one
(section 5 says what does). Not modelled: chunked files,
expiry, records written by a reset, stages that read only the stores.

### 2.4 ModelCalls

A worker (`Attempt`, `Return`, `Timeout`, `Fail`) makes the attempts of its item,
each in a thread (`lookup`, `Answer`, `update`, `discard_if_item_fails`,
`FlushInCall`, `Upload`). A timeout abandons the thread, which goes on. The
cache is what `LLMResponseCache` has: `entries` of earlier runs, `served`,
`pending`, `written`, `unsynced`. `flush` is one step under the lock; the
hand-off to S3 is outside it, a step per segment, so hand-offs of several
threads interleave. The pipeline's thread waits for the batch or is stopped
(`Completed`, `Stop`), flushes, uploads, and closes the cache. `NextRun` is a new
process that loads the segments of this host or of S3 (`Load`), after an end or
a kill.

A call that may exceed its timeout is `slow` and need never answer; any other
call ends. `unsettled` is a history variable: the items for which the code makes
no promise, because a write failed with their entry pending, the cache was
closed, or the timeout fell between the check for it (`Storable`) and the
registration of the discard. Not modelled: two items with one prompt, several
calls in an item, `uncached_responses`, a clock that steps back between the
writes of two segments (their names are times, and their order).

### 2.5 ConsoleJobs and AskService

Both run on one event loop, and an action is what happens between two awaits.
`ConsoleJobs`: a request reads (`Read`), claims its namespace (`Claim`, refused on
a `Conflict`), spawns its child (`Spawn`) and registers the job (`Register`), or is
cancelled. `Watch` records the end of a child, `Stop` and `Kill` end one,
`ShutdownBegin`, `ShutdownCut`, `ShutdownEnd` and `Crash` end the console,
`Restart` with `MarkLost` starts it again while children of the last one may
still run. Every save may fail.

`AskService`: a question enters (`Ask`, `Enter`), builds the chain in a thread
when there is none (`Build`, `Built`), uses it and ends (`Finish`, `Abandon`);
`Reset` retires the chain; `CloseIdle` closes retired chains nobody uses. `torn`
marks the chains whose build a reset overlapped.

### 2.6 TextUnitRemoval

`IncrementalIndexing` takes a removal as two steps over pairs of item and text
unit. This module is those steps in detail, for entities and edges:

`idle` -remove_text_units-> `delete_vector` -DeleteVector-> `delete_graph`
-DeleteGraph-> `derive` -Derive-> `note` -NoteStrip-> `gained` -WriteGained->
`edges` -WriteEdges-> `vector_edges` -WriteVectorEdges-> `kept` -WriteKept->
`delete_vector` and `delete_graph` again, for the retired ids -> `finish`
-ClearNote-> `record` -Record-> `idle`.

`remove_text_units` finds what cites the removed units (`CitedEntities`,
`CitedEdges`) and what an earlier strip noted. `DeleteVector` and `DeleteGraph`
are `delete_documents`, vector copies first. `Derive` is `_strip_shared` up to its
first write: it reads the shared items (`ReadShared`), draws in more for some
rounds (`NextRound`: other spellings, copies at the new ids, the edges of what is
re-keyed) and derives them. The four write steps are the phases of
`_write_stripped`. A request may do any part of its work and fail; `Stop` ends a
removal at any step, as a death or a failed read does.

A stored copy is the set of units it cites: its text follows from them. Which
entity the statement of a name belongs to depends on the units derived together
(`Resolved`), so removing a unit can re-key an entity, or merge two whose types kept
them apart; how names are compared stays outside. Two assumptions say what is asked of it.
`RemovalAssumption`: what is one entity for some units is one for fewer. And
`ResolutionAssumption`: an entity has the id of a spelling that is stated of it
(`Spelling`, the id a statement has on its own), one spelling is one entity, and
units that take all statements of an entity with them, or none, change no other
entity of its name. The resolver joins spellings pair by pair, each pair by the types
of the two groups it would join (`graph_resolver.py:103`, `_TypeAwareUnionFind`), so a
pair it kept apart has no part in what either becomes. That units which do not state
a name have no part in what it resolves to follows (`SameUnits`). Excluded by
the first: a removal that splits an entity, because only a removed spelling linked
two others (`derivation.py:87`, `split_from`).

Not modelled: claims, communities, reports and summaries, the note of a commit
(`KilledCommit` re-keys nothing), a graph store without read-back, id collisions
between unrelated names (`blocked`).

## 3. Runs

| Run | Shows |
|---|---|
| `lease_frozen` | with threads frozen for any time, renewals late or lost, retakes beside the run's own heartbeat and the lease dropped or changed between read and acquire: `FenceHeld`, `NoInterloper` |
| `lease_retake` | expected violation: a run that retook its lease is trusted without it (`RetakesHold`), section 5 |
| `lease_takeover` | `WritesExclusive` for three runs that die, are stopped or hand on their wait |
| `resets` | runs and a reset in any order, two documents with two items of the graph, one edit, one failure: `NoOrphans`, `ProcessedExact`, `ImplementsIndex` |
| `attempts` | three documents, one of which kills its run until edited, versions that share text units, two settings, one failure: only the culprit is quarantined (`OnlyCulprits`), and the runs settle (`Converges`) |
| `resume` | three runs with two faults and one change between them: what indexing commits is coherent (`OutputsCohere`), fresh (`DeltaFresh`) and knows its failures (`FailuresKnown`); a stop keeps finished stages (`StopKeepsWork`) |
| `calls` | the next run finds what this one's items got, and nothing of a failed item (`CarriesOver`); a failure is never a replay (`FailureIsFresh`); no segment is lost on its way to S3 (`NoSegmentLost`); a hung call does not hold the batch (`BatchEnds`) |
| `jobs` | two requests for one namespace, failing saves, two ends of the console: `OneJobPerNamespace`, `RecordsTrue`, `StopEnds`, `EndedIsSettled` |
| `ask` | three questions, two resets, a shutdown: `NeverClosedInUse`, `NoChainLost`, `FreshUnlessTorn`, `ReplacedCloses` |
| `removal` | removals after a full build or a killed commit, failing or dying anywhere, retried with any more units: both stores end as a full build leaves them, but for vector copies of edges to an entity that is not stored (`RemovalRebuilds`); `KeptStatementsStored`, `NothingComesBack`; a derivation ends before its bound (`Settles`) |
| `attempts_stall`, `resume_return` | expected violations, section 5 |

Bounds. Lease: two runs are the least that can conflict, the third run of
`lease_takeover` is the one to which a takeover wait is handed on; `Term = 3`
makes the fence's third one tick. In `lease_frozen` `Pause` exceeds `MaxTime`, so no
thread, frozen or waiting for an answer, ever holds the clock back, and `MaxTime`
lets two terms pass. In `lease_takeover` it lets a term and a takeover wait pass
and the writes after it, and a request (`Request = 3`) outlasts what is left of the term, without which a dead
run's last write would land before anyone can take its lease (the
module's docstring, `:28`, advises a longer term; the takeover wait is for shorter
ones). Clocks agree in the
runs; that they may differ by a third of the term is left to the proof of
`FenceHeld`, which holds for every such difference.
One write in flight per run suffices for `WritesExclusive`, a property of pairs.
Indexing: sharing needs two documents; one version before and one after an edit
needs two hashes; two items of the graph are one that a sweep drops and one that
it leaves; more failures and more resets than one are left to the proofs, which
hold for every bound; `MaxFaults` and `MaxEdits` bound what the environment does,
not how many runs follow. Deaths by `Killers` are not budgeted: quarantine
bounds them. Three documents give the bisection two levels. A run killed from
outside is charged to its documents, which the code cannot tell apart:
`OnlyCulprits` claims nothing once such a fault has happened.
Resume: four stages are loading, a stage with extraction settings, one more
whose output depends on it, and indexing; three runs are one that leaves a
checkpoint, one that changes it and one that resumes from it. Model calls: two
items and two attempts are the least with concurrent flushes and a retry that
overtakes a late answer. The scenarios have either two faults with a segment for
every response, or a call that outlives its item with up to one fault; the next
run is explored up to what it loads (`FirstBatch`). Console: two jobs can
conflict; three questions are one that builds, one that waits for it and one
that comes after a reset.

Removal: unit 1 keeps two spellings of two names apart, so removing it merges
both, one under the first spelling and one under the second, with the edges
between them; unit 4 relates one of the names to a third, which is stripped,
re-keyed or never committed. `DeriveRounds = 4` is more than that needs (the code
has 32). `MaxFaults = 1`: a killed commit or a full build, then one failed or dead
removal, then retries which may each remove more. Two failures were checked
without unit 4, and with it for retries that remove the same units.

Deadlock is not checked where the system may stop (runs and the clock of the
lease end, as do the bounded runs, jobs, questions and removals). It is checked for the
indexing runs, which can always start another.

`FenceHeld` and `NoInterloper` except a run that retook its lease across a request
of its own heartbeat (`crossed`): what becomes of it is what `lease_retake` shows.
They bound no pause, no renewal and no freeze. `WritesExclusive` holds under more
conditions, which the code's comments assume and each of which a finding shows to
be needed: no stale read of the holder, no
pause of a thread beyond a third of the term, no retake, a TTL no shorter than
the takeover wait, no renewal in flight when a run hands its takeover wait on
(section 5; in `lease_takeover`, where `Pause = 1`, such a renewal does no harm),
and either equal clocks or only two runs (with three, a late renewal of an ended
run with a fast clock can take and release another stopped run's expired lease).
The proof takes equal clocks.

### Fairness

`FairSpec` is weak fairness of `RunStep`: some run is started as long as there
is something to do, and a run that is not stopped goes on. The first is asked of
the operator (`src/docs/operations.md:1110`: "Start runs with a new pipeline id until
`total_documents_deferred` is 0"), the second is what a sequential
process does. Nothing is assumed of failures but that there are finitely many.
The lease has no liveness property: a run that finds it held fails at once.
`ConsoleJobs` assumes that a watcher whose child ended and a kill timer that is
due are run by the event loop, nothing of children, requests or saves;
`AskService` that questions and close tasks end, which their timeouts enforce.
`ModelCalls` assumes that the worker of an item and the pipeline's thread go on,
and that calls which are not slow return; nothing of a slow call, and nothing of
the model. `PipelineResume` claims no liveness.

## 4. Proofs

All proofs hold for any sets of runs, documents, versions and items and any
bounds; the assumptions are the named `ASSUME`s of the modules, which TLC also
evaluates in every run.

**Lease** (`NamespaceLeaseProofs`). `TypeCorrect`; `FenceImpliesLease`
(`Spec => []FenceHeld`); `OneWriter`, that two runs never pass the fence at the
same instant. `FenceHeld` is not inductive: a slow renewal may still be about to
land, or about to be answered. `LeaseInv` strengthens it with what secures the
lease until a run's own clock tells it to stop, and with what every renewal or
retake in flight may still do. Needed from the constants: clocks differ by a third
of a term at most (`ThirdAssumption`); pauses have no bound and runs may retake.
Both theorems except the runs for which `crossed` holds, of which the claim is
false (section 5). For the others `Uncrossed` says why the two threads do not
disturb each other: a renewal in flight is later than what the run trusts, and a
lease is given back only by a run that has lost it and is not retaking it.
The proof goes by actor: steps of other runs cannot take a
secured lease (`OthersKeepInv`), the run's own main and heartbeat steps renew or
give it up knowingly, and time passes the fence's limit before the expiry.
`NotOvertakenWhileTrusted` (`Spec => []NoInterloper` for clocks that agree, however
long threads freeze) rests on one more: an answer that is not too
late was applied by a registry whose clock is the run's, so a renewal that re-took
a lease is never trusted.

`WritesAreExclusive` (`Spec /\ []RenewalsAnswered => []WritesExclusive`) holds for
any number of runs that die, stop and take over, under the conditions of section 3
as `TakeoverConditions` states them of the constants. The invariant relates every
write in flight to every lease that could let another run write: the one in the
registry, and those that ended runs have still to give back (`WriteInv`). A lease
in the registry has not been overtaken by what an ended run may still do
(`OverInv`), and a run that took it meanwhile waits and keeps it until that can no
longer come, or hands its own wait on (`AfterInv`). `HeartInv` bounds how late a
run's heartbeat and its `_exit` are. `RenewalsAnswered` is a condition on
behaviours, not on constants: it excludes the finding at `namespace_lease.py:378`.

**Indexing** (`IncrementalIndexingProofs`). `TypeCorrect`, `NothingOrphaned`,
`ProcessedIsExact` and `Refinement` (`Spec => ImplementsIndex`). The invariants
are not inductive: whether recording a document PROCESSED is right depends on
what the run did five steps before. `Inv` adds, step by step of `pc`: the delta
is of documents that were read (`DeltaSound`); nothing of a new document was
ever written (`Fresh`); the documents a run touches are PENDING from the
write-ahead on (`Claimed`); what it will write lies in text units the registry
already names (`Planning`); before the commit the stores hold nothing of the
versions it removed (`Removing`); after it every item is stored or its document
is known to have failed (`Written`). `StoresHold` says of each document what its
record allows the stores to hold; since it speaks of one document at a time, a
batch of records written in part preserves it as well (`RegistryWritten`). One
lemma per action, then `Invariance`; the refinement splits steps into those that
write the registry (`RegistryStepsMove`) and those that write the stores
(`StoreStepsWrite`), never both.

**Attempts** (in the same module). `OnlyCulpritsAreQuarantined`
(`Spec => []OnlyCulprits`), for any number of documents that kill runs, any
limits and any edits between the runs. A quarantine depends on the batch an attempt
was opened in, several runs ago and perhaps by a run that died. `Innocent` adds to
`Inv`, as long as no other failure happened: a record that holds a death alone
holds it against content that kills (`Convicted`), and so does an attempt that a
run left open on a batch of one (`Caught`); the attempts of the run in progress are
at the content and the batch it has (`Ours`); what it is about to quarantine was
convicted at that content (`Guilty`). The step that matters is the death of a run
(`DeathKeepsInnocent`): with a batch of one, the document in it is the one that
killed. The claim ends with the first other failure, as the code cannot tell a run
that was killed from one that its content killed.

**Resets** (`FullBuildProofs`). `FullTypeCorrect`, `NothingOrphanedByResets`,
`ProcessedStaysExact` and `ResetsRefine`, each under `Repairable`: no reset has
all its documents quarantined, and failed writes of a whole index type are not
tolerated (`MaxFailurePct < 100`); section 5 says what happens otherwise. The
invariant is `Inv` while an incremental run is under way. During a reset no record
says PROCESSED from the first write to a store to the last (`Unvouched`), so
nothing is claimed of half-replaced stores; `Wrote`, `Swapped` and `Sweeping` say
of each index type dealt with what it holds if the rebuild can still be recorded,
`RebuildLanded` collects them before the records are written, and `Clearing` says
that nothing of a document about to lose its record is stored. What a batch of
records may do (`RecordingHolds`, `AheadHolds`) is shared with the proof above.

**Resume** (`PipelineResumeProofs`). `TypeCorrect`; `CommittedDeltaIsFresh`
(`Spec => []DeltaFresh`), for any number of stages, windows and deployments, with
torn checkpoints too. The rule that sends a resume back (`delta_is_stale`) looks
only at a resume that starts behind document_loading; the invariant says why that
suffices. On disk and in S3 a delta is recorded together with a result of loading
(`DeltaRecorded`), through every part of an upload, so a resume that goes back to
loading runs it or is refused. In a run (`Resumed`) a stale delta is about to be
computed again, or loading failed and indexing is blocked, or the run is past its
stages. The least and the largest of a set of stages exist by the well-foundedness
of `<` (`MinIn`, `MaxIn`).

`FailuresAreKnown` (`FailuresKnown`) and `OutputsAreCoherent` (`OutputsCohere`) take
two hypotheses, both of which `resume` meets and both needed (section 5): the
windows of enabled stages leave no gap (`Contiguous`), and a changed setting takes
a value not used before (`NewSettings`, `[][conf'[s] >= conf[s]]_vars`, values being
numbered as they come). One invariant carries both, `Coherent`, of checkpoints that
are not torn. The properties speak of the moment indexing runs; `Composed` says the
same of the context a run saves from. It can be rebuilt by a later run only if the
checkpoint is `Sound`: of a stage a resume can reach, every output the copy may
serve `Fits`, that is, was computed from the outputs the index names upstream, or
from none where no stage ran, with the delta recorded, and is recorded failed if it
lacks units. The output served may also be the one on the host, which the next
upload puts in place (`Served`). S3 is sound at all times; the disk is sound
until the run begins a stage (`Ran`), and from then on what it holds is what the run
has (`Saved`), so that it is sound again when the run ends. In between, what the run
restored leaves out nothing a save would keep (`Ready`, `Done`), and the output about
to be written is named by no index yet (`Writing`). The longest steps are `Start`
(every rule of the resume establishes `Composed` for what it restores), `Begin`
(what it drops downstream leaves the rest sound) and an upload cut anywhere.

`StoppedRunsKeepWork` (`Spec => StopKeepsWork`) needs windows without gaps and
nothing else: settings may be changed back and checkpoints be torn. With a gap it is
false: a stage that completed, lost its output and is not enabled keeps its status
in the next checkpoint, so each resume goes back to it and repeats the stages
behind. `Keeping` says, of a run that was not told where to start and whose stages
and writes did not fail, how far its checkpoint is `Clear`: no result unfinished,
no enabled stage skipped, every completed output served. While the run is at a
stage that is up to the stage before, with a delta no rule of the resume rejects
(`Current`), unless loading will compute another (`Following`); once it is past its
stages, or stopped at any point, it is every stage it finished (`Kept`), and the
last upload carries that over to S3. The other half is that no rule moves a resume
back to a clear stage (`StrategyBeyond`), and that a resume that lets a run start
leaves a checkpoint that is clear up to there (`AutoFollows`).

**Console** (`ConsoleJobsProofs`, `AskServiceProofs`). `NamespacesAreExclusive` and
`RecordsTellTheTruth`; `ChainsInUseStayOpen`, `ChainsAreAccountedFor` and
`AnswersAreFresh`. For the jobs the invariant says that a namespace has either one
claim, held by a request between its claim and its registration (`Claims`), or one
active job (`Exclusive`), and that a live child's job is settled neither in memory
nor in its record (`Unsettled`); only then can a restart tell which records to
call lost. For the chain it says that one question builds at a time and that there
is no chain meanwhile (`Locked`), that a chain in use is current or retired
(`Kept`), and that the current chain is of the current version unless its build
was torn (`Current`).

**Model calls** (`ModelCallsProofs`). `SegmentsAreKept` and `FailuresAreFresh`. The
first needs that a thread holds segments to hand off only while it hands them off
(`HandingOff`): a flush would otherwise overwrite them. The second needs that the
attempts of an item start in order (`Attempted`) and that an item which asked
nothing has looked up once, and was served then (`AskedOnce`). Type correctness
needs that the largest of a set of segment numbers exists (`MaxIn`), which is
proved from the well-foundedness of `<`.

`ResponsesCarryOver` (`Spec => []CarriesOver`) has no hypothesis. What the next run
loads depends on the order of the segments, on which of them were uploaded, and on
what a call of an earlier attempt still holds. `Remembered(i)` is what the segments
of this host load as once the pending entry of item `i` is written; no flush changes
it, whoever makes it (`FlushRemembers`). `Settled` says of an item still promised
something that a response in the hands of its current call is the one remembered,
that one which ended well is remembered and one that failed is forgotten, and that
a lookup would serve nothing else. An entry of the segments is known to `discard`
(`WrittenKnown`), and S3 and the queues for it hold only segments this host has
(`FilesHere`), so that the newest segment of an item is the same in both once all
are sent. The step that matters is a late answer of an abandoned attempt: it is
stored only if the discard that will remove it is registered.

**Removal** (`TextUnitRemovalProofs`). `TypeCorrect`; `StatementsStay`
(`Spec /\ []Settles => []KeptStatementsStored`) and `RemovedStaysRemoved`
(`Spec /\ []Settles => []NothingComesBack`), and `RebuildsAll`
(`Spec /\ []Settles => []RemovalRebuilds`, which leaves out the vector copies of
edges to an entity that is not stored), for any units, names and resolution, and
any number of failures and retries. `Settles`, that a derivation ends because a round
brings nothing more, is needed: the code stops at 32 rounds with a warning, and a
name would then be derived without the units of a spelling it did not reach.
`EnoughRoundsSettle` says when it holds: with more rounds than entity and edge ids,
since each round but the last brings one.

The heart is what a derivation may conclude from the items it has. Units that a
build gives one entity are one entity for fewer units (`Together`), and an entity
whose id survives keeps the units it has left (`Stays`); so what a live unit states
on an item is of the entity the item derives to (`Follows`, `FollowsEdge`). All live
units that state an item's name are among the items' units, because every
spelling stored was drawn in, and so the derivation gives the item what a build of
the live units would (`ItemNames`).

`Inv` has three parts. `Typed` is inductive alone. `Sound` holds at all times: a
statement of a live unit is kept on an item that the running deletion spares
(`KeptBut`), where the vector store's copy cites the unit too (`Keeps`), as a
removal looks for companions there; stored copies are of builds (`Stored`); what an
edge cites its ends cite (`Anchored`), except at vertices the note names, which a
strip may have left half-way. `Phases` follows a removal: it found all that cites a
removed unit (`FoundAll`); what is to be written is what a build of the live units
stores (`Stripping`), and a live statement is on an item that stays or on one to be
written (`KeptOrNew`); as long as no phase failed, what the earlier ones wrote is
there (`SoFar`), which is why the old ids may go (`Retiring`). The step that matters
is the last write (`KeptKeeps`): only if all phases succeeded does `KeptOrNew`
become `KeptBut` of the old ids.

That nothing is lost and nothing comes back leaves open what a retry does not look
at: a unit that left an entity may change which entities the other units of its name
are, and the derivation reads only the names it was led to. `RebuildsAll` therefore
rests on a second invariant, `Rebuilding`. Outside the note, the entities of a name
are those of one build of the live units and maybe others, some of them short of
units or gone, none of another build (`Named`); and both stores' copies of them cite
the same live units (`Mirrored`). Removing units, deleting whole entities and
dying anywhere keep this (`WithoutGone`), and where no entity of a name cites
a removed unit or is noted, each is as a build of the live units has it (`Untouched`):
such a name needs no derivation. The others were found (`VectorFound`) or noted, and
what is written for them is what the build has; so from the derivation on both stores
are rebuilt but for what is to be written and what is to go (`Rebuilt`, `Rewriting`,
`Leaving`), and at the end for nothing (`Complete`). The note is what makes it
true: a re-keyed entity is between two builds until its old id is gone, in one
store before the other, and a run that dies there is the case `Named` and `Mirrored`
except. The edges follow from the entities: what cites a unit is at the ends that
cite it (`Anchored`), and a unit is of one entity of each name (`OneEntity`).

Not claimed: `NoInterloper` and `WritesExclusive` where clocks differ. Model-checked
only: the liveness properties (`Converges`,
`StopEnds`, `EndedIsSettled`, `ReplacedCloses`, `BatchEnds`). Every other property
of a passing run is stated by a theorem.
Liveness under fairness and ENABLED are beyond this prover, as are induction
theorems, which take an operator, and RECURSIVE operators; no module that is
proved about declares one.

## 5. Findings

- `attempts_stall` (`domain/ingestion/delta_detector.py:351`): the attempt plan
  is made before the documents out of retries are dropped; when the half to
  process consists of such documents, every run processes nothing and defers the
  rest. With the two steps swapped the same instance converges.

- `lease_retake` (`application/ingestion/namespace_lease.py:442`): `retake()` runs
  beside the heartbeat, which is not stopped. A renewal is in flight when the fence
  fails, at two thirds of the term; `retake()` writes the lease; the renewal is
  answered past the term, counted from the `_renewed_at` that `retake()` has yet to
  set, so the heartbeat loses the lease (`:371`) and releases it (`:372`); `retake()`
  then clears `_lost`. Or the heartbeat is between `:371` and `:372` while `retake()`
  runs whole. Either way the fence lets the run write with no lease in the registry,
  where `:427` says "returns whether this run holds it again". The same overlap lets a
  renewal sent earlier be applied after the retake, and put a nearer expiry in the
  registry than the run trusts.

- `resume_return` (`domain/ingestion/cache_keys.py:1472`): a setting of a late
  stage that is changed and changed back, with a recomputation of the stages
  before it in between, brings the late stage's old output back over the new
  ones.

Seen while modelling, with the model changed for it, and kept out of the runs by
a condition the property or the bounds name:

- `indexing_manager.py:264`: a reset in which every document read is quarantined
  has nothing to write, finds no index suffix and replaces nothing; it is recorded
  as a rebuild all the same, and the records of the dropped documents go while the
  stores still hold them (`NoOrphans` with `EmptyResets = TRUE`). A test's comment,
  `src/tests/unit/test_incremental_reset.py:391`, takes such a reset to replace
  the stores.
- `opensearch_indexer.py:2334` with `incremental.py:824`: at `max_failure_rate` 1.0
  an alias swap that fails is a tolerated failure; the rebuild is recorded and the
  stale records are deleted over the index that was not replaced (`NoOrphans` with
  `MaxFailurePct = 100`).
- `namespace_lease.py:221`: a lease that was live when `__enter__` read it may be
  left expired by a stopped run (`_exit`, :280) before the acquire, which then
  succeeds without the takeover wait: the first write does not wait for the
  stopped run's requests in flight. The comment at :219 says "its run ended
  cleanly: no late writes to wait for" (`WritesExclusive` with `StaleReads = TRUE`
  in `LeaseTakeover.cfg`).
- `namespace_lease.py:366`: an answer is trusted for the full term of the run's
  own clock. With clocks two ticks apart, `Term = 6` and a frozen heartbeat, another
  host takes the lease, writes and releases it, and the late renewal re-takes it and
  is trusted (`NoInterloper`).
- `removal.py:726`: the phases of a strip go on after one failed. When the graph's
  edges fail, the vector copy of a re-keyed edge is written all the same; a retry
  that removes more units, so that the new id is not derived again, never looks for
  it (the note names old ids), and a relationship document that points at a deleted
  entity stays until its unit is removed or a rebuild. The comment there says that a
  run killed in between "leaves no vector edge without a graph edge", and
  `src/tests/unit/test_indexing_manager_delta.py:116` that no dangling document
  survives. `RemovalRebuilds` leaves such copies out.
- `namespace_lease.py:378` with `:300`: a run that ends in its takeover wait with a
  renewal in flight gives the lease up twice, with the expiry it found: `_exit`, and
  the heartbeat when the answer comes. If another run took, wrote under and left the
  lease between the two, the second puts the older expiry back, and the next run
  waits too short: `WritesExclusive` fails with `Pause = 3` ticks (`Term = 9`, four
  runs; it does not with `Pause = 1`). The comment at `:46` says that a late write
  of the previous holder lands before the next run's writes. The theorem excludes the
  case (`RenewalsAnswered`).
- `namespace_lease.py:372`: a run frozen past its term gives its lease back as
  released while a write that passed the fence before is in flight; and `:441`,
  `retake()` of a lease another run left expired does not wait for that run's
  writes. Both violate `WritesExclusive`.
- `pipeline.py:2021`: the status of a stage is saved before its output. A kill or
  a failed write between the two, or an upload that ends between index and
  metadata, or a failed write of the index followed by an upload that loses the new
  output, leaves a status over an older output of the same key; a resume then
  forgets failed units or mixes outputs (`FailuresKnown`, `OutputsCohere`). A
  comment at `pipeline.py:2132` expects the stage to rerun.
- `pipeline_manager.py:483`: an explicit resume from a stage without a record
  restores every completed stage, "by construction upstream of the resume target".
  After a run whose `--enabled-stages` leave out an earlier stage, a resume from that
  stage restores the later one's output, computed without it (`OutputsCohere` for
  windows with gaps; the theorem's `Contiguous`).
- `pipeline_manager.py:553`: an explicit resume past a stage killed while RUNNING
  starts without its output.
- `response_cache.py:199`: a timeout between `in_abandoned_attempt()` and the
  store, or before the discard is registered, leaves the late answer in the
  cache; `:239`: a flush clears what is pending before it writes, so a write that
  fails loses the removal entries too; `langchain.py:75` says that nothing is
  discarded when the batch is abandoned, but an attempt that fails then does
  discard. With two attempts or more each costs a later run one replayed attempt.
- `jobs.py:621`: a save that fails leaves a registered job without watcher;
  `:675`: one that fails in a stop leaves a job stopping that was sent no signal.
  `StopEnds` and `EndedIsSettled` therefore speak of saves that succeed.
  `:374`: the check that asks before a namespace is narrowed reads what it holds
  before the claim.
- `ask.py:247`: a reset during a build finds no chain to retire, and the chain of
  the old configuration serves on (`FreshUnlessTorn` excepts it).

## 6. Plan

Done, in the order of importance: (1) lease; (2) registry decisions and
incremental runs, their abstract specification; (3) the proofs of both;
(4) `ConsoleJobs` and `AskService`; (5) `PipelineResume`; (6) `ModelCalls`;
(7) `FullBuild`; (8) the proofs of (4), (6) and (7); (9) `TextUnitRemoval`;
(10) the proofs of quarantine and of the resumed delta;
(11) the proofs of `WritesExclusive`, `CarriesOver`, `FailuresKnown` and
`OutputsCohere`; (12) the proofs about `TextUnitRemoval`; (13) the proof of
`StopKeepsWork`; (14) the proof of `RemovalRebuilds`.
