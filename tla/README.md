# Verification of Lint-AI in TLA+

Lint-AI is a Rust program that turns documents (source trees, Markdown,
conversations of coding agents) into a persistent search index, and serves
searches over it: from the command line, from an HTTP memory server, from hooks
that coding agents (Claude Code, Codex, Gemini CLI, Agy) run at every turn, and
from MCP and recall servers. This directory holds TLA+ models of the parts of it
whose correctness depends on the order of events, TLC configurations that check
them on small instances, and TLAPS proofs of some of the results for every
instance. Source lines are those of the files under `src/`; `PROJECT.json` maps
every definition to the lines it translates.

Run the tools in this directory:

    tlc -workers 2 -config IndexStoreSafe.cfg MCIndexStore.tla
    tlapm IndexStoreProofs.tla

## 1. Inventory

The system has three planes. The *durable* plane keeps documents in directories
and changes them under crashes, failed saves and other processes. The *semantic*
plane derives from documents what a query needs: chunk versions, claims,
relations, facts, postings. The *query* plane answers from an immutable snapshot
of all that: one index, or segments of which some are chosen, or workers that
each hold a part. Around them, a command line indexes a tree of markdown once
per invocation.

### Index store (`src/src/pipeline.rs`, with `segments.rs` and `index.rs`)

*State.* In memory: the source documents, the records derived from them, a set of
documents whose records are out of date (`dirty_docs`), the removed documents
(`tombstones`), relations between documents, an immutable index snapshot that
readers share, its revision and the store's (`snapshot_revision`,
`store_revision`), a background build with the revision it is for, and a `dirty`
flag. On disk: `metadata.json`, `records.json`, `chunk_lifecycle.json`,
`core.bin` (single layout) or `segments.json` (segmented layouts), and a Tantivy
directory.

*Operations.* `at_path` (open), `upsert`, `remove`, `refresh`, `refresh_async`,
`query*` (which refreshes first), `published_snapshot`.

*Interactions.* All methods need `&mut self`; a background build runs on another
thread and is collected by a poll at the start of later calls. Other processes
may hold the same directory open; only the Tantivy writer lock (10 s wait) makes
them take turns.

*Hard.* Publication and saving are different steps; a save replaces several
files; a build may be overtaken by mutations; opening must make sense of files
of different saves and of a directory saved with another layout.

*Correct when* a clean store is current in every part, an overtaken build is
never published, what the next open finds is the whole image of one save.

### Memory service and HTTP server (`memory_api.rs`, `bin/server.rs`)

*State.* One `MemoryService` (index store, request fingerprints, superseded ids)
behind a lock, one immutable `MemorySearchService` that searches use, a writer
gate, and the requests in flight.

*Operations.* `/add`, `/add/batch`, `/delete`, `/supersede`, `/expire`
(mutations, one at a time or 429) and `/search`.

*Hard.* The mutation runs as a blocking task that a request timeout does not
stop, although the timeout frees the gate; the new view is swapped in after the
service lock is released; a mutation may fail at any step of its refresh; a
client retries; the server restarts and rebuilds its maps from what is stored.

*Correct when* an acknowledged memory is on disk, is found, and keeps its
payload; an acknowledged delete stays deleted; a published view is complete and
the latest.

### Shared memory directory (`integrations/*/hooks`, `integrations/recall.rs`)

*State.* Per project and provider one index directory; per process its own copy.

*Operations.* A hook that captures (open, upsert, refresh), a hook that
retrieves (open, query), a recall server (open once, query many times). A hook
has a time budget after which its process exits with the worker in it.

*Hard.* Read-modify-write over `records.json` by several processes.

*Correct when* a capture that ended with Ok survives, and no hook hangs.

### Session recording (`integrations/session_recording.rs`)

*State.* Per session `events.jsonl`, `manifest.json`, `manifest.json.tmp` and a
`.lock` file whose existence is the lock.

*Operations.* `record_event` (lock, on session start also
`mark_interrupted_sessions`, count lines, append, rewrite manifest, unlock).

*Hard.* Hooks are killed with the lock held or in the middle of an append;
manifests of other sessions are rewritten without their lock; all writers of a
manifest share one temporary file.

*Correct when* sequence numbers ascend, the manifest never runs ahead of the
log, recorded events stay readable, a completed session stays completed.

### MCP index

*State.* The project index `.lint-ai/<provider>-mcp-index`, an index store of the
project's documents with the memories copied in; `workspace-state.json`, the
HEAD, `git status` and ignored paths it was built for; `.initialization.lock`.
Each process has its own copy.

*Operations.* `open_persistent_store`, `sync_memory_documents`, and the tools
`search` and `list_memories` of a server.

*Interactions.* MCP servers of several sessions and `--recall` commands open the
same directory; only the opening is under the lock. Hooks add memories.

*Hard.* Documents, state and files are read and written at different moments
while the workspace is edited; a server saves its copy long after it has
released the lock; a killed process leaves the lock file.

*Correct when* an index that is not rebuilt describes the workspace, no captured
memory is missed, every open ends.

### Chunk lifecycle, relations and facts (`pipeline.rs`, `semantic_relations.rs`, `temporal_fact.rs`)

*State.* In an index store: for every chunk seen, its lineage (document and
place), version, what it supersedes and whether it is the latest; the latest
chunk of each lineage; the claims of the present documents, the relations
between them and a state per document (current, superseded, conflicted); facts
with the interval they held in.

*Operations.* `update_chunk_lifecycle_for_doc`, `remove_chunk_lifecycle_for_doc`,
the restoring of versions in `load_semantic_state`,
`SemanticRelationStore::try_from_documents`, `TemporalFactStore::from_records` and
its queries by date, range and subject.

*Interactions.* All are part of a refresh; a restart derives them again, from
documents that are made of records. Queries hide superseded documents.

*Hard.* A text that goes back to an earlier wording; undated claims; links that
contradict dates; what a record does not keep.

*Correct when* the chunks of a present document are latest ones, versions follow
one another, the newest word stands, and a restart changes none of it.

### In-memory index, ranking and time in questions (`index.rs`, `temporal.rs`)

*State.* `SemanticAggregate`, the postings kept document by document; the
`MemoryIndex` built of it; `core.bin`, what is saved of that.

*Operations.* `insert_doc_state`, `remove_doc`, building an index, `load_from_core`,
`query_with_lexical_hits_timed`, the temporal caller around it, and
`resolve_temporal_target`, which turns "last month" into a day.

*Hard.* Removing exactly what was inserted, in postings documents share; cuts at
four limits in a row; months that lack a day; three tables of time expressions.

*Correct when* the index is that of its records, answers stay in their scope and
are as full as they can be, and a loaded index answers as the saved one.

### Segments (`segments.rs`, `query_plan.rs`)

*State.* None between queries: a snapshot of segments and a catalog (summaries,
profiles, holders of each term).

*Operations.* Publication by manifest or by group, seven routing strategies,
adaptive widening, recovery of missing coverage, neighbours in time and by
connection, local enrichment, execution in batches, three reductions.

*Hard.* A chain of estimates, each of which may drop the segment the answer is
in; segments that panic; a reduction that sorts again what was selected in order.

*Correct when* plans are eligible and free of repetition, corrections never lose
coverage, and an answer that calls itself complete saw the best documents.

### Query workers (`remote_query.rs`)

*State.* None: the contract of a query that several workers answer in two phases.

*Operations.* Validation of requests and answers, `aggregate_statistics`,
`reduce_candidates`, merging of completeness.

*Hard.* Answers late, repeated, of another request or generation; two workers
with one document, or with one name for two segments.

*Correct when* the order of arrival changes nothing, the best answers are kept,
and a failure never looks like success.

### Command line and corpus (`engine.rs`, `graph.rs`, `rules/`, `adapters/`)

*State.* A tree of markdown, a configuration file, and the query cache: records,
core and lexical directory, in three places next to the working directory.

*Operations.* `run`: query, index, review, graph and exports, analyses; walking,
parsing, linking, ignoring; loading the cache if its fingerprint fits, else
building and saving it in steps.

*Hard.* The corpus is edited between the reading of it and the fingerprint; two
invocations save one cache; a crash leaves one part new and another old.

*Correct when* what is quoted from the cache is in the corpus, and a review
reports only what is wrong.

### Not modelled

| Part | Why |
|---|---|
| Query analysis and expansion (`query_semantics.rs`, `query_expansion.rs`) | what they read from the text of a query is an input of `MemoryIndex` and `SegmentQuery` |
| Chunking, tier 1, tokenizer, symbols, claim patterns | text analysis without state; chunks, terms and claims are inputs |
| Scores in floating point | integers of hundredths or thousandths; the order of equal scores is kept as the code has it |
| Symbol usage graph (`usage.rs`) | rebuilt from its inputs and kept by nobody |
| Promotion of recordings to memory, replay, usage, redaction | one pass over a closed log |
| MCP transport, health, installers, configuration files | framing and file editing, no shared state |
| `review.rs` second pass, `ownership.rs`, formats of output | one-shot reports |
| Dumps (`dump`, `load_from_dump`) | export and import of one file |
| Benchmarks | measurement only |

## 2. Modules

| Module | Contents |
|---|---|
| `DurableStore` | what an index store promises: a map of documents whose last saved image survives a stop |
| `IndexStore` | the index store, file by file and step by step |
| `MemoryServer` | handlers, tasks, service and published view of the HTTP server |
| `HookProcesses` | the hooks the next two modules are about |
| `SharedMemory` | processes over one memory directory |
| `SessionRecording` | hooks that record sessions |
| `McpIndex` | processes that open and rebuild one project index while the workspace is edited |
| `ChunkLifecycle`, `SemanticRelations`, `TemporalFacts` | the three derivations, as operators |
| `Knowledge` | a store that derives all three at every refresh and restart |
| `SemanticIndex` | aggregate, postings, intervals, core |
| `QueryTime` | calendar and expressions of time |
| `IndexScoring` | how an index answers |
| `MemoryIndex` | the index of a store under changes, saves, restarts and queries |
| `Ranking` | sorting with ties and cutting, used by all of the above and below |
| `SegmentCatalog`, `SegmentRouting`, `SegmentExpansion` | what the coordinator knows, how it ranks, how it widens |
| `SegmentQuery` | one query over a published snapshot |
| `QueryWorkers` | one query answered by several workers |
| `Corpus` | markdown as pages, links, chunks, and what the rules say of it |
| `CommandLine` | invocations over a corpus that is edited, and their cache |
| `FoldTheorems` | what needs induction and is not about one module: folds, rankings, joined sequences |
| `IndexStoreProofs`, `KnowledgeProofs`, `MemoryIndexProofs` | theorems about the module each is named after |
| `SegmentProofs` | theorems about `SegmentQuery` and the three modules it extends |
| `ServerProofs` | theorems about the two servers: `MemoryServer` and `McpIndex` |
| `HookProofs` | theorems about what hooks share: `SessionRecording` and `SharedMemory` |
| `QueryProofs` | theorems about what a query is answered with: `QueryWorkers` and `CommandLine` |
| `MC...` | constants for TLC |

*Composition.* `IndexStore` implements `DurableStore` (`DurableSpec`, a
refinement mapping: `live` is `sourceDocs`, `saved` is what opening the directory
would load); `MemoryServer`, `SharedMemory` and `McpIndex` take the store at that
level: a refresh saves everything at once or fails at one of its steps.
`Knowledge` and `MemoryIndex` look into the same refresh from the other side:
they take the store as sequential and show what is inside the image it saves.
`Knowledge` extends the three derivations, `MemoryIndex` extends `IndexScoring`
over `SemanticIndex` and `QueryTime`, `SegmentQuery` extends `SegmentExpansion`,
`SegmentRouting` and `SegmentCatalog`, `CommandLine` extends `Corpus`.

An operator whose name ends in `_Something`, after the name of another one, is a
mutant: the same operation with a plausible mistake in it. Substituted for the
operation it makes TLC report the property `PROJECT.json` names ("mutants"),
which shows that the property depends on that part of the code. Nothing else
uses them.

### IndexStore

| TLA+ | Code |
|---|---|
| `sourceDocs`, `records`, `dirtyDocs`, `tombstones`, `snapshot`, `snapshotRevision`, `storeRevision`, `dirty` | fields of `IndexStore` |
| `relations` | the documents `semantic_relations` was computed from |
| `background` | `background_refresh`; `ready` when the thread has sent its result |
| `recordsFile`, `coreFile`, `manifestFile`, `lexical` | files, and the committed Tantivy directory |
| `phase` | where a refresh is between publishing and its last file |
| `Open`, `OpenRejected` | `build_with_store_paths`, `load_semantic_state`, `load_from_core_with_options` |
| `Upsert`, `Remove` | `upsert`, `remove` |
| `PrepareSucceeds`, `PrepareFails` | `prepare_pending_changes` |
| `Refresh`, `RefreshAsync`, `RefreshFails` | `refresh`, `refresh_async`; the poll both begin with is in their guards |
| `PublishBackground`, `BuildDone`, `BuildLost` | `poll_background_refresh` and the thread |
| `PersistRecords`, `PersistIndex`, `PersistFails` | `persist_compatibility_state` |
| `Crash`, `Close` | the end of the process |

A record, an index entry or a relation is represented by the content it was
derived from, so that "stale" means "derived from other content". A query is a
refresh; its results are not modelled. `AdaptiveSegmented` is `Segmented` here.
`metadata.json` and `chunk_lifecycle.json` are not read when documents are
loaded: failing to write them is `PersistFails` at the step they belong to.
Stores without a directory (`in_memory`) are the same without the files.

### MemoryServer

`Admit` takes the gate and spawns the task, `Mutate` is `publish_mutation` under
the service lock, `Swap` the replacement of `published_search`, `Respond` the
answer, `TimeOut` the timeout layer dropping the handler (gate freed, task kept),
`Detached` the end of a task nobody waits for, `Restart` a new process over the
same directory. `AddUnpublished`, `AddOutcomes`, `DeleteOutcomes`,
`SupersedeOutcomes`, `ExpireOutcomes` are the methods of `MemoryService` with
all their early returns; `RefreshOutcomes` gives the three ways a refresh fails.
`acked` is a history variable: memories whose add was answered with success and
that no mutation has removed since. One user and one message per request are
modelled: maps are keyed by user, and the messages of a request share its fate,
since all of them are validated before the first is stored.

### SharedMemory

A process reads the directory (`ReadFile`), sends records to the lexical index
under its writer lock (`LockWriter`, `Commit`, or `LockTimeout` after 10 s),
and replaces `records.json` (`Save`). `Die` is the hook's budget, or a kill.
`crossed` is a history variable: memories saved while another process was
between reading and saving.

### SessionRecording

`Begin`, `Acquire`, `GiveUp`: `record_event` up to its lock. `Look`,
`MarkWrite`, `MarkRename`: `mark_interrupted_sessions`, manifest by manifest.
`Count`, `CountFails`, `AppendEvent`, `AppendFails`, `ReadManifest`,
`WriteManifest`, `RenameManifest`, `RenameFails`: the rest of it. `Crash` kills a
hook anywhere, possibly in the middle of an append. A line is its sequence
number, or `Bad` if no event can be read from it. Writing the temporary file is
one step (the code writes it with one call); an initial manifest is created
atomically, since no other writer touches the files of a session that has none.

### McpIndex

| TLA+ | Code |
|---|---|
| `workspace`, `StatusOf` | the project, numbered by its edits, and what git says of it |
| `file`, `stateFile`, `lock` | `records.json`, `workspace-state.json`, `.initialization.lock` |
| `copy`, `dirty`, `listed`, `state` | the store of a process, the documents it has listed, the state it has read |
| `Start` | a server lists the documents (`CodexMcp::store`, `ClaudeMcp::store`); recall does not yet |
| `Acquire`, `WaitTimeout` | `StoreInitLock::acquire`, then `IndexStore::at_path` |
| `Check`, `List`, `Save`, `Mark`, `Sync`, `Resave` | `open_persistent_store`, in its order |
| `OpenFails`, `SaveFails`, `MarkFails`, `ResaveFails` | its error returns, which drop the lock |
| `Search`, `ListMemories`, `Answer` | the tools of a server; the one query of a recall command |
| `Killed` | the end of a process that leaves its lock file |

`known` (the memories captured when a process got the lock) and the field
`sound` of an index (listed and saved by a process that held the lock all the
while and reached the state file) are history. A copy is represented by the
workspace it was listed from; a memory that is copied in is a document like the
others, and a rebuild removes it until the synchronization that follows.

### Knowledge

| TLA+ | Code |
|---|---|
| `sources`, `records`, `dirty`, `tombstones` | the fields of `IndexStore` |
| `life` | `chunk_lifecycle` and `chunk_latest_by_lineage` |
| `facts`, `states`, `saved` | `temporal_facts`, document states, `records.json` |
| `Upsert`, `RemoveDocument` | `upsert`, `remove` |
| `Refresh` | `prepare_pending_changes` and the save after it |
| `Reopen` | `load_semantic_state`, `build_with_store_paths` |
| `UpdateChunks`, `RemoveChunks` | `update_chunk_lifecycle_for_doc`, `remove_chunk_lifecycle_for_doc` |
| `ExtractClaims`, `Relations`, `DocumentStates` | `extract_claims`, `try_from_documents`, `build_document_states` |
| `IngestFact`, `AsOf`, `EventsBetween`, `WindowAround`, `Timeline` | `TemporalFactStore` |

A chunk is its place and its text; its id digests both, its lineage only the
place. A sentence is the claims found in it. Confidences are hundredths. A
restart makes documents of records, whose concept is their first heading or top
term (`Restored`, `pipeline.rs:1684`). Where the code walks an unordered map
(which of two latest chunks a lineage gets at a restart, which of two documents
wins a tie), the choice is free (`LatestChoices`, `Orders`).

### MemoryIndex

`Upsert` and `RemoveDocument` change records and aggregate, `Refresh` builds the
index and saves records and core, `Reopen` loads both (without claim scoring and
text comparison, as the code does), `Query` is the temporal caller. `PostingRows`
are all ways a document becomes a candidate; `Scores`, `GroupScore`, `Weighed`
and `Taken` are the passes of `query_with_lexical_hits_timed` in their order;
`Kept` and `TimeScore` are what the temporal caller does to its answer. Weights
are the code's, in thousandths; recency, which halves every 30 days, is taken on a
line between two halvings. `order` breaks the ties the code leaves to a hash
map. A question is given by its parts (terms, entities, intent, expressions of
time, options); `ResolveTarget` is `resolve_temporal_target`, expression by
expression, on a calendar of leap years and months.

### SegmentQuery

`Published` chooses the manifest or the groups; `Catalog` builds the summaries.
`Plan` ranks the routes and cuts them for one of ten modes: the store's two and
the library's eight. `ExecuteBatch` runs at most `Concurrency` segments and
catches panics, `ExecuteEnriched` runs all and catches none (`PanicEnriched`).
`ReduceDefault` and `ReduceEnriched` are the reductions. `Allowed` is the
allow-list of the query plan: filter pairs some document carries (the others are
dropped segment by segment, as in one index), and what is not superseded. Every
document carries the score its segment would give it, and the part of it that
came of links and entities.

### QueryWorkers

`CountTerms`, `ScoreCandidates`, `Redeliver` and `Tick` are the workers, the
network and the clock, which are outside this repository; `CloseStatistics` and
`CloseCandidates` call `aggregate_statistics` and `reduce_candidates` on what has
arrived. Validations are operators named after the types they belong to. Sums
saturate at `CounterMax` as the code's do at `u64::MAX`.

### CommandLine

A process is one invocation: `Start` reads the configuration, `TakeFingerprint`
and `ReadCorpus` read the tree (a query in this order, the others in the other),
`LoadRecords` and `LoadCore` take the cache if its fingerprint fits, `BuildIndex`
makes one, `OpenLexical` and `FillLexical` are `build_lexical_index`,
`TruncateRecords`, `SaveRecords` and `SaveCore` the steps of saving. `Edit` and
`Configure` are the user; `SaveFails` and `Crash` happen at any of these steps.
The two reads of the tree are atomic each: a walk that meets an edit is not
modelled. `Corpus` stops taking pages when the total size is reached, as the
adapter does; `Covered` says whether the fingerprint, which counts pages that
are too large towards that total, went on as far. What answers a query is represented by the documents each part of the index was built
of; the allow-list of current documents is not part of `Results`.

## 3. Runs

| Run (cfg) | Shows | Instance |
|---|---|---|
| `IndexStoreSafe` | `CleanIsCurrent`, `BuildOfThisRevisionIsCurrent`, `ReopenedIsSearchable`, `CompletedSaveAgrees`, `LexicalComplete`, `GenerationMonotonic`, `DurableSpec`, `EventuallyClean` | 2 documents, 2 contents in 2 segments, both layouts, 3 mutations per process, 2 faults of any kind |
| `MemoryServerHandlers` | `AckedIsDurable`, `AckedIsSearchable`, `LatestIsPublished`, `PayloadStable` | 2 requests at a time, 1 key, expiring payloads, batches of 2, 2 faults of each kind |
| `SharedMemorySafe` | `UncrossedCaptureSurvives`, `EveryHookEnds` | 2 hooks, 1 recall server, 2 memories |
| `SessionRecordingSafe` | `SequenceIsLine`, `ManifestNeverAhead`, `AckedReadable` | 2 hooks, 2 sessions, 3 lines, 1 crash, 1 failed append |
| `McpIndexSafe` | `MarkedIsCurrent`, `RecallAnswersFresh`, `KnownMemoriesServed`, `EveryOpenEnds` | 1 server, 2 recall commands, 2 sets of ignored paths, 2 edits of which git shows one, 1 memory |
| `KnowledgeSafe` | `CurrentChunksAreLatest`, `VersionsCount`, `NewestWordStands`, `FactsTellThePast`, `StatesSurviveReopen` | 3 documents, 4 changes |
| `KnowledgeVersions` | violates `OneLatestPerLineage` | the same |
| `MemoryIndexSafe` | `IndexIsOfItsRecords`, `AnswerStaysInScope`, `AnswerIsFull`, `TargetIsInThePeriod`, `AnswerSurvivesReopen` | 3 documents of up to 2 chunks over 5 tokens, 3 changes, all options on or off, limits of 1 to 3, a question per intent and per expression of time |
| `SegmentQuerySafe` | `PlanIsEligible`, `RecoveryGrowsCoverage`, `SelectionOrderIsFinal`, `CompleteAnswerSawTheBest` | 3 groups of 1 or 2 documents over 6 terms, by group or manifest, in one segment or several, filtered and superseded documents, every mode and strategy, 2 segments at a time, any of which panics |
| `QueryWorkersSafe` | `ArrivalOrderIsIrrelevant`, `BestAnswersAreKept`, `FailureIsNeverHidden` | 3 workers, 3 answers per phase, counters up to 6, 1 step to the deadline |
| `CommandLineSafe` | `CachedTextIsCurrent`, `ReportedPagesAreCutOff` | 2 invocations at a time, 3 in all, 4 pages, two configurations of which one cuts large pages, one total or the other per behaviour (`MCOneLimit`), 1 edit, 1 fault |
| `CommandLineStale` | violates `AnswersReadTheCorpus` | 1 invocation at a time, 2 in all, 1 edit, no fault |

*Why the bounds are enough.* Every interaction the properties are about involves
two actors: a build and the mutation that overtakes it, a file of one save and a
file of the next, a task and the one that runs beside it, two processes, a hook
and the one that marks its session, two invocations over one cache. Two documents
tell a stale mixture from a whole image; three mutations let a build be started,
overtaken and built again; two faults let a failure be followed by another while
recovering from the first. Three lines let an event follow a torn one and be
followed by another.

A chain of versions goes wrong when a text returns, which takes three changes; a
fourth lets a restart or a removal follow. Three documents make an explicit link,
a later claim and a bystander. The postings of a shared token need two holders
and one removal. The limits of the index (`MaxPostings`, `GraphWindow`,
`RerankWindow`, `FinalWindow`, `GroupLimit`) are small so that each of them cuts: two postings per
key, where three documents may share a token; the day of the
query and the references of its questions stand at the end of a month, of a
February and of a week. Routing has three segments, so that one is left out and
may be brought back, and pools and limits below that number where the code has
large ones. Three workers, of which two share a segment name and all hold a
version of one document, make every collision the reduction must settle.

Symmetry is used for handlers, hooks, sessions and invocations, only in runs
without liveness.
Type invariants are kept in the modules; those the proofs establish are not
checked again by the runs.

*Deadlock* is checked where the system never stops. It is not in the runs of
`SessionRecording` (a full log and a lock nobody holds any more), `Knowledge`,
`MemoryIndex` and `CommandLine` (all changes made), where the bounds end the
behaviour.

*Fairness.* `IndexStore!Fairness`: a method that runs goes on, the background
thread finishes, and a client searches again and again (each search polls and
refreshes); mutations and faults have no fairness, and the number of faults is
bounded. `MemoryFairness` of `SharedMemory`: a running process goes on, one fairness
condition per process over all its steps, so that nothing assumes that a given
process ever gets the lock; the fairness of `McpIndex` is the same. The others
claim no liveness: their waits are bounded by construction (the gate is never
waited for, the lock file is tried 500 times, a query is a fixed list of steps).

*Conditional properties.* `LatestIsPublished` and `AckedIsSearchable` hold until
a request times out: a task that outlives its handler runs beside the next one
and may swap in the older view last; later mutations publish again, but a search
in between misses an acknowledged memory. `AckedReadable` and
`ManifestNeverAhead` hold until an append fails without a crash: the torn line
stays, and the next event is written at its end. `LexicalComplete` holds until
the lexical writer lock is refused: the dirty set is empty by then, so that the
lexical directory stays behind until it is opened again. `ReopenedIsSearchable`
is about segmented layouts: a single-layout directory whose save was interrupted
serves the postings of the old core until a mutation is saved, and cannot be
opened at all if that core was empty (`OpenRejected`). `MarkedIsCurrent` and
`RecallAnswersFresh` are about sound indexes: one saved by a server, or by a
process that failed before it wrote the state, may be taken for what it is not.
They also assume that the status of the workspace never returns to what it was:
after a rebuild that failed, setting the workspace back to an earlier commit
makes the old state file vouch for the new index.

`StatesSurviveReopen` is about documents that have a group: without one the
concept of a document may be its scope, a record does not keep it, and after a
restart two services under one generic heading share theirs.
`AnswerSurvivesReopen` is about options a loaded index honours, and about indexes
in which no key is in more documents than `MaxPostings`: of more, the code keeps
those it meets first among equal scores, in the order of a `HashMap`
(`index.rs:3316`–`3338`), which a reopened index need not share.
`AnswerStaysInScope` demands all filter pairs of a query only if each of them is
carried by some document (section 4).
`AnswerStaysInScope` and `AnswerIsFull` judge an answer by the index that gave it,
as action properties, since the index loaded by a restart may lack the claims by
which a hit was found; and `AnswerIsFull` is about indexes no larger than the
final window, beyond which the code cuts the ranking before it groups.
`CachedTextIsCurrent` excludes an edit between the two reads of one invocation,
which puts the text of one time under the fingerprint of another, and a cache
saved under other limits or ignores, which the fingerprint does not cover. It also
excludes corpora larger than `max_total_bytes` in which the fingerprint stops
before the corpus does (`Covered`): the fingerprint counts a page that is too
large towards the total (`engine.rs:757`), the corpus skips it first
(`adapters/markdown.rs:132`), so that a page which is indexed may be edited
without the fingerprint changing. `TargetIsInThePeriod` takes weekends as their
weeks: "last weekend" contains "last week", which is looked for first, so that the
branches for weekends and periods are never reached. What only the library `temps`
reads is left out of it: the words are resolved from today and the answer moved by
the days between today and the anchor, which leads from "a month ago" to another
day than a month before the anchor. The library is asked at one moment; the code
asks the clock twice.

`refresh_async` and `query_latest` are private, marked `allow(dead_code)` and
called by the tests of `pipeline.rs` only; they are modelled since the poll of a
background build is part of `refresh` and of the documented concurrency.

A store is modelled as always opened with the layout it was created with. The
code does not check it: `load_semantic_state` (`pipeline.rs:1718`) ignores
`records.json` if the layout is single and `core.bin` does not exist.

## 4. Disagreements found

1. *Two latest chunks* (`pipeline.rs:1234`, run `KnowledgeVersions`): when the
   text of a heading goes back to an earlier wording, the chunk seen before is
   made latest again and the one it takes over from keeps `is_latest`.
   `docs/artifact-indexing.md:385-387` says "prior latest is marked `is_latest =
   false`". `CurrentChunksAreLatest` holds all the same: nothing current is lost,
   something past counts as current.
2. *Stale lexical directory* (`index.rs:1443`, run `CommandLineStale`): a query
   after an edit rebuilds records and postings and opens the lexical directory
   the earlier query filled, which nobody updates. `docs/releases/0.1.3.md:27`
   says that a cache reload rebuilds when fingerprints differ.

Seven more were seen while modelling and proving. They are what the
conditions of section 3 exclude, and each of these conditions is needed:

- *a filter that matches nothing is dropped* (`index.rs:1969`): a pair that no
  document carries has no posting, `filter_map` skips it, and only the other pairs
  are intersected; `doc_bitmap_matching_filters` (`index.rs:1996`), which filtered
  queries of a store use (`pipeline.rs:1334`), does the same, and every segment on
  its own (`segments.rs:340`). So a query for one pair that a document carries and
  one that none carries is answered with that document. `index.rs:1940-1941` says
  "All supplied filter key-value pairs must match a document's `filters` map for it
  to be included in results", `index.rs:1957` "every supplied key-value pair", and
  `docs/filtered-search.md:77-79` "a document that is missing a required key does
  not match"; `query_with_filters_multi` (`index.rs:2064-2071`), which compares the
  records, keeps to them. `AnswerStaysInScope` without its condition is violated
  by the instance of `MemoryIndexSafe` in four states, by the question about the
  pairs 1 and 9 (`MCQueries`);
- a batch refused in the middle leaves its earlier requests in the service
  (`memory_api.rs:144`), and the next mutation that needs no refresh publishes a
  view whose index does not cover them;
- a delete whose save failed is answered with success when repeated, without
  saving (`memory_api.rs:310`); a restart brings the memory back;
- of two captures that overlap the second removes the first
  (`hooks/mod.rs:414`), as does the first query of a recall server that opened an
  empty store: `crossed` in `SharedMemory`;
- a session start may overwrite the manifest of a session that has just
  completed (`session_recording.rs:839`);
- a server lists the documents before it waits for the lock and reads the
  workspace state after it (`codex/mod.rs:268`): `sound` in `McpIndex`;
- the fingerprint of the query cache stops at `max_total_bytes` before the corpus
  does, if files too large for a document come first (`engine.rs:757`):
  `Covered` in `CommandLine`.

## 5. Proofs

Every theorem holds for all values of the constants that satisfy the assumptions
of its module: any number of documents, contents, processes and faults, where the
runs of section 3 have a few. The bounds in the guards stay, but their values are
arbitrary. Before it was proved, every strengthened invariant was given to TLC on
the instance of its run. The assumptions are of four kinds: types of the
constants; values that stand for "nothing" are no value of what they stand in
for (`SentinelAssumption`, `NothingAssumption`, `NoFileAssumption`,
`NoneAssumption`), which in the code is `Option`; what ids digest and that lines
count from 1 (`ChunksAssumption`), and that a walk over an unordered map takes its
keys one after the other (`OrdersAssumption`); and finiteness of what a program can
hold.

| Property | Theorem | Argument |
|---|---|---|
| `CleanIsCurrent`, `BuildOfThisRevisionIsCurrent`, `GenerationMonotonic` | `IndexStoreProofs` | `IndInv` |
| `ReopenedIsSearchable`, `CompletedSaveAgrees` | `IndexStoreProofs` | `IndInv`, `SaveInv` |
| `LexicalComplete` | `IndexStoreProofs` | `IndInv`, `LexicalInv` |
| `DurableSpec` | `IndexStoreProofs!Implementation` | step by step, under `IndInv` and `SaveInv` |
| `AckedIsDurable`, `PayloadStable` | `ServerProofs` | `MutationInv` |
| `LatestIsPublished`, `AckedIsSearchable` | `ServerProofs` | `MutationInv`, `AloneInv` |
| `UncrossedCaptureSurvives` | `HookProofs` | `SharedInv` |
| `SequenceIsLine` | `HookProofs` | `LogInv` |
| `ManifestNeverAhead`, `AckedReadable` | `HookProofs` | `LogInv`, `UntornInv` |
| `MarkedIsCurrent`, `RecallAnswersFresh`, `KnownMemoriesServed` | `ServerProofs` | one invariant |
| `VersionsCount`, `CurrentChunksAreLatest` | `KnowledgeProofs` | `KnowledgeInv`, `FoldTheorems` |
| `NewestWordStands`, `StatesSurviveReopen` | `KnowledgeProofs` | `StatesInv`, `StatesAre` |
| `FactsTellThePast` | `KnowledgeProofs` | `FactsInv`, `PastIs` |
| `IndexIsOfItsRecords` | `MemoryIndexProofs` | `IndexInv`, `TreeQueryIsExact` |
| `TargetIsInThePeriod` | `MemoryIndexProofs` | `CivilOfDay`, `CivilOfDate`, `OneExpression` |
| `AnswerStaysInScope` | `MemoryIndexProofs` | `BuiltInv`, `Usable`, `PostingRowsAreValued` |
| `AnswerSurvivesReopen` | `MemoryIndexProofs` | `BuiltInv`, `AssembledAgain`, `OrderIsIrrelevant` |
| `AnswerIsFull` | `MemoryIndexProofs` | `BuiltInv`, `Usable`, `TakenIsFull`, `RoomIsAllowed` |
| `ArrivalOrderIsIrrelevant` | `QueryProofs` | `WorkersInv`, `ByDocumentIsBest`, `FoldReordered` |
| `BestAnswersAreKept` | `QueryProofs` | `WorkersInv`, `ByDocumentIsBest`, `RankingIsExact` |
| `FailureIsNeverHidden` | `QueryProofs` | `WorkersInv` |
| `CachedTextIsCurrent` | `QueryProofs` | `CacheInv`, `SameCorpus` |
| `ReportedPagesAreCutOff` | `QueryProofs` | `ChainsAreFound`, `LeadsIsFound` |
| `PlanIsEligible` | `SegmentProofs` | `QueryInv`, `IsPlan` |
| `RecoveryGrowsCoverage` | `SegmentProofs` | `RecoveryInv`, `WeakIsNotAlone` |
| `CompleteAnswerSawTheBest` | `SegmentProofs` | `GatheredInv`, `HeadOfPart` |
| `SelectionOrderIsFinal` | `SegmentProofs` | `SelectionInv`, `PickedKeeps` |

`TypeOK` is proved invariant where a module has one and a proof needs it.

### IndexStoreProofs

- `TypeCorrect`: `TypeOK`, together with the fact that a save in progress has a
  snapshot, which the type of `coreFile` and `manifestFile` needs.
- `IndInvHolds`: `CleanIsCurrent` alone is not inductive: a store becomes clean at
  the last step of a save, so the invariant must say already that whatever is
  being saved is current; a save may have been begun by publishing a background
  build, so that the build must be current while its revision is the store's; and
  a build stays current under failed and synchronous refreshes because nothing is
  pending while the revision has not moved.
- `SaveInvHolds` follows a snapshot from its build (in one piece, under the layout
  of the directory) through the two file replacements of a save. The delicate
  case is an error in the middle of a save that was begun by publishing a late
  build in a *clean* store: that store stays clean. `SavedWhenClean` says why no
  harm is done, its files are those of its documents already.
- `LexicalInv`: the lexical directory is changed in place while the index is
  replaced as a whole. A document removed and put back between two refreshes would
  fall between the two, were it not that no present document is a tombstone
  (`TombstonesAbsent`), since `prepare_pending_changes` deletes after it adds.
- `Implementation`: the save of `DurableStore` happens when the next open would
  find the new image: as a rule when `records.json` is replaced, in a single-layout
  directory without `core.bin` when that appears (`RecordsReplaced`,
  `CoreReplaced`). Every other step is a stutter, or a load.

### ServerProofs

*The memory server.* `MutationInv` says that what a client was told, or is about to be told
(`Spoken`), is in three places, the documents of the service, their file and its
index, and that this stays so when a later refresh fails and leaves the store
dirty; that a clean store is on disk as it is; and that every stored payload has
its fingerprint, which is why a repeated add is recognized after a restart too.
`AckedIsDurable` holds with time-outs. `AloneInv` is conditional on their absence:
then the gate belongs to whoever waits, there is one task, and the view it swaps
in is still the latest. What a batch does is an induction over its requests
(`PartlyAdded`, an instance of `FoldTheorems`), which covers batches refused in
the middle.

*The index of a project.* `FileFits` and `CopyFits` say which state describes which index
at each step of an open: the state file describes `records.json` except between
`Save` and `Mark`, when the state the process has read does; a process that is
killed there leaves the lock, so that nobody is misled. `Exclusive` gives that no
other process is between those steps, and `ListedInv` that recall lists after it
has read the state, so that the index can only be newer.

### HookProofs

`UncrossedCaptureSurvivesHolds`: a copy that is going to be saved holds every
capture not crossed, because it was read after that capture was saved, or the
capture would be crossed.

`LogInv`: the lock file makes the count of the lines and the append one step for
the other hooks of a session (`CountIsFresh`), also where the hook that created it
has died, since then nobody appends any more. `UntornInv`: a line torn by a kill
is under a lock nobody releases (`TornIsLocked`), which is why only an append that
failed without a crash is excluded from `ManifestNeverAhead` and `AckedReadable`;
and every copy of a manifest, in the memory of a hook that marks another's session
without its lock, in the temporary file they share, or in place, counts no more
than the log has, which it cannot lose.

### FoldTheorems

The refresh of a store and the batch of a server are folds (`FoldSet`,
`FoldLeft`) over data of any size. An induction scheme with an operator parameter
cannot be instantiated by the provers, but a module can: `FoldTheorems` has the
step, the choice of the next element and the invariant as CONSTANT operators, and
proves by well-founded induction over the subsets of a finite set that the
recursive function a fold is exists (`FoldExists`), is the one `CHOOSE` picks
(`FoldIsUnique`) and keeps the invariant (`FoldInduction`). A proof instantiates
it with its step and cites the result; so induction over data is proved where the
model has it as a fold, and left to TLC where it is a recursion of its own.
`FoldReordered` is for folds whose steps commute: any element may be taken last
(`AnyIsLast`), and so the elements may be dealt out in another order.

`FoldHasTrace` is for folds over a sequence: the states on the way, one after the
other; `IterationHasTrace` says the same of a function that is defined from each
number to the next.

Two more facts that need induction stand here because several modules cite them.
`RankingIsExact`: sorting by a total order lists every element of a finite set
once. `JoinedIsExact`: joined sequences have the elements of their parts.

### KnowledgeProofs

`KnowledgeInv`: every entry agrees with the id it stands under (`IdsAgree`), so
that the refresh of one document touches no chunk of another; what a chunk
replaced is remembered one version below it (`CountsFromKnown`), and is forgotten
only with its whole document; the record of a document that is not dirty has
latest chunks (`CleanIsLatest`), also in what was saved. The folds over tombstones
and dirty documents are those of a refresh, in whatever order they are taken.

The status of a document is the outcome of a fold over the relations of its store,
in an order that an unordered map decides. `StatesAre` says what the outcome is
without any order: a document is superseded if a link names it, or if a sure
enough relation replaces the one claim it makes; else it is in conflict if a
relation disputes it; else it is current. The way there:

- By `RankingIsExact` the sorted claims are the claims (`ClaimsAreSorted`), and the
  explicit links are all there in every order (`LinksAre`); relations are joined
  from parts (`FlattenIsExact`).
- `RelationsAre`: a relation implied by two claims is dropped as already known only
  if a link says the same, and then the link hides the same document anyway.
- `MarkKept`, for one relation: its invariant (`Marked`) has to carry the confidence
  of a status. A link has 100 and is never overruled; what disputes a document that
  makes a single claim has 75, below the 90 or 95 of what replaces it, so that
  `superseded` wins whatever came first. `FoldInduction` does the rest.
- `HiddenIsAnswered`: what is hidden makes a single claim that a later one of its
  key follows, so it is no newest word. `RestoredStore`: the documents of a restart
  make the same claims, links and relations if they have groups.

`StatesInv` adds what changes between refreshes: the statuses are those of some
documents `base`, whose records are the saved ones up to the concept, and every
document that is not dirty is as it was in `base`. The rest is that a store with
nothing pending has no others (`SettledIsBase`), which needs the condition of
`Settled` that the statuses are of the same documents: a document removed since
is in `base`.

The facts are the outcome of two nested loops, over the documents by date and over
the claims of each, whose steps change what earlier ones made. `Told` is what the
loops keep, about the places (document, claim) ingested so far: for every key, one
fact holds the last word on it and all its others have ended by then (`LastTold`);
and for every key and day, what is active is the newest word dated by that day, or
nothing if the next word is the same (`PastTold`). `IngestTells` is the step. A
word dated by the day is the newest and all that holds (`NewWordHolds`). A later
word changes the day only if it repeats the last one, whose fact then moves
(`LaterWordKeepsThePast`): that it is the newest of the day still, and that
nothing else was active, is what `LastTold` is needed for. `DocumentTells` and
`FactsAreTold` are the inner and the outer induction, over the states that
`FoldHasTrace` names. Two claims of one document on one key come by their objects
(`ClaimsInOrder`), so the word of a document is the greatest of them and the next
word is the least of its document (`NewestIsLast`). `FactsInv` adds, as above, that
the facts are those of the records saved and what is not dirty is unchanged.

### MemoryIndexProofs

`IndexInv` says that the aggregate is `AggregateOf` the records, a definition of
one line that knows no history. `RemoveDocIsExact` and `InsertDocIsExact` are its
two steps: postings that documents share lose exactly the rows of one document.
`TreeQueryIsExact` is about any finite set of intervals: a query of the tree that
`IntervalTree::build` makes finds exactly the intervals that overlap the range.
The walk is a recursive function over subsets of intervals. Its equation has one
solution (`WalkIsUnique`, by induction on the number of intervals, the centre of
which is in the set, `CenterIsInside`), and the set of overlapping intervals is
one (`WalkFindsAll`); that equation needs that the position of an interval among
those sorted is unique (`SortsBeforeIsTotal`, `EveryRankIsTaken`).
`SameIndexEitherWay` is why a restart, which reads the core without the claims,
makes the same index.

*Time in a question.* `TargetIsInThePeriod` is proved for every anchor and every
expression the code reads; the run has eight questions asked where months, leap
years and weeks end. It rests on the calendar: every day has a year, a month and a
day of the month (`CivilOfDay`), no other date is that day (`CivilOfDate`), so a
day clipped to the length of the month it is moved to stays in it (`DayKept`).
`OneExpression` goes through the order in which phrases are looked for: whatever
comes first, a single expression is read as itself, a weekend as its week.
`QueriesAssumption` says what the words of a question may be, and that none of
them means the day before the first of the model's calendar, whose number, 0, is
no date.

*The answers.* `BuiltInv` says that the index at hand is what was saved, put
together again in the order some unordered map had, under the options or under
those a loaded index honours. With `IndexInv` it makes an index `Usable`: every row
of its postings is about a document of its table and has a score of 100 or more.
That bound is what the rest starts from. A weight times a score and a share never
rounds to nothing (`ScaledIsWorth`), so every row of a query is worth at least 1
(`PostingRowsAreValued`), every candidate has a natural number above 0 for its
score (`ScoresType`), and the rankings are lists of the candidates, each once
(`GroupedAre`, `SortedGroupsList`). `CommonLengthType` is why the text comparison
is a number at all: the table of common subsequences is a recursive function over
pairs, and it exists by induction on the length of both.

- `AnswerStaysInScopeHolds`: every pass after the postings, the text comparison,
  the groups, the final window and the time of the question, keeps to the
  candidates (`CandidatesAre`, `AnswerFromIs`, `InTimeKeeps`), and these are the
  documents of `Scoped` rows.
- `AnswerIsFullHolds`: the groups part the candidates among them, none twice
  (`PartsAreCounted`), so that what all groups are allowed together is the room
  there is (`RoomIsAllowed`), and what is taken of it is the limit or all of it
  (`TakenIsFull`). The index is asked for no fewer hits than the caller gives
  (`DepthIsEnough`), and an untimed question drops none afterwards.
- `AnswerSurvivesReopenHolds`: a save writes no postings of documents, a load makes
  them again from those of chunks (`AssembledAgain`), in an order of its own. If the cap
  cuts nothing, that order does not matter (`UncutPostings`, `OrderIsIrrelevant`);
  if the options ask for nothing a loaded index does without, they are what they
  were (`NothingIsLost`); so the two indexes are one.

### QueryProofs

*Workers.* `WorkersInv` says that an open phase holds answers workers made, of whichever
request and generation, and that the result is the reduction of all of them. The
rest is about that reduction. The map of `reduce_candidates` is the outcome of a
fold over the results of all answers, and the outcome has a description without
any order (`IsBest`): for every document that was offered, the one result that no
other replaces. There is only one such map (`BestIsOne`), since of two results for
one document one replaces the other unless they agree in every field
(`ReplacesIsOrder`): the canonical key covers all that a result carries besides
its document and score, and this is where the tie-break of the code is needed.
`ByDocumentIsBest` is the induction, `ListIsBest` the ranking and the cut. The
sums of the other phase do not even need the answers to be valid: additions that
saturate commute (`AddCommutes`), so that `FoldReordered` applies.

*The cache of the command line.* `CacheInv` follows the copies a command makes:
the fingerprint is that of the files as they were at one moment (`printed`), the
pages are those of another (`seen`), and the two are one unless an edit overtook
the command; an index was built of these pages, or its records are those of the
saver whose fingerprint was the same (`RunFits`); and what is saved was the text of
some files its fingerprint was taken of (`Honest`). So two sets of files have one
fingerprint, and it remains that they have one text. That is not obvious, because
the fingerprint and the corpus are two walks with different limits. Each is a fold,
which `FoldHasTrace` turns into a sequence of states to compare place by place. A
fingerprint has every markdown file up to a place where it stops
(`FingerprintStops`); up to the nearer of the two places both trees have the same
files, so the corpus walks agree step by step (`SameReadStep`); beyond it nothing
is read, as the fingerprints cover the corpus (`NothingReadAfter`). `SameCorpus`
puts the two together.

*The review.* `ChainsAreFound`: the chains of links between pages and the search
along the edges of the graph are two recursions of one length, and what the first
has after n links the second has after n edges, though pages of one concept share
a node. `IgnoresOnlyDrop` is why this survives the ignored paths. From the index
pages it says which pages are not unreachable; from the pages of one concept,
and back (`LeadsIsFound`), that two concepts share a component and a reference
between them is not of high severity for lying apart (`MissingAreRight`).

### SegmentProofs

A query is a finite computation, but over any documents, weights and limits, and
its plan is the outcome of one of ten ways to route and widen. `QueryInv` says of
all of them that the plan is a list of routes to published segments, one each
(`IsPlan`), and, but for the two expansions that follow dates and connections,
each with an allowed document. To sort by a score it must be a number, so that the
first part of the module is the types of summaries, profiles, weights and scores;
`ByWeightLists`, `ByRouteLists` and `ByRankLists` then say that the sorts list what
they are given, each once. Greedy widening is followed step by step with
`IterationHasTrace` (`WidenedPlan`, `TeamCoveragePlan`, `ConnectedPlan`). The rest
is the ten modes: `DefaultRoutes` and `DefaultChosen`, `TemporalPathPlan`,
`AdaptivePlan`, `RecoveredPlan`.

`RecoveryInv` says that the plan of a recovery is what `RecoveredRoutes` makes of the
head of its routes: that head, or that head with one route exchanged
(`RecoveryShape`). `WeakIsNotAlone`: a term that no other selected segment covers
counts 110 against the weakness of its segment, and the bonuses for being weak add
up to 200, so that it stays below the 150 it takes to be given up. What such a
segment covered is therefore covered without it, and the exchange only adds
(`RecoveryGains`).

`GatheredInv`: every outcome is what the segment in its place in the plan answers,
or a failure that is recorded as one; and with a limit for all of them the plan has
every segment with an allowed document (`AllChosen`). `HeadOfPart` is the rest: a
document among the best k of the snapshot is among the best m of the segment it
lies in, since the order is the same and `CandidateLimit` is not below `topK`.

`SelectionInv`: the hits of a selection are in the order of their scores because
what is covered only grows, so that a candidate not picked is worth less at every
later step (`ScoresFall`), and never passes one that was picked before it
(`PickedKeeps`, under `Selecting`, which also keeps the tie-break by identifier).
That no two candidates are the same document (`CandidatesArePool`) needs that a
document lies in one segment, which `OneSegmentEach` takes from what is published.
A list in the order of its elements is its own ranking (`SortedIsRanked`), so the
second sort changes nothing (`SelectionStays`).

`PublicationAssumption` and `RequestAssumption` say what a snapshot and a request
are made of, and that an identifier names one document; the code publishes a map
from identifiers.

### What the proofs changed

Trying to prove found three definitions in which the arms of a CASE overlapped, so
that TLA+ leaves the choice open while TLC takes the first: `AddUnpublished`,
`TakeFingerprint` and `SemanticScope` now exclude each other. `MemoryIndex` said
nothing of the relation of chunk ids to chunks, and `CachedTextIsCurrent` was false
for corpora beyond the total size (section 4). In `QueryWorkers` a result carried
its segment, which `RemoteSearchResult` does not, and which made two results with
one key different: with it the order of arrival would have mattered. In
`QueryTime` an expression that only `temps` reads was moved by months or years of
the anchor where the code moves it by days counted from today, and the calendar
was that of three centuries. The fold of the ignored paths and the first of the
expressions found were filters of sequences, of which the provers know nothing; the facts of a
store were one fold over all claims joined, where the code has a loop over the
claims in a loop over the records. In the modules of a segment query the steps of
widening, of the two greedy teams and of the route-aware selection got names
(`Widened`, `CoveringTeam`, `EvidenceTeam`, `Picked`), and sorting by a list of
numbers, filtering in order and summing became operators of `Ranking` (`ByRank`,
`Within`, `Total`); `Best`, the ranking by scores with ties in the order of a map, is
shared by the postings and the answers, and `CommonLength` is a function of pairs
of positions. None of this changed what the modules mean.

Two properties of `MemoryIndex` had been stated of states and are true of steps:
an answer is in scope and full by the index that gave it, which a restart replaces
by one without claim scoring while the answer stands. `AnswerIsFull` did not say that the index
fits the final window, and `AnswerSurvivesReopen` did not say that the cap cuts
nothing; in the instances both happened to hold. `MemoryIndexSafe` has a smaller
cap since, so that it cuts. That a posting has a score of at least 100 became a
lemma about the model (`AggregateIsScored`) on which all others rest.

### Only model-checked

- `EventuallyClean`, `EveryHookEnds`, `EveryOpenEnds`: liveness under fairness and
  `ENABLED` are out of the reach of the proof system.

Every safety property of a passing run is stated by a theorem.
`OneLatestPerLineage` and `AnswersReadTheCorpus` are violated by the code, which a
run shows on an instance.

## 6. Plan

1. Several messages per request in `MemoryServer`.
2. Query analysis and expansion as operators in front of `MemoryIndex`.
3. Recording: promotion to memory and replay of torn lines; the usage graph
   against a reference definition.
