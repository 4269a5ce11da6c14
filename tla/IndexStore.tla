----------------------------- MODULE IndexStore -----------------------------
(***************************************************************************)
(* IndexStore of src/src/pipeline.rs: one process holding one persistent   *)
(* index directory open.  Mutations change the documents at once and leave *)
(* the index behind (dirty); a refresh turns the pending documents into    *)
(* records, builds an immutable index snapshot, publishes it and saves the *)
(* state; a background refresh builds the snapshot on another thread and   *)
(* publishes it at a later poll if no mutation has overtaken it.  The      *)
(* state is saved by replacing files one after the other, so that a crash  *)
(* or an I/O error may leave some of them old and some new; opening the    *)
(* directory again must make sense of whatever it finds.                   *)
(*                                                                         *)
(* A document's content (with its metadata) is one value of Contents.  A   *)
(* record, an index entry, a set of relations are represented by the       *)
(* content they were derived from, so "stale" means "derived from another  *)
(* content".  All methods take &mut self: within a process only the        *)
(* background thread, the file system and the end of the process           *)
(* interleave with them.                                                   *)
(***************************************************************************)
EXTENDS Naturals, FiniteSets

CONSTANTS
    Docs,          \* document ids
    Contents,      \* document contents
    NoDoc,         \* the content of an id that holds no document
    Groups,        \* segment ids: group ids of documents, or "ungrouped"
    NoGroup,       \* the segment of a document that is in no segment
    GroupOf,       \* the segment a content belongs to
    Layouts,       \* the layouts the directory is opened with
    NoFile,        \* content of a file that does not exist
    NoSnapshot,    \* value of an absent snapshot
    NoBuild,       \* value of an absent background refresh
    MaxRevision,   \* bound: mutations between two opens of the directory
    Faults,        \* kinds of fault the environment may cause
    MaxFaults      \* bound: number of faults

ASSUME StoreAssumption ==
    /\ NoDoc \notin Contents
    /\ NoGroup \notin Groups
    /\ GroupOf \in [Contents -> Groups]
    /\ Layouts \subseteq {"Single", "Segmented"}
    /\ MaxRevision \in Nat
    /\ Faults \subseteq {"crash", "io", "lock", "thread"}
    /\ MaxFaults \in Nat

Image == [Docs -> Contents \cup {NoDoc}]
Empty == [d \in Docs |-> NoDoc]
Present(image) == {d \in Docs : image[d] # NoDoc}

Segmentation == [Docs -> Groups \cup {NoGroup}]
NoSegments == [d \in Docs |-> NoGroup]

\* indexed[d] is the content whose terms the postings of d hold.
Snapshot == [indexed : Image, segment : Segmentation]

Build == [target : 0..MaxRevision, snapshot : Snapshot, ready : BOOLEAN]

\* The values that stand for "none" are not values of the types beside them.
ASSUME SentinelAssumption ==
    /\ NoFile \notin Image \cup Segmentation
    /\ NoSnapshot \notin Snapshot
    /\ NoBuild \notin Build

VARIABLES
    phase,            \* what the process is doing
    layout,           \* options.memory_index_layout
    sourceDocs,       \* source_docs
    records,          \* records, semantic_docs and semantic_aggregate
    relations,        \* what semantic_relations was computed from
    dirtyDocs,        \* dirty_docs
    tombstones,       \* tombstones
    snapshot,         \* snapshot
    snapshotRevision, \* snapshot_revision
    storeRevision,    \* store_revision
    dirty,            \* dirty
    background,       \* background_refresh, with the thread it waits for
    recordsFile,      \* records.json
    coreFile,         \* core.bin
    manifestFile,     \* segments.json
    lexical,          \* the committed Tantivy directory
    faults            \* faults so far

docVars == <<sourceDocs, records, dirtyDocs, tombstones, storeRevision>>
indexVars == <<snapshot, snapshotRevision>>
fileVars == <<recordsFile, coreFile, manifestFile>>
vars == <<phase, layout, docVars, relations, indexVars, dirty, background,
          fileVars, lexical, faults>>

(***************************************************************************)
(* "down": no process.  "rejected": the directory could not be opened.     *)
(* "idle": open, no method running.  "records", "index": a refresh has     *)
(* published its snapshot and is about to replace records.json, or the     *)
(* index file of its layout.                                               *)
(***************************************************************************)
Phases == {"down", "rejected", "idle", "records", "index"}

TypeOK ==
    /\ phase \in Phases
    /\ layout \in {"Single", "Segmented"}
    /\ sourceDocs \in Image
    /\ records \in Image
    /\ relations \in Image
    /\ dirtyDocs \subseteq Docs
    /\ tombstones \subseteq Docs
    /\ snapshot \in Snapshot \cup {NoSnapshot}
    /\ snapshotRevision \in 0..MaxRevision
    /\ storeRevision \in 0..MaxRevision
    /\ dirty \in BOOLEAN
    /\ background \in Build \cup {NoBuild}
    /\ recordsFile \in Image \cup {NoFile}
    /\ coreFile \in Image \cup {NoFile}
    /\ manifestFile \in Segmentation \cup {NoFile}
    /\ lexical \in Image
    /\ faults \in 0..MaxFaults

-----------------------------------------------------------------------------
(* The index snapshot of a set of records.                                 *)

\* build_segments_by_group_id: one segment per group id.
SegmentsOf(image) ==
    [d \in Docs |-> IF image[d] = NoDoc THEN NoGroup ELSE GroupOf[image[d]]]

\* build_memory_index_snapshot
BuildSnapshot(image) ==
    [indexed |-> image,
     segment |-> IF layout = "Single" THEN NoSegments ELSE SegmentsOf(image)]

-----------------------------------------------------------------------------
(* Opening the directory.                                                  *)

\* load_semantic_state: without core.bin a single-index directory counts as
\* empty, whatever records.json holds.
Loadable(l) ==
    /\ recordsFile # NoFile
    /\ l = "Single" => coreFile # NoFile

LoadedDocs(l) == IF Loadable(l) THEN recordsFile ELSE Empty

\* load_from_core_with_options: an empty core with a record is an error.
Unloadable(l) ==
    /\ l = "Single"
    /\ Loadable(l)
    /\ coreFile = Empty
    /\ recordsFile # Empty

\* Mutant: any manifest will do.
ManifestFits_Unchecked(image) == manifestFile # NoFile

\* from_records_by_manifest: the manifest assigns exactly the records.
ManifestFits(image) ==
    /\ manifestFile # NoFile
    /\ {d \in Docs : manifestFile[d] # NoGroup} = Present(image)

LoadedSnapshot(l) ==
    LET docs == LoadedDocs(l) IN
    CASE l = "Single" /\ Loadable(l) ->
            [indexed |-> coreFile, segment |-> NoSegments]
      [] l = "Segmented" /\ docs # Empty ->
            [indexed |-> docs,
             segment |-> IF ManifestFits(docs) THEN manifestFile
                                               ELSE SegmentsOf(docs)]
      [] OTHER -> NoSnapshot

Init ==
    /\ phase = "down"
    /\ layout \in Layouts
    /\ sourceDocs = Empty
    /\ records = Empty
    /\ relations = Empty
    /\ dirtyDocs = {}
    /\ tombstones = {}
    /\ snapshot = NoSnapshot
    /\ snapshotRevision = 0
    /\ storeRevision = 0
    /\ dirty = FALSE
    /\ background = NoBuild
    /\ recordsFile = NoFile
    /\ coreFile = NoFile
    /\ manifestFile = NoFile
    /\ lexical = Empty
    /\ faults = 0

\* build_with_store_paths.  Every loaded record is upserted into the lexical
\* index; entries of documents that are gone stay in it.
Open(l) ==
    /\ phase = "down"
    /\ l = layout
    /\ ~Unloadable(l)
    /\ phase' = "idle"
    /\ layout' = l
    /\ sourceDocs' = LoadedDocs(l)
    /\ records' = LoadedDocs(l)
    /\ relations' = LoadedDocs(l)
    /\ snapshot' = LoadedSnapshot(l)
    /\ lexical' = [d \in Docs |-> IF LoadedDocs(l)[d] = NoDoc
                                  THEN lexical[d] ELSE LoadedDocs(l)[d]]
    /\ UNCHANGED <<dirtyDocs, tombstones, snapshotRevision, storeRevision,
                   dirty, background, fileVars, faults>>

OpenRejected(l) ==
    /\ phase \in {"down", "rejected"}
    /\ l = layout
    /\ Unloadable(l)
    /\ phase' = "rejected"
    /\ layout' = l
    /\ UNCHANGED <<docVars, relations, indexVars, dirty, background,
                   fileVars, lexical, faults>>

-----------------------------------------------------------------------------
(* Mutations.                                                              *)

\* Mutant: the document stays a tombstone.
Upsert_KeepsTombstone(d, c) ==
    /\ phase = "idle"
    /\ storeRevision < MaxRevision
    /\ sourceDocs' = [sourceDocs EXCEPT ![d] = c]
    /\ dirtyDocs' = dirtyDocs \cup {d}
    /\ storeRevision' = storeRevision + 1
    /\ dirty' = TRUE
    /\ UNCHANGED <<phase, layout, records, relations, tombstones, indexVars,
                   background, fileVars, lexical, faults>>

Upsert(d, c) ==
    /\ phase = "idle"
    /\ storeRevision < MaxRevision
    /\ tombstones' = tombstones \ {d}
    /\ sourceDocs' = [sourceDocs EXCEPT ![d] = c]
    /\ dirtyDocs' = dirtyDocs \cup {d}
    /\ storeRevision' = storeRevision + 1
    /\ dirty' = TRUE
    /\ UNCHANGED <<phase, layout, records, relations, indexVars, background,
                   fileVars, lexical, faults>>

\* Mutant: the removal makes no new revision.
Remove_SameRevision(d) ==
    /\ phase = "idle"
    /\ sourceDocs[d] # NoDoc
    /\ sourceDocs' = [sourceDocs EXCEPT ![d] = NoDoc]
    /\ records' = [records EXCEPT ![d] = NoDoc]
    /\ dirtyDocs' = dirtyDocs \ {d}
    /\ tombstones' = tombstones \cup {d}
    /\ dirty' = TRUE
    /\ UNCHANGED <<phase, layout, storeRevision, relations, indexVars,
                   background, fileVars, lexical, faults>>

\* Mutant: the record of the document stays.
Remove_KeepsRecord(d) ==
    /\ phase = "idle"
    /\ storeRevision < MaxRevision
    /\ sourceDocs[d] # NoDoc
    /\ sourceDocs' = [sourceDocs EXCEPT ![d] = NoDoc]
    /\ dirtyDocs' = dirtyDocs \ {d}
    /\ tombstones' = tombstones \cup {d}
    /\ storeRevision' = storeRevision + 1
    /\ dirty' = TRUE
    /\ UNCHANGED <<phase, layout, records, relations, indexVars, background,
                   fileVars, lexical, faults>>

Remove(d) ==
    /\ phase = "idle"
    /\ storeRevision < MaxRevision
    /\ sourceDocs[d] # NoDoc
    /\ sourceDocs' = [sourceDocs EXCEPT ![d] = NoDoc]
    /\ records' = [records EXCEPT ![d] = NoDoc]
    /\ dirtyDocs' = dirtyDocs \ {d}
    /\ tombstones' = tombstones \cup {d}
    /\ storeRevision' = storeRevision + 1
    /\ dirty' = TRUE
    /\ UNCHANGED <<phase, layout, relations, indexVars, background, fileVars,
                   lexical, faults>>

-----------------------------------------------------------------------------
(* prepare_pending_changes.                                                *)

PreparedRecords ==
    [d \in Docs |-> IF d \in dirtyDocs THEN sourceDocs[d] ELSE records[d]]

\* Only a store that has never had a snapshot sends every record to the
\* lexical index; otherwise only the documents that were dirty are sent.
LexicalUpserts ==
    IF snapshot = NoSnapshot /\ snapshotRevision = 0
    THEN Present(PreparedRecords) \ tombstones
    ELSE dirtyDocs

PrepareSucceeds ==
    /\ records' = PreparedRecords
    /\ dirtyDocs' = {}
    /\ relations' = sourceDocs
    /\ lexical' = [d \in Docs |-> CASE d \in LexicalUpserts -> PreparedRecords[d]
                                    [] d \in tombstones -> NoDoc
                                    [] OTHER -> lexical[d]]
    /\ UNCHANGED faults

\* The writer lock of the lexical index cannot be had within
\* WRITER_LOCK_WAIT.  The records have been replaced and the dirty set
\* emptied by then; the relations only if no tombstone asked for the lock
\* before them.
PrepareFails ==
    /\ "lock" \in Faults /\ faults < MaxFaults
    /\ faults' = faults + 1
    /\ LexicalUpserts \cup tombstones # {}
    /\ records' = PreparedRecords
    /\ dirtyDocs' = {}
    /\ relations' = IF tombstones = {} THEN sourceDocs ELSE relations
    /\ UNCHANGED lexical

-----------------------------------------------------------------------------
(* refresh, refresh_async and poll_background_refresh.                     *)

\* Mutant: a finished build is published whatever its revision.
PollPublishes_AnyRevision == background # NoBuild /\ background.ready

\* Every entry point polls first.  A finished build of the current revision
\* is published; a finished build of an older revision is discarded.
PollPublishes ==
    /\ background # NoBuild
    /\ background.ready
    /\ background.target = storeRevision

AfterPoll ==
    IF background # NoBuild /\ background.ready THEN NoBuild ELSE background

PublishBackground ==
    /\ phase = "idle"
    /\ PollPublishes
    /\ snapshot' = background.snapshot
    /\ snapshotRevision' = background.target
    /\ background' = NoBuild
    /\ phase' = "records"
    /\ UNCHANGED <<layout, docVars, relations, dirty, fileVars, lexical, faults>>

NeedsRefresh ==
    /\ phase = "idle"
    /\ ~PollPublishes
    /\ dirty \/ snapshot = NoSnapshot

\* Mutant: dirty is reset before the state is saved.
Refresh_CleanTooEarly ==
    /\ NeedsRefresh
    /\ PrepareSucceeds
    /\ snapshot' = BuildSnapshot(PreparedRecords)
    /\ snapshotRevision' = storeRevision
    /\ background' = AfterPoll
    /\ phase' = "records"
    /\ dirty' = FALSE
    /\ UNCHANGED <<layout, sourceDocs, tombstones, storeRevision, fileVars>>

Refresh ==
    /\ NeedsRefresh
    /\ PrepareSucceeds
    /\ snapshot' = BuildSnapshot(PreparedRecords)
    /\ snapshotRevision' = storeRevision
    /\ background' = AfterPoll
    /\ phase' = "records"
    /\ UNCHANGED <<layout, sourceDocs, tombstones, storeRevision, dirty, fileVars>>

RefreshAsync ==
    /\ NeedsRefresh
    /\ AfterPoll = NoBuild
    /\ PrepareSucceeds
    /\ background' = [target |-> storeRevision,
                      snapshot |-> BuildSnapshot(PreparedRecords),
                      ready |-> FALSE]
    /\ UNCHANGED <<phase, layout, sourceDocs, tombstones, storeRevision,
                   indexVars, dirty, fileVars>>

\* Either kind of refresh returning the error of prepare_pending_changes.
RefreshFails ==
    /\ NeedsRefresh
    /\ PrepareFails
    /\ background' = AfterPoll
    /\ UNCHANGED <<phase, layout, sourceDocs, tombstones, storeRevision,
                   indexVars, dirty, fileVars>>

BuildDone ==
    /\ background # NoBuild
    /\ ~background.ready
    /\ background' = [background EXCEPT !.ready = TRUE]
    /\ UNCHANGED <<phase, layout, docVars, relations, indexVars, dirty,
                   fileVars, lexical, faults>>

\* The thread panicked: the poll finds the channel disconnected.
BuildLost ==
    /\ phase = "idle"
    /\ "thread" \in Faults /\ faults < MaxFaults
    /\ background # NoBuild
    /\ ~background.ready
    /\ background' = NoBuild
    /\ faults' = faults + 1
    /\ UNCHANGED <<phase, layout, docVars, relations, indexVars, dirty,
                   fileVars, lexical>>

-----------------------------------------------------------------------------
(* persist_compatibility_state: each file is replaced atomically.          *)
(* metadata.json before records.json and chunk_lifecycle.json after it     *)
(* hold nothing that opening the directory reads, so that failing to write *)
(* them is failing the step they belong to.                                *)

PersistRecords ==
    /\ phase = "records"
    /\ recordsFile' = records
    /\ phase' = "index"
    /\ UNCHANGED <<layout, docVars, relations, indexVars, dirty, background,
                   coreFile, manifestFile, lexical, faults>>

\* Mutant: dirty is never reset.
PersistIndex_StaysDirty ==
    /\ phase = "index"
    /\ IF layout = "Single"
       THEN coreFile' = snapshot.indexed /\ UNCHANGED manifestFile
       ELSE manifestFile' = snapshot.segment /\ UNCHANGED coreFile
    /\ phase' = "idle"
    /\ UNCHANGED <<layout, docVars, relations, indexVars, background, dirty,
                   recordsFile, lexical, faults>>

PersistIndex ==
    /\ phase = "index"
    /\ IF layout = "Single"
       THEN /\ coreFile' = snapshot.indexed
            /\ UNCHANGED manifestFile
       ELSE /\ manifestFile' = snapshot.segment
            /\ UNCHANGED coreFile
    /\ dirty' = FALSE
    /\ phase' = "idle"
    /\ UNCHANGED <<layout, docVars, relations, indexVars, background,
                   recordsFile, lexical, faults>>

\* An error leaves dirty as it was; files already replaced stay.
PersistFails ==
    /\ phase \in {"records", "index"}
    /\ "io" \in Faults /\ faults < MaxFaults
    /\ faults' = faults + 1
    /\ phase' = "idle"
    /\ UNCHANGED <<layout, docVars, relations, indexVars, dirty, background,
                   fileVars, lexical>>

-----------------------------------------------------------------------------
(* The end of the process, between two steps of it or at rest.             *)

ProcessGone ==
    /\ phase' = "down"
    /\ sourceDocs' = Empty
    /\ records' = Empty
    /\ relations' = Empty
    /\ dirtyDocs' = {}
    /\ tombstones' = {}
    /\ snapshot' = NoSnapshot
    /\ snapshotRevision' = 0
    /\ storeRevision' = 0
    /\ dirty' = FALSE
    /\ background' = NoBuild
    /\ UNCHANGED <<layout, fileVars, lexical>>

Crash ==
    /\ phase \in {"idle", "records", "index"}
    /\ "crash" \in Faults /\ faults < MaxFaults
    /\ faults' = faults + 1
    /\ ProcessGone

\* Dropping the store saves nothing: unsaved mutations are lost.
Close ==
    /\ phase = "idle"
    /\ ProcessGone
    /\ UNCHANGED faults

Next ==
    \/ \E l \in Layouts : Open(l) \/ OpenRejected(l)
    \/ \E d \in Docs : Remove(d) \/ \E c \in Contents : Upsert(d, c)
    \/ PublishBackground \/ Refresh \/ RefreshAsync \/ RefreshFails
    \/ BuildDone \/ BuildLost
    \/ PersistRecords \/ PersistIndex \/ PersistFails
    \/ Crash \/ Close

Spec == Init /\ [][Next]_vars

(***************************************************************************)
(* A method that has begun runs on, the background thread finishes its     *)
(* build, and a client that searches again and again (query polls and      *)
(* refreshes) sees the end of its own mutations: Upsert, Remove and the    *)
(* faults have no fairness.                                                *)
(***************************************************************************)
Fairness ==
    /\ WF_vars(PersistRecords)
    /\ WF_vars(PersistIndex)
    /\ WF_vars(BuildDone)
    /\ WF_vars(PublishBackground)
    /\ WF_vars(Refresh)

FairSpec == Spec /\ Fairness

-----------------------------------------------------------------------------
(* Properties.                                                             *)

IsOpen == phase \in {"idle", "records", "index"}

(* refresh() returning Ok, or a poll that publishes, leaves an index, a     *)
(* record set and relations that are exactly the documents: no mutation     *)
(* made while a build was in flight is missing from a store that says it is *)
(* clean (dirty = false), and no build of an older revision is served.      *)
CleanIsCurrent ==
    phase = "idle" /\ ~dirty /\ storeRevision > 0 =>
        /\ snapshot # NoSnapshot
        /\ snapshot.indexed = sourceDocs
        /\ records = sourceDocs
        /\ relations = sourceDocs
        /\ snapshotRevision = storeRevision

(* poll_background_refresh compares only revisions: when it accepts a build *)
(* the build must hold the present documents, although mutations, failed    *)
(* refreshes and synchronous refreshes may have run since it was started.   *)
BuildOfThisRevisionIsCurrent ==
    background # NoBuild /\ background.target = storeRevision =>
        /\ background.snapshot.indexed = sourceDocs
        /\ dirtyDocs = {}

(* A directory opened after a crash or an error at any step of a save       *)
(* serves an index of exactly the documents it loaded, each in one segment. *)
(* (Segmented layouts; the single layout does not promise it.)              *)
ReopenedIsSearchable ==
    layout = "Segmented" /\ phase = "idle" /\ ~dirty =>
        /\ sourceDocs # Empty => snapshot # NoSnapshot
        /\ snapshot # NoSnapshot =>
              /\ snapshot.indexed = sourceDocs
              /\ {d \in Docs : snapshot.segment[d] # NoGroup} = Present(sourceDocs)

(* A single-index directory whose save was interrupted serves the postings  *)
(* of the old core, but a refresh that completes after a mutation heals it  *)
(* on disk too.                                                             *)
CompletedSaveAgrees ==
    phase = "idle" /\ ~dirty /\ storeRevision > 0 =>
        /\ recordsFile = sourceDocs
        /\ layout = "Single" => coreFile = sourceDocs
        /\ layout = "Segmented" => manifestFile = SegmentsOf(sourceDocs)

(* As long as nothing failed (the writer lock above all), the lexical        *)
(* directory holds every document of a clean store, also one that was        *)
(* removed and put back between two refreshes.                               *)
LexicalComplete ==
    phase = "idle" /\ ~dirty /\ faults = 0 =>
        \A d \in Present(sourceDocs) : lexical[d] = sourceDocs[d]

(* Within one process the published generation never goes back.             *)
GenerationMonotonic ==
    [][phase' # "down" => snapshotRevision' >= snapshotRevision]_vars

(* While a client keeps searching, every mutation is eventually in a        *)
(* published and saved index, or the process is gone.                       *)
EventuallyClean == dirty ~> (~dirty \/ phase = "down")

(* The store implements DurableStore: what the next open finds is always    *)
(* the whole image of one save, although it is spread over several files.   *)
Durable == INSTANCE DurableStore WITH
    running <- IsOpen, live <- sourceDocs, saved <- LoadedDocs(layout)

DurableSpec == Durable!Spec
=============================================================================
