-------------------------- MODULE IndexStoreProofs --------------------------
(***************************************************************************)
(* Theorems about IndexStore, for every set of documents, contents and     *)
(* groups, every layout and every pattern of faults.                       *)
(***************************************************************************)
EXTENDS IndexStore, TLAPS

LEMMA ImageTypes ==
    /\ Empty \in Image
    /\ NoSegments \in Segmentation
  BY DEF Empty, Image, NoSegments, Segmentation

LEMMA SegmentsType ==
    ASSUME NEW image \in Image
    PROVE  SegmentsOf(image) \in Segmentation
  BY StoreAssumption DEF Image, SegmentsOf, Segmentation

LEMMA BuildSnapshotType ==
    ASSUME NEW image \in Image
    PROVE  /\ BuildSnapshot(image) \in Snapshot
           /\ BuildSnapshot(image).indexed = image
  BY SegmentsType, ImageTypes DEF BuildSnapshot, Snapshot

LEMMA LoadedTypes ==
    ASSUME TypeOK, NEW l \in Layouts
    PROVE  /\ LoadedDocs(l) \in Image
           /\ LoadedSnapshot(l) \in Snapshot \cup {NoSnapshot}
<1>1. LoadedDocs(l) \in Image
  BY ImageTypes DEF TypeOK, LoadedDocs, Loadable
<1>2. CASE l = "Single" /\ Loadable(l)
  <2>1. LoadedSnapshot(l) = [indexed |-> coreFile, segment |-> NoSegments]
    BY <1>2 DEF LoadedSnapshot
  <2>2. coreFile \in Image
    BY <1>2 DEF TypeOK, Loadable
  <2> QED BY <1>1, <2>1, <2>2, ImageTypes DEF Snapshot
<1>3. CASE ~(l = "Single" /\ Loadable(l)) /\ l = "Segmented" /\ LoadedDocs(l) # Empty
  <2> DEFINE seg == IF ManifestFits(LoadedDocs(l)) THEN manifestFile
                                                   ELSE SegmentsOf(LoadedDocs(l))
  <2>1. LoadedSnapshot(l) = [indexed |-> LoadedDocs(l), segment |-> seg]
    BY <1>3 DEF LoadedSnapshot
  <2>2. seg \in Segmentation
    BY <1>1, SegmentsType DEF ManifestFits, TypeOK
  <2> HIDE DEF seg
  <2> QED BY <1>1, <2>1, <2>2 DEF Snapshot
<1>4. CASE ~(l = "Single" /\ Loadable(l)) /\ ~(l = "Segmented" /\ LoadedDocs(l) # Empty)
  BY <1>1, <1>4 DEF LoadedSnapshot
<1> QED BY <1>2, <1>3, <1>4

LEMMA PreparedType ==
    ASSUME TypeOK
    PROVE  PreparedRecords \in Image
  BY DEF TypeOK, PreparedRecords, Image

LEMMA PrepareType ==
    ASSUME TypeOK, PrepareSucceeds
    PROVE  /\ records' \in Image
           /\ dirtyDocs' \subseteq Docs
           /\ relations' \in Image
           /\ lexical' \in Image
           /\ faults' \in 0..MaxFaults
<1>1. PreparedRecords \in Image
  BY PreparedType
<1>2. lexical' \in Image
  <2>1. \A d \in Docs : lexical'[d] \in Contents \cup {NoDoc}
    BY <1>1 DEF PrepareSucceeds, TypeOK, Image
  <2> QED BY <2>1 DEF PrepareSucceeds, Image
<1> QED BY <1>1, <1>2 DEF PrepareSucceeds, TypeOK

(* A save has a snapshot to save: the expect of persist_compatibility_state *)
(* and of the store's readers never panics.                                 *)
SaveHasSnapshot == phase \in {"records", "index"} => snapshot \in Snapshot

(* Every variable keeps its type: in particular the revisions, the sets of  *)
(* pending ids and what each file may hold.                                 *)
THEOREM TypeCorrect == Spec => [](TypeOK /\ SaveHasSnapshot)
<1>0. 0 \in 0..MaxRevision /\ 0 \in 0..MaxFaults
  BY StoreAssumption
<1>1. Init => TypeOK /\ SaveHasSnapshot
  BY <1>0, ImageTypes, StoreAssumption DEF Init, TypeOK, Phases, SaveHasSnapshot
<1>2. TypeOK /\ SaveHasSnapshot /\ [Next]_vars => (TypeOK /\ SaveHasSnapshot)'
  <2> SUFFICES ASSUME TypeOK, SaveHasSnapshot, [Next]_vars
               PROVE  (TypeOK /\ SaveHasSnapshot)'
    OBVIOUS
  <2> USE StoreAssumption, ImageTypes
  <2>1. ASSUME NEW l \in Layouts, Open(l) PROVE (TypeOK /\ SaveHasSnapshot)'
    <3>1. lexical' \in Image
      BY <2>1, LoadedTypes DEF Open, TypeOK, Image
    <3> QED BY <2>1, <3>1, LoadedTypes DEF SaveHasSnapshot, Open, TypeOK, Phases, fileVars
  <2>2. ASSUME NEW l \in Layouts, OpenRejected(l) PROVE (TypeOK /\ SaveHasSnapshot)'
    BY <2>2 DEF SaveHasSnapshot, OpenRejected, TypeOK, Phases, docVars, indexVars, fileVars
  <2>3. ASSUME NEW d \in Docs, NEW c \in Contents, Upsert(d, c) PROVE (TypeOK /\ SaveHasSnapshot)'
    <3>1. sourceDocs' \in Image
      BY <2>3 DEF Upsert, TypeOK, Image
    <3>2. storeRevision' \in 0..MaxRevision
      BY <2>3 DEF Upsert, TypeOK
    <3>3. background' \in Build \cup {NoBuild}
      BY <2>3 DEF Upsert, TypeOK
    <3> QED BY <2>3, <3>1, <3>2, <3>3 DEF SaveHasSnapshot, Upsert, TypeOK, indexVars, fileVars
  <2>4. ASSUME NEW d \in Docs, Remove(d) PROVE (TypeOK /\ SaveHasSnapshot)'
    <3>1. sourceDocs' \in Image /\ records' \in Image
      BY <2>4 DEF Remove, TypeOK, Image
    <3>2. storeRevision' \in 0..MaxRevision
      BY <2>4 DEF Remove, TypeOK
    <3> QED BY <2>4, <3>1, <3>2 DEF SaveHasSnapshot, Remove, TypeOK, indexVars, fileVars
  <2>5. CASE PublishBackground
    BY <2>5 DEF SaveHasSnapshot, PublishBackground, PollPublishes, TypeOK, Build, Phases, docVars, fileVars
  <2>6. CASE Refresh
    <3>1. BuildSnapshot(PreparedRecords) \in Snapshot
      BY PreparedType, BuildSnapshotType
    <3>2. background' \in Build \cup {NoBuild}
      BY <2>6 DEF Refresh, AfterPoll, TypeOK
    <3>3. PrepareSucceeds
      BY <2>6 DEF Refresh
    <3> QED BY <2>6, <3>1, <3>2, <3>3, PrepareType DEF SaveHasSnapshot, Refresh, TypeOK, Phases, fileVars
  <2>7. CASE RefreshAsync
    <3>1. background' \in Build
      BY <2>7, PreparedType, BuildSnapshotType DEF RefreshAsync, Build, TypeOK
    <3>2. PrepareSucceeds
      BY <2>7 DEF RefreshAsync
    <3> QED BY <2>7, <3>1, <3>2, PrepareType DEF SaveHasSnapshot, RefreshAsync, TypeOK, indexVars, fileVars
  <2>8. CASE RefreshFails
    <3>1. background' \in Build \cup {NoBuild}
      BY <2>8 DEF RefreshFails, AfterPoll, TypeOK
    <3>2. records' \in Image /\ relations' \in Image
      BY <2>8, PreparedType DEF RefreshFails, PrepareFails, TypeOK
    <3>3. faults' \in 0..MaxFaults
      BY <2>8 DEF RefreshFails, PrepareFails, TypeOK
    <3> QED BY <2>8, <3>1, <3>2, <3>3
            DEF SaveHasSnapshot, RefreshFails, PrepareFails, TypeOK, indexVars, fileVars
  <2>9. CASE BuildDone
    <3>1. background' \in Build
      BY <2>9 DEF BuildDone, TypeOK, Build
    <3> QED BY <2>9, <3>1 DEF SaveHasSnapshot, BuildDone, TypeOK, docVars, indexVars, fileVars
  <2>10. CASE BuildLost
    <3>1. faults' \in 0..MaxFaults
      BY <2>10 DEF BuildLost, TypeOK
    <3> QED BY <2>10, <3>1 DEF SaveHasSnapshot, BuildLost, TypeOK, docVars, indexVars, fileVars
  <2>11. CASE PersistRecords
    BY <2>11 DEF SaveHasSnapshot, PersistRecords, TypeOK, Phases, docVars, indexVars
  <2>12. CASE PersistIndex
    <3>1. snapshot \in Snapshot => /\ snapshot.indexed \in Image
                                  /\ snapshot.segment \in Segmentation
      BY DEF Snapshot
    <3> QED BY <2>12, <3>1 DEF SaveHasSnapshot, PersistIndex, TypeOK, Phases, docVars, indexVars
  <2>13. CASE PersistFails
    <3>1. faults' \in 0..MaxFaults
      BY <2>13 DEF PersistFails, TypeOK
    <3> QED BY <2>13, <3>1 DEF SaveHasSnapshot, PersistFails, TypeOK, Phases, docVars, indexVars, fileVars
  <2>14. CASE Crash
    <3>1. faults' \in 0..MaxFaults
      BY <2>14 DEF Crash, TypeOK
    <3> QED BY <1>0, <2>14, <3>1 DEF SaveHasSnapshot, Crash, ProcessGone, TypeOK, Phases, fileVars
  <2>15. CASE Close
    BY <1>0, <2>15 DEF SaveHasSnapshot, Close, ProcessGone, TypeOK, Phases, fileVars
  <2>16. CASE UNCHANGED vars
    BY <2>16 DEF SaveHasSnapshot, vars, TypeOK, docVars, indexVars, fileVars
  <2> QED BY <2>1, <2>2, <2>3, <2>4, <2>5, <2>6, <2>7, <2>8, <2>9, <2>10,
             <2>11, <2>12, <2>13, <2>14, <2>15, <2>16 DEF Next
<1> QED BY <1>1, <1>2, PTL DEF Spec

-----------------------------------------------------------------------------
(***************************************************************************)
(* The inductive invariant behind CleanIsCurrent.  The revision counter is *)
(* what makes it work: it moves with every mutation, so that a build of    *)
(* the present revision was started after the last mutation, when          *)
(* prepare_pending_changes had just emptied dirty_docs.                    *)
(***************************************************************************)

\* A record differs from its document only while the document is pending.
PendingTracked ==
    /\ \A d \in Docs \ dirtyDocs : records[d] = sourceDocs[d]
    /\ dirtyDocs # {} => dirty

\* A build was started at a revision of the past; if nothing has moved since
\* then it holds the documents, and so do the relations.
BuildTracked ==
    background # NoBuild =>
        /\ background.target <= storeRevision
        /\ background.target = storeRevision =>
              /\ background.snapshot.indexed = sourceDocs
              /\ relations = sourceDocs
              /\ dirtyDocs = {}

\* The snapshot in use holds the documents of the present revision.
Current ==
    /\ snapshot # NoSnapshot
    /\ snapshot.indexed = sourceDocs
    /\ relations = sourceDocs
    /\ snapshotRevision = storeRevision
    /\ dirtyDocs = {}

CurrentWhenSaved ==
    /\ phase \in {"records", "index"} => Current
    /\ ~dirty /\ storeRevision > 0 => Current

\* A process starts from nothing.
FreshStart ==
    phase \in {"down", "rejected"} =>
        storeRevision = 0 /\ background = NoBuild /\ dirtyDocs = {}

RevisionBound == snapshotRevision <= storeRevision

IndInv ==
    /\ TypeOK
    /\ SaveHasSnapshot
    /\ PendingTracked
    /\ BuildTracked
    /\ CurrentWhenSaved
    /\ FreshStart
    /\ RevisionBound

\* With no document pending the records are the documents.
LEMMA NothingPending ==
    ASSUME TypeOK, PendingTracked
    PROVE  /\ dirtyDocs = {} => records = sourceDocs
           /\ PreparedRecords = sourceDocs
<1>1. \A d \in Docs : PreparedRecords[d] = sourceDocs[d]
  BY DEF PreparedRecords, PendingTracked
<1>2. PreparedRecords = sourceDocs
  BY <1>1, PreparedType DEF TypeOK, Image
<1>3. dirtyDocs = {} => \A d \in Docs : records[d] = sourceDocs[d]
  BY DEF PendingTracked
<1>4. dirtyDocs = {} => records = sourceDocs
  BY <1>3 DEF TypeOK, Image
<1> QED BY <1>2, <1>4

LEMMA IndInvInit == Init => IndInv
<1> SUFFICES ASSUME Init PROVE IndInv
  OBVIOUS
<1>1. TypeOK /\ SaveHasSnapshot
  <2>1. 0 \in 0..MaxRevision /\ 0 \in 0..MaxFaults
    BY StoreAssumption
  <2> QED BY <2>1, ImageTypes, StoreAssumption
          DEF Init, TypeOK, Phases, SaveHasSnapshot
<1>2. PendingTracked /\ BuildTracked /\ CurrentWhenSaved
  BY DEF Init, PendingTracked, BuildTracked, CurrentWhenSaved
<1>3. FreshStart /\ RevisionBound
  BY DEF Init, FreshStart, RevisionBound
<1> QED BY <1>1, <1>2, <1>3 DEF IndInv

LEMMA IndInvStep ==
    ASSUME IndInv, [Next]_vars, (TypeOK /\ SaveHasSnapshot)'
    PROVE  IndInv'
<1> USE DEF IndInv
<1> SUFFICES PendingTracked' /\ BuildTracked' /\ CurrentWhenSaved'
             /\ FreshStart' /\ RevisionBound'
  OBVIOUS
<1>1. ASSUME NEW l \in Layouts, Open(l) PROVE IndInv'
  <2>1. storeRevision = 0 /\ background = NoBuild /\ dirtyDocs = {}
    BY <1>1 DEF Open, FreshStart
  <2>2. PendingTracked'
    BY <1>1, <2>1 DEF Open, PendingTracked
  <2>3. BuildTracked' /\ FreshStart' /\ RevisionBound'
    BY <1>1, <2>1 DEF Open, BuildTracked, FreshStart, RevisionBound
  <2>4. CurrentWhenSaved'
    BY <1>1, <2>1 DEF Open, CurrentWhenSaved
  <2> QED BY <2>2, <2>3, <2>4
<1>2. ASSUME NEW l \in Layouts, OpenRejected(l) PROVE IndInv'
  BY <1>2 DEF OpenRejected, PendingTracked, BuildTracked, CurrentWhenSaved, Current,
              FreshStart, RevisionBound, docVars, indexVars
<1>3. ASSUME NEW d \in Docs, NEW c \in Contents, Upsert(d, c) PROVE IndInv'
  <2>1. storeRevision' = storeRevision + 1 /\ dirty' /\ phase' = "idle"
    BY <1>3 DEF Upsert
  <2>2. PendingTracked'
    BY <1>3 DEF Upsert, PendingTracked, TypeOK, Image
  <2>3. BuildTracked'
    BY <1>3, <2>1 DEF Upsert, BuildTracked, TypeOK, Build
  <2>4. CurrentWhenSaved' /\ FreshStart'
    BY <2>1 DEF CurrentWhenSaved, FreshStart
  <2>5. RevisionBound'
    BY <1>3, <2>1 DEF Upsert, RevisionBound, TypeOK, indexVars
  <2> QED BY <2>2, <2>3, <2>4, <2>5
<1>4. ASSUME NEW d \in Docs, Remove(d) PROVE IndInv'
  <2>1. storeRevision' = storeRevision + 1 /\ dirty' /\ phase' = "idle"
    BY <1>4 DEF Remove
  <2>2. PendingTracked'
    BY <1>4 DEF Remove, PendingTracked, TypeOK, Image
  <2>3. BuildTracked'
    BY <1>4, <2>1 DEF Remove, BuildTracked, TypeOK, Build
  <2>4. CurrentWhenSaved' /\ FreshStart'
    BY <2>1 DEF CurrentWhenSaved, FreshStart
  <2>5. RevisionBound'
    BY <1>4, <2>1 DEF Remove, RevisionBound, TypeOK, indexVars
  <2> QED BY <2>2, <2>3, <2>4, <2>5
<1>5. CASE PublishBackground
  <2>1. /\ background # NoBuild
        /\ background \in Build
        /\ background.target = storeRevision
    BY <1>5 DEF PublishBackground, PollPublishes, TypeOK
  <2>2. background.snapshot \in Snapshot
    BY <2>1 DEF Build
  <2>3. Current'
    BY <1>5, <2>1, <2>2, SentinelAssumption
       DEF PublishBackground, BuildTracked, Current, docVars
  <2>4. PendingTracked' /\ FreshStart' /\ BuildTracked'
    BY <1>5 DEF PublishBackground, PendingTracked, FreshStart, BuildTracked, docVars
  <2>5. RevisionBound'
    BY <1>5, <2>1 DEF PublishBackground, RevisionBound, TypeOK, docVars
  <2> QED BY <2>3, <2>4, <2>5 DEF CurrentWhenSaved
<1>6. CASE Refresh
  <2>1. /\ records' = sourceDocs
        /\ sourceDocs' = sourceDocs
        /\ relations' = sourceDocs
        /\ dirtyDocs' = {}
    BY <1>6, NothingPending DEF Refresh, PrepareSucceeds
  <2>2. BuildSnapshot(PreparedRecords) \in Snapshot
        /\ BuildSnapshot(PreparedRecords).indexed = sourceDocs
    BY PreparedType, BuildSnapshotType, NothingPending
  <2>3. Current'
    BY <1>6, <2>1, <2>2, SentinelAssumption DEF Refresh, Current
  <2>4. PendingTracked' /\ FreshStart'
    BY <1>6, <2>1 DEF Refresh, PendingTracked, FreshStart
  <2>5. BuildTracked'
    BY <1>6, <2>1 DEF Refresh, AfterPoll, BuildTracked
  <2>6. RevisionBound'
    BY <1>6 DEF Refresh, RevisionBound, TypeOK
  <2> QED BY <2>3, <2>4, <2>5, <2>6 DEF CurrentWhenSaved
<1>7. CASE RefreshAsync
  <2>1. /\ records' = sourceDocs
        /\ sourceDocs' = sourceDocs
        /\ relations' = sourceDocs
        /\ dirtyDocs' = {}
    BY <1>7, NothingPending DEF RefreshAsync, PrepareSucceeds
  <2>2. BuildSnapshot(PreparedRecords).indexed = sourceDocs
    BY PreparedType, BuildSnapshotType, NothingPending
  <2>3. PendingTracked' /\ FreshStart' /\ RevisionBound'
    BY <1>7, <2>1 DEF RefreshAsync, NeedsRefresh, PendingTracked, FreshStart,
                      RevisionBound, indexVars
  <2>4. BuildTracked'
    BY <1>7, <2>1, <2>2 DEF RefreshAsync, BuildTracked, TypeOK
  <2>5. CurrentWhenSaved'
    BY <1>7, <2>1 DEF RefreshAsync, NeedsRefresh, CurrentWhenSaved, Current, indexVars
  <2> QED BY <2>3, <2>4, <2>5
<1>8. CASE RefreshFails
  <2>1. /\ records' = sourceDocs
        /\ sourceDocs' = sourceDocs
        /\ dirtyDocs' = {}
        /\ relations' \in {sourceDocs, relations}
    BY <1>8, NothingPending DEF RefreshFails, PrepareFails
  <2>2. PendingTracked' /\ FreshStart' /\ RevisionBound'
    BY <1>8, <2>1 DEF RefreshFails, NeedsRefresh, PendingTracked, FreshStart,
                      RevisionBound, indexVars
  <2>3. BuildTracked'
    BY <1>8, <2>1 DEF RefreshFails, AfterPoll, BuildTracked
  <2>4. CurrentWhenSaved'
    BY <1>8, <2>1 DEF RefreshFails, NeedsRefresh, CurrentWhenSaved, Current, indexVars
  <2> QED BY <2>2, <2>3, <2>4
<1>9. CASE BuildDone
  <2>1. background \in Build
    BY <1>9 DEF BuildDone, TypeOK
  <2>2. /\ background'.target = background.target
        /\ background'.snapshot = background.snapshot
    BY <1>9, <2>1 DEF BuildDone, Build
  <2> QED BY <1>9, <2>2 DEF BuildDone, PendingTracked, BuildTracked, CurrentWhenSaved,
                            Current, FreshStart, RevisionBound, docVars, indexVars
<1>10. CASE BuildLost
  BY <1>10 DEF BuildLost, PendingTracked, BuildTracked, CurrentWhenSaved, Current,
               FreshStart, RevisionBound, docVars, indexVars
<1>11. CASE PersistRecords
  BY <1>11 DEF PersistRecords, PendingTracked, BuildTracked, CurrentWhenSaved, Current,
               FreshStart, RevisionBound, docVars, indexVars
<1>12. CASE PersistIndex
  <2>1. Current
    BY <1>12 DEF PersistIndex, CurrentWhenSaved
  <2>2. Current' /\ PendingTracked'
    BY <1>12, <2>1 DEF PersistIndex, Current, PendingTracked, docVars, indexVars
  <2>3. BuildTracked' /\ FreshStart' /\ RevisionBound'
    BY <1>12 DEF PersistIndex, BuildTracked, FreshStart, RevisionBound, docVars, indexVars
  <2> QED BY <2>2, <2>3 DEF CurrentWhenSaved
<1>13. CASE PersistFails
  BY <1>13 DEF PersistFails, PendingTracked, BuildTracked, CurrentWhenSaved, Current,
               FreshStart, RevisionBound, docVars, indexVars
<1>14. CASE ProcessGone
  BY <1>14 DEF ProcessGone, PendingTracked, BuildTracked, CurrentWhenSaved, FreshStart,
               RevisionBound
<1>15. CASE UNCHANGED vars
  BY <1>15 DEF vars, PendingTracked, BuildTracked, CurrentWhenSaved, Current, FreshStart,
               RevisionBound, docVars, indexVars
<1> QED
  BY <1>1, <1>2, <1>3, <1>4, <1>5, <1>6, <1>7, <1>8, <1>9, <1>10, <1>11, <1>12,
     <1>13, <1>14, <1>15 DEF Next, Crash, Close

THEOREM IndInvHolds == Spec => []IndInv
<1>1. TypeOK /\ SaveHasSnapshot /\ IndInv /\ [Next]_vars
        /\ (TypeOK /\ SaveHasSnapshot)' => IndInv'
  BY IndInvStep
<1> QED BY <1>1, IndInvInit, TypeCorrect, PTL DEF Spec

(* A store that says it is clean serves exactly its documents: the index,   *)
(* the records and the relations that refresh() and                         *)
(* poll_background_refresh() leave behind miss no mutation, whatever failed *)
(* or was overtaken before.                                                 *)
THEOREM CleanIsCurrentHolds == Spec => []CleanIsCurrent
<1>1. IndInv => CleanIsCurrent
  BY NothingPending DEF IndInv, CleanIsCurrent, CurrentWhenSaved, Current
<1> QED BY <1>1, IndInvHolds, PTL

(* Comparing revisions is enough for poll_background_refresh: a build whose *)
(* target is the present revision holds the present documents.              *)
THEOREM BuildIsCurrentHolds == Spec => []BuildOfThisRevisionIsCurrent
<1>1. IndInv => BuildOfThisRevisionIsCurrent
  BY DEF IndInv, BuildOfThisRevisionIsCurrent, BuildTracked
<1> QED BY <1>1, IndInvHolds, PTL

(* Within a process the published generation never goes back, although      *)
(* builds of several revisions race with synchronous refreshes.             *)
THEOREM GenerationMonotonicHolds == Spec => GenerationMonotonic
<1>1. IndInv /\ [Next]_vars => [phase' # "down" => snapshotRevision' >= snapshotRevision]_vars
  <2> SUFFICES ASSUME IndInv, [Next]_vars, phase' # "down"
               PROVE  snapshotRevision' >= snapshotRevision
    OBVIOUS
  <2>1. snapshotRevision \in Nat /\ storeRevision \in Nat
        /\ snapshotRevision <= storeRevision
    BY DEF IndInv, TypeOK, RevisionBound
  <2>2. CASE PublishBackground
    BY <2>1, <2>2 DEF PublishBackground, PollPublishes
  <2>3. CASE Refresh
    BY <2>1, <2>3 DEF Refresh
  <2>4. CASE UNCHANGED snapshotRevision
    BY <2>1, <2>4
  <2> QED
    BY <2>2, <2>3, <2>4 DEF Next, vars, indexVars, Open, OpenRejected, Upsert, Remove,
       RefreshAsync, RefreshFails, BuildDone, BuildLost, PersistRecords, PersistIndex,
       PersistFails, Crash, Close, ProcessGone
<1> QED BY <1>1, IndInvHolds, PTL DEF Spec, GenerationMonotonic

-----------------------------------------------------------------------------
(***************************************************************************)
(* What a save leaves on disk.  The invariant follows a snapshot from the  *)
(* build (in one piece, under the layout of the directory) through the two *)
(* file replacements of a save, and remembers that nothing but a mutation, *)
(* which makes the store dirty, lets memory and disk part.                 *)
(***************************************************************************)

\* Every indexed document of a snapshot, and no other, is in a segment.
Covers(s) == \A d \in Docs : s.segment[d] # NoGroup <=> s.indexed[d] # NoDoc

SegmentsCover ==
    layout = "Segmented" =>
        /\ snapshot # NoSnapshot => Covers(snapshot)
        /\ background # NoBuild => Covers(background.snapshot)

\* A snapshot to be saved was built here, not loaded.
BuiltHere(s) == s = BuildSnapshot(s.indexed)

SnapshotsBuilt ==
    /\ background # NoBuild => BuiltHere(background.snapshot)
    /\ phase \in {"records", "index"} => BuiltHere(snapshot)

\* Between its two files a save has replaced the first.
SaveProgress == phase = "index" => recordsFile = records

FilesAgree ==
    /\ recordsFile = sourceDocs
    /\ layout = "Single" => coreFile = sourceDocs
    /\ layout = "Segmented" => manifestFile = SegmentsOf(sourceDocs)

\* Publishing a late build of a clean store saves what is saved already, so
\* that an error in that save does no harm.
SavedWhenClean == ~dirty /\ storeRevision > 0 => FilesAgree

\* Before the first mutation the store is what was loaded.
Unmutated ==
    layout = "Segmented" /\ IsOpen /\ storeRevision = 0 =>
        /\ sourceDocs # Empty => snapshot # NoSnapshot
        /\ snapshot # NoSnapshot => snapshot.indexed = sourceDocs

SaveInv ==
    /\ SegmentsCover
    /\ SnapshotsBuilt
    /\ SaveProgress
    /\ SavedWhenClean
    /\ Unmutated

LEMMA LayoutStays ==
    ASSUME [Next]_vars
    PROVE  layout' = layout
  BY DEF Next, vars, Open, OpenRejected, Upsert, Remove, PublishBackground, Refresh,
     RefreshAsync, RefreshFails, BuildDone, BuildLost, PersistRecords, PersistIndex,
     PersistFails, Crash, Close, ProcessGone

LEMMA SegmentsCoverImage ==
    ASSUME NEW image \in Image, NEW d \in Docs
    PROVE  SegmentsOf(image)[d] # NoGroup <=> image[d] # NoDoc
<1>1. CASE image[d] = NoDoc
  BY <1>1 DEF SegmentsOf
<1>2. CASE image[d] # NoDoc
  <2>1. image[d] \in Contents
    BY <1>2 DEF Image
  <2>2. SegmentsOf(image)[d] = GroupOf[image[d]]
    BY <1>2 DEF SegmentsOf
  <2> QED BY <1>2, <2>1, <2>2, StoreAssumption
<1> QED BY <1>1, <1>2

LEMMA BuildSnapshotCovers ==
    ASSUME NEW image \in Image
    PROVE  /\ layout = "Segmented" => Covers(BuildSnapshot(image))
           /\ BuiltHere(BuildSnapshot(image))
           /\ layout = "Segmented" => BuildSnapshot(image).segment = SegmentsOf(image)
<1>1. BuildSnapshot(image).indexed = image
  BY DEF BuildSnapshot
<1>2. layout = "Segmented" => BuildSnapshot(image).segment = SegmentsOf(image)
  BY DEF BuildSnapshot
<1> QED BY <1>1, <1>2, SegmentsCoverImage DEF Covers, BuiltHere

\* What opening a segmented directory yields is in segments, too, whichever
\* manifest it finds.
LEMMA LoadedSnapshotCovers ==
    ASSUME TypeOK, layout = "Segmented", LoadedSnapshot(layout) # NoSnapshot
    PROVE  /\ Covers(LoadedSnapshot(layout))
           /\ LoadedSnapshot(layout).indexed = LoadedDocs(layout)
<1> DEFINE docs == LoadedDocs(layout)
           seg == IF ManifestFits(docs) THEN manifestFile ELSE SegmentsOf(docs)
<1>1. LoadedSnapshot(layout) = [indexed |-> docs, segment |-> seg]
  BY DEF LoadedSnapshot
<1>2. docs \in Image
  BY ImageTypes DEF TypeOK, LoadedDocs, Loadable
<1>3. \A d \in Docs : seg[d] # NoGroup <=> docs[d] # NoDoc
  BY <1>2, SegmentsCoverImage DEF ManifestFits, Present
<1> HIDE DEF docs, seg
<1> QED BY <1>1, <1>3 DEF Covers, docs

LEMMA SaveInvInit == Init => SaveInv
  BY DEF Init, SaveInv, SegmentsCover, SnapshotsBuilt, SaveProgress, SavedWhenClean,
         Unmutated, IsOpen

\* Actions that leave the index, its builds and the files alone.
LEMMA SaveInvMutation ==
    ASSUME SaveInv, UNCHANGED <<layout, indexVars, background, fileVars>>,
           phase' = "idle", dirty', storeRevision' # 0
    PROVE  SaveInv'
<1>1. SegmentsCover'
  BY DEF SaveInv, SegmentsCover, Covers, indexVars
<1>2. SnapshotsBuilt'
  BY DEF SaveInv, SnapshotsBuilt, BuiltHere, BuildSnapshot
<1> QED BY <1>1, <1>2 DEF SaveInv, SaveProgress, SavedWhenClean, Unmutated

\* What a refresh prepares is the documents, and its snapshot covers them.
LEMMA PreparedSnapshot ==
    ASSUME TypeOK, PendingTracked
    PROVE  /\ BuildSnapshot(PreparedRecords) = BuildSnapshot(sourceDocs)
           /\ BuildSnapshot(sourceDocs) \in Snapshot
           /\ BuildSnapshot(sourceDocs).indexed = sourceDocs
  BY NothingPending, BuildSnapshotType DEF TypeOK

LEMMA SaveInvStep ==
    ASSUME IndInv, SaveInv, [Next]_vars
    PROVE  SaveInv'
<1> USE StoreAssumption, SentinelAssumption DEF SaveInv
<1>0. layout' = layout /\ TypeOK /\ PendingTracked
  BY LayoutStays DEF IndInv
<1>1. ASSUME NEW l \in Layouts, Open(l) PROVE SaveInv'
  <2>1. /\ l = layout
        /\ storeRevision' = 0 /\ background' = NoBuild
        /\ phase' = "idle"
        /\ sourceDocs' = LoadedDocs(layout)
        /\ snapshot' = LoadedSnapshot(layout)
    BY <1>1 DEF Open, IndInv, FreshStart
  <2>2. SegmentsCover'
    BY <1>0, <2>1, LoadedSnapshotCovers DEF SegmentsCover, Covers
  <2>3. SnapshotsBuilt' /\ SaveProgress' /\ SavedWhenClean'
    BY <2>1 DEF SnapshotsBuilt, SaveProgress, SavedWhenClean
  <2>4. layout = "Segmented" /\ LoadedDocs(layout) # Empty => LoadedSnapshot(layout) # NoSnapshot
    <3> SUFFICES ASSUME layout = "Segmented", LoadedDocs(layout) # Empty
                 PROVE  LoadedSnapshot(layout) # NoSnapshot
      OBVIOUS
    <3>1. LoadedDocs(layout) \in Image
      BY <1>0, ImageTypes DEF TypeOK, LoadedDocs, Loadable
    <3> DEFINE seg == IF ManifestFits(LoadedDocs(layout)) THEN manifestFile
                                                          ELSE SegmentsOf(LoadedDocs(layout))
    <3>2. LoadedSnapshot(layout) = [indexed |-> LoadedDocs(layout), segment |-> seg]
      BY DEF LoadedSnapshot
    <3>3. seg \in Segmentation
      BY <1>0, <3>1, SegmentsType DEF ManifestFits, TypeOK
    <3> HIDE DEF seg
    <3> QED BY <3>1, <3>2, <3>3 DEF Snapshot
  <2>5. Unmutated'
    BY <1>0, <2>1, <2>4, LoadedSnapshotCovers DEF Unmutated
  <2> QED BY <2>2, <2>3, <2>5
<1>2. ASSUME NEW l \in Layouts, OpenRejected(l) PROVE SaveInv'
  BY <1>0, <1>2 DEF OpenRejected, SegmentsCover, Covers, SnapshotsBuilt, BuiltHere, BuildSnapshot,
     SaveProgress, SavedWhenClean, FilesAgree, Unmutated, IsOpen, docVars, indexVars, fileVars
<1>3. ASSUME NEW d \in Docs, NEW c \in Contents, Upsert(d, c) PROVE SaveInv'
  <2>1. phase' = "idle" /\ dirty' /\ storeRevision' # 0
    BY <1>0, <1>3 DEF Upsert, TypeOK
  <2> QED BY <1>3, <2>1, SaveInvMutation DEF Upsert
<1>4. ASSUME NEW d \in Docs, Remove(d) PROVE SaveInv'
  <2>1. phase' = "idle" /\ dirty' /\ storeRevision' # 0
    BY <1>0, <1>4 DEF Remove, TypeOK
  <2> QED BY <1>4, <2>1, SaveInvMutation DEF Remove
<1>5. CASE PublishBackground
  <2>1. /\ background # NoBuild
        /\ background \in Build
        /\ background.target = storeRevision
        /\ snapshot' = background.snapshot
        /\ background' = NoBuild
        /\ phase' = "records"
        /\ UNCHANGED <<docVars, dirty, fileVars>>
    BY <1>0, <1>5 DEF PublishBackground, PollPublishes, TypeOK
  <2>2. background.snapshot \in Snapshot /\ background.snapshot.indexed = sourceDocs
    BY <2>1 DEF Build, IndInv, BuildTracked
  <2>3. SegmentsCover'
    BY <1>0, <2>1 DEF SegmentsCover, Covers
  <2>4. SnapshotsBuilt'
    BY <1>0, <2>1 DEF SnapshotsBuilt, BuiltHere, BuildSnapshot
  <2>5. SaveProgress' /\ SavedWhenClean'
    BY <1>0, <2>1 DEF SaveProgress, SavedWhenClean, FilesAgree, docVars, fileVars
  <2>6. Unmutated'
    BY <2>1, <2>2 DEF Unmutated, docVars
  <2> QED BY <2>3, <2>4, <2>5, <2>6
<1>6. CASE Refresh
  <2>1. /\ snapshot' = BuildSnapshot(sourceDocs)
        /\ background' \in {background, NoBuild}
        /\ phase' = "records"
        /\ UNCHANGED <<sourceDocs, storeRevision, dirty, fileVars>>
    BY <1>0, <1>6, PreparedSnapshot DEF Refresh, AfterPoll
  <2>2. SegmentsCover'
    BY <1>0, <2>1, BuildSnapshotCovers DEF SegmentsCover, Covers, TypeOK
  <2>3. SnapshotsBuilt'
    BY <1>0, <2>1, BuildSnapshotCovers DEF SnapshotsBuilt, BuiltHere, BuildSnapshot, TypeOK
  <2>4. SaveProgress' /\ SavedWhenClean'
    BY <1>0, <2>1 DEF SaveProgress, SavedWhenClean, FilesAgree, fileVars
  <2>5. Unmutated'
    BY <1>0, <2>1, PreparedSnapshot DEF Unmutated
  <2> QED BY <2>2, <2>3, <2>4, <2>5
<1>7. CASE RefreshAsync
  <2>1. /\ background' = [target |-> storeRevision, snapshot |-> BuildSnapshot(sourceDocs),
                          ready |-> FALSE]
        /\ phase = "idle"
        /\ UNCHANGED <<phase, sourceDocs, storeRevision, indexVars, dirty, fileVars>>
    BY <1>0, <1>7, PreparedSnapshot DEF RefreshAsync, NeedsRefresh
  <2>2. background'.snapshot = BuildSnapshot(sourceDocs)
    BY <2>1
  <2>3. SegmentsCover'
    BY <1>0, <2>1, <2>2, BuildSnapshotCovers DEF SegmentsCover, Covers, TypeOK, indexVars
  <2>4. SnapshotsBuilt'
    BY <1>0, <2>1, <2>2, BuildSnapshotCovers DEF SnapshotsBuilt, BuiltHere, BuildSnapshot, TypeOK
  <2> QED BY <1>0, <2>1, <2>3, <2>4 DEF SaveProgress, SavedWhenClean, FilesAgree, Unmutated,
                                        IsOpen, indexVars, fileVars
<1>8. CASE RefreshFails
  <2>1. /\ background' \in {background, NoBuild}
        /\ phase = "idle"
        /\ UNCHANGED <<phase, sourceDocs, storeRevision, indexVars, dirty, fileVars>>
    BY <1>8 DEF RefreshFails, NeedsRefresh, AfterPoll
  <2> QED BY <1>0, <2>1 DEF SegmentsCover, Covers, SnapshotsBuilt, BuiltHere, BuildSnapshot,
     SaveProgress, SavedWhenClean, FilesAgree, Unmutated, IsOpen, indexVars, fileVars
<1>9. CASE BuildDone
  <2>1. background \in Build /\ background' = [background EXCEPT !.ready = TRUE]
    BY <1>0, <1>9 DEF BuildDone, TypeOK
  <2>2. background'.snapshot = background.snapshot /\ background # NoBuild
    BY <1>9, <2>1 DEF BuildDone, Build
  <2> QED BY <1>0, <1>9, <2>2 DEF BuildDone, SegmentsCover, Covers, SnapshotsBuilt, BuiltHere,
     BuildSnapshot, SaveProgress, SavedWhenClean, FilesAgree, Unmutated, IsOpen, docVars,
     indexVars, fileVars
<1>10. CASE BuildLost
  BY <1>0, <1>10 DEF BuildLost, SegmentsCover, Covers, SnapshotsBuilt, BuiltHere, BuildSnapshot,
     SaveProgress, SavedWhenClean, FilesAgree, Unmutated, IsOpen, docVars, indexVars, fileVars
<1>11. CASE PersistRecords
  <2>1. records = sourceDocs
    BY <1>0, <1>11, NothingPending DEF PersistRecords, IndInv, CurrentWhenSaved, Current
  <2>2. SnapshotsBuilt' /\ SegmentsCover'
    BY <1>0, <1>11 DEF PersistRecords, SegmentsCover, Covers, SnapshotsBuilt, BuiltHere,
                       BuildSnapshot, indexVars
  <2>3. SaveProgress' /\ SavedWhenClean'
    BY <1>0, <1>11, <2>1 DEF PersistRecords, SaveProgress, SavedWhenClean, FilesAgree, docVars
  <2>4. Unmutated'
    BY <1>0, <1>11 DEF PersistRecords, Unmutated, IsOpen, docVars, indexVars
  <2> QED BY <2>2, <2>3, <2>4
<1>12. CASE PersistIndex
  <2>1. /\ snapshot.indexed = sourceDocs
        /\ recordsFile = sourceDocs
    BY <1>0, <1>12, NothingPending
       DEF PersistIndex, IndInv, CurrentWhenSaved, Current, SaveProgress
  <2>2. layout = "Segmented" => snapshot.segment = SegmentsOf(sourceDocs)
    BY <1>0, <1>12, <2>1, BuildSnapshotCovers
       DEF PersistIndex, SnapshotsBuilt, BuiltHere, TypeOK
  <2>3. SegmentsCover' /\ SnapshotsBuilt'
    BY <1>0, <1>12 DEF PersistIndex, SegmentsCover, Covers, SnapshotsBuilt, BuiltHere,
                       BuildSnapshot, indexVars
  <2>4. SavedWhenClean'
    BY <1>0, <1>12, <2>1, <2>2 DEF PersistIndex, SavedWhenClean, FilesAgree, SegmentsOf, docVars
  <2>5. SaveProgress' /\ Unmutated'
    BY <1>0, <1>12 DEF PersistIndex, SaveProgress, Unmutated, IsOpen, docVars, indexVars
  <2> QED BY <2>3, <2>4, <2>5
<1>13. CASE PersistFails
  BY <1>0, <1>13 DEF PersistFails, SegmentsCover, Covers, SnapshotsBuilt, BuiltHere, BuildSnapshot,
     SaveProgress, SavedWhenClean, FilesAgree, Unmutated, IsOpen, docVars, indexVars, fileVars
<1>14. CASE ProcessGone
  BY <1>14 DEF ProcessGone, SegmentsCover, SnapshotsBuilt, SaveProgress, SavedWhenClean,
     Unmutated, IsOpen
<1>15. CASE UNCHANGED vars
  BY <1>15 DEF vars, SegmentsCover, Covers, SnapshotsBuilt, BuiltHere, BuildSnapshot,
     SaveProgress, SavedWhenClean, FilesAgree, Unmutated, IsOpen, docVars, indexVars, fileVars
<1> QED
  BY <1>1, <1>2, <1>3, <1>4, <1>5, <1>6, <1>7, <1>8, <1>9, <1>10, <1>11, <1>12,
     <1>13, <1>14, <1>15 DEF Next, Crash, Close

THEOREM SaveInvHolds == Spec => []SaveInv
<1>1. IndInv /\ SaveInv /\ [Next]_vars => SaveInv'
  BY SaveInvStep
<1> QED BY <1>1, SaveInvInit, IndInvHolds, PTL DEF Spec

(* A segmented directory, whatever stopped the last save of it, is opened   *)
(* to a store that has an index of exactly its documents, each in a         *)
(* segment, and stays so as long as nothing is changed.                     *)
THEOREM ReopenedIsSearchableHolds == Spec => []ReopenedIsSearchable
<1>1. IndInv /\ SaveInv => ReopenedIsSearchable
  <2> SUFFICES ASSUME IndInv, SaveInv, layout = "Segmented", phase = "idle", ~dirty
               PROVE  /\ sourceDocs # Empty => snapshot # NoSnapshot
                      /\ snapshot # NoSnapshot =>
                            /\ snapshot.indexed = sourceDocs
                            /\ \A d \in Docs : snapshot.segment[d] # NoGroup
                                                 <=> sourceDocs[d] # NoDoc
    BY DEF ReopenedIsSearchable, Present
  <2>1. storeRevision \in Nat
    BY DEF IndInv, TypeOK
  <2>2. /\ sourceDocs # Empty => snapshot # NoSnapshot
        /\ snapshot # NoSnapshot => snapshot.indexed = sourceDocs
    BY <2>1 DEF IndInv, SaveInv, CurrentWhenSaved, Current, Unmutated, IsOpen
  <2> QED BY <2>2 DEF SaveInv, SegmentsCover, Covers
<1> QED BY <1>1, IndInvHolds, SaveInvHolds, PTL

(* A refresh that completed after a mutation has made every file of the     *)
(* directory hold the present documents, so that an interrupted save before *)
(* it is healed, in either layout.                                          *)
THEOREM CompletedSaveAgreesHolds == Spec => []CompletedSaveAgrees
<1>1. SaveInv => CompletedSaveAgrees
  BY DEF SaveInv, CompletedSaveAgrees, SavedWhenClean, FilesAgree
<1> QED BY <1>1, SaveInvHolds, PTL

-----------------------------------------------------------------------------
(***************************************************************************)
(* The lexical directory is changed in place, document by document, while  *)
(* the index is replaced as a whole.  That no document falls between the   *)
(* two rests on the tombstones: a document put back is none of them.       *)
(***************************************************************************)

LexicalTracked ==
    faults = 0 =>
        \A d \in Present(sourceDocs) \ dirtyDocs : lexical[d] = sourceDocs[d]

TombstonesAbsent == \A d \in tombstones : sourceDocs[d] = NoDoc

\* While no process has the directory open there is no document to find.
ClosedIsEmpty ==
    phase \in {"down", "rejected"} => sourceDocs = Empty /\ tombstones = {}

LexicalInv == LexicalTracked /\ TombstonesAbsent /\ ClosedIsEmpty

\* What prepare_pending_changes sends to the lexical index.
LEMMA PrepareIndexes ==
    ASSUME IndInv, LexicalInv, PrepareSucceeds, UNCHANGED sourceDocs
    PROVE  LexicalTracked'
<1> SUFFICES ASSUME faults = 0, NEW d \in Docs, sourceDocs[d] # NoDoc
             PROVE  lexical'[d] = sourceDocs[d]
  BY DEF PrepareSucceeds, LexicalTracked, Present
<1>1. PreparedRecords = sourceDocs
  BY NothingPending DEF IndInv
<1>2. d \notin tombstones
  BY DEF LexicalInv, TombstonesAbsent
<1>3. CASE d \in LexicalUpserts
  <2>1. lexical'[d] = PreparedRecords[d]
    BY <1>2, <1>3 DEF PrepareSucceeds
  <2> QED BY <1>1, <2>1
<1>4. CASE d \notin LexicalUpserts
  <2>1. lexical'[d] = lexical[d]
    BY <1>2, <1>4 DEF PrepareSucceeds
  <2>2. d \notin dirtyDocs
    BY <1>1, <1>2, <1>4 DEF LexicalUpserts, Present
  <2> QED BY <2>1, <2>2 DEF LexicalInv, LexicalTracked, Present
<1> QED BY <1>3, <1>4

LEMMA LexicalInvStep ==
    ASSUME IndInv, LexicalInv, [Next]_vars
    PROVE  LexicalInv'
<1> USE DEF LexicalInv
<1>0. TypeOK
  BY DEF IndInv
<1>1. ASSUME NEW l \in Layouts, Open(l) PROVE LexicalInv'
  <2>1. \A d \in Docs : LoadedDocs(l)[d] # NoDoc => lexical'[d] = LoadedDocs(l)[d]
    BY <1>1 DEF Open
  <2> QED BY <1>1, <2>1 DEF Open, LexicalTracked, Present, TombstonesAbsent, ClosedIsEmpty
<1>2. ASSUME NEW l \in Layouts, OpenRejected(l) PROVE LexicalInv'
  BY <1>2 DEF OpenRejected, LexicalTracked, Present, TombstonesAbsent, ClosedIsEmpty, docVars
<1>3. ASSUME NEW d \in Docs, NEW c \in Contents, Upsert(d, c) PROVE LexicalInv'
  <2>1. \A e \in Docs \ {d} : sourceDocs'[e] = sourceDocs[e]
    BY <1>0, <1>3 DEF Upsert, TypeOK, Image
  <2>2. dirtyDocs' = dirtyDocs \cup {d} /\ tombstones' = tombstones \ {d} /\ phase' = "idle"
    BY <1>3 DEF Upsert
  <2>3. LexicalTracked'
    BY <1>3, <2>1, <2>2 DEF Upsert, LexicalTracked, Present
  <2>4. TombstonesAbsent' /\ ClosedIsEmpty'
    BY <1>0, <2>1, <2>2 DEF TombstonesAbsent, ClosedIsEmpty, TypeOK
  <2> QED BY <2>3, <2>4
<1>4. ASSUME NEW d \in Docs, Remove(d) PROVE LexicalInv'
  <2>1. \A e \in Docs \ {d} : sourceDocs'[e] = sourceDocs[e]
    BY <1>0, <1>4 DEF Remove, TypeOK, Image
  <2>2. /\ sourceDocs'[d] = NoDoc
        /\ dirtyDocs' = dirtyDocs \ {d} /\ tombstones' = tombstones \cup {d} /\ phase' = "idle"
    BY <1>0, <1>4 DEF Remove, TypeOK, Image
  <2>3. LexicalTracked'
    BY <1>4, <2>1, <2>2 DEF Remove, LexicalTracked, Present
  <2>4. TombstonesAbsent' /\ ClosedIsEmpty'
    BY <1>0, <2>1, <2>2 DEF TombstonesAbsent, ClosedIsEmpty, TypeOK
  <2> QED BY <2>3, <2>4
<1>5. CASE PublishBackground
  BY <1>5 DEF PublishBackground, LexicalTracked, Present, TombstonesAbsent, ClosedIsEmpty, docVars
<1>6. CASE Refresh
  <2>1. PrepareSucceeds /\ UNCHANGED <<sourceDocs, tombstones>> /\ phase' = "records"
    BY <1>6 DEF Refresh
  <2> QED BY <2>1, PrepareIndexes DEF TombstonesAbsent, ClosedIsEmpty
<1>7. CASE RefreshAsync
  <2>1. PrepareSucceeds /\ UNCHANGED <<phase, sourceDocs, tombstones>>
    BY <1>7 DEF RefreshAsync
  <2> QED BY <2>1, PrepareIndexes DEF TombstonesAbsent, ClosedIsEmpty
<1>8. CASE RefreshFails
  <2>1. faults' # 0
    BY <1>0, <1>8, StoreAssumption DEF RefreshFails, PrepareFails, TypeOK
  <2> QED BY <1>8, <2>1 DEF RefreshFails, LexicalTracked, TombstonesAbsent, ClosedIsEmpty
<1>9. CASE BuildDone
  BY <1>9 DEF BuildDone, LexicalTracked, Present, TombstonesAbsent, ClosedIsEmpty, docVars
<1>10. CASE BuildLost
  <2>1. faults' # 0
    BY <1>0, <1>10, StoreAssumption DEF BuildLost, TypeOK
  <2> QED BY <1>10, <2>1 DEF BuildLost, LexicalTracked, TombstonesAbsent, ClosedIsEmpty, docVars
<1>11. CASE PersistRecords
  BY <1>11 DEF PersistRecords, LexicalTracked, Present, TombstonesAbsent, ClosedIsEmpty, docVars
<1>12. CASE PersistIndex
  BY <1>12 DEF PersistIndex, LexicalTracked, Present, TombstonesAbsent, ClosedIsEmpty, docVars
<1>13. CASE PersistFails
  <2>1. faults' # 0
    BY <1>0, <1>13, StoreAssumption DEF PersistFails, TypeOK
  <2> QED BY <1>13, <2>1 DEF PersistFails, LexicalTracked, TombstonesAbsent, ClosedIsEmpty, docVars
<1>14. CASE ProcessGone
  BY <1>14 DEF ProcessGone, LexicalTracked, Present, Empty, TombstonesAbsent, ClosedIsEmpty
<1>15. CASE UNCHANGED vars
  BY <1>15 DEF vars, LexicalTracked, Present, TombstonesAbsent, ClosedIsEmpty, docVars
<1> QED
  BY <1>1, <1>2, <1>3, <1>4, <1>5, <1>6, <1>7, <1>8, <1>9, <1>10, <1>11, <1>12,
     <1>13, <1>14, <1>15 DEF Next, Crash, Close

(* As long as no step failed, the lexical directory holds every document of *)
(* a clean store, however often documents were removed and put back between *)
(* refreshes, and however a background build was overtaken.                 *)
THEOREM LexicalCompleteHolds == Spec => []LexicalComplete
<1>1. Init => LexicalInv
  BY DEF Init, LexicalInv, LexicalTracked, Present, Empty, TombstonesAbsent, ClosedIsEmpty
<1>2. IndInv /\ LexicalInv /\ [Next]_vars => LexicalInv'
  BY LexicalInvStep
<1>3. IndInv /\ LexicalInv => LexicalComplete
  BY DEF IndInv, PendingTracked, LexicalInv, LexicalTracked, LexicalComplete
<1> QED BY <1>1, <1>2, <1>3, IndInvHolds, PTL DEF Spec

-----------------------------------------------------------------------------
(***************************************************************************)
(* The refinement of DurableStore.  A save of the store is the moment at   *)
(* which the next open would find the new image: when records.json is      *)
(* replaced, or, in a single-layout directory that has no core.bin yet,    *)
(* when core.bin appears.                                                  *)
(***************************************************************************)

LEMMA FilesKeptImageKept ==
    ASSUME UNCHANGED <<layout, recordsFile, coreFile>>
    PROVE  LoadedDocs(layout)' = LoadedDocs(layout)
  BY DEF LoadedDocs, Loadable

LEMMA RecordsReplaced ==
    ASSUME IndInv, PersistRecords
    PROVE  LoadedDocs(layout)' \in {LoadedDocs(layout), sourceDocs}
<1>1. records = sourceDocs
  BY NothingPending DEF PersistRecords, IndInv, CurrentWhenSaved, Current
<1>2. layout' = layout /\ coreFile' = coreFile /\ recordsFile' = sourceDocs
  BY <1>1 DEF PersistRecords
<1>3. sourceDocs # NoFile
  BY SentinelAssumption DEF IndInv, TypeOK
<1>4. CASE layout = "Single" /\ coreFile = NoFile
  BY <1>2, <1>4 DEF LoadedDocs, Loadable
<1>5. CASE ~(layout = "Single" /\ coreFile = NoFile)
  BY <1>2, <1>3, <1>5 DEF LoadedDocs, Loadable
<1> QED BY <1>4, <1>5

LEMMA CoreReplaced ==
    ASSUME IndInv, SaveInv, PersistIndex
    PROVE  LoadedDocs(layout)' \in {LoadedDocs(layout), sourceDocs}
<1>1. recordsFile = sourceDocs
  BY NothingPending DEF PersistIndex, IndInv, CurrentWhenSaved, Current, SaveInv, SaveProgress
<1>2. layout' = layout /\ recordsFile' = sourceDocs
  BY <1>1 DEF PersistIndex
<1>3. CASE Loadable(layout)
  <2>1. LoadedDocs(layout)' \in {sourceDocs, Empty}
    BY <1>2 DEF LoadedDocs
  <2>2. layout = "Single" => coreFile' # NoFile
    BY SentinelAssumption DEF PersistIndex, IndInv, SaveHasSnapshot, Snapshot
  <2>3. Loadable(layout)'
    BY <1>1, <1>2, <1>3, <2>2 DEF Loadable
  <2> QED BY <1>2, <2>3 DEF LoadedDocs
<1>4. CASE ~Loadable(layout)
  <2>1. LoadedDocs(layout) = Empty
    BY <1>4 DEF LoadedDocs
  <2> QED BY <1>2, <2>1 DEF LoadedDocs
<1> QED BY <1>3, <1>4

LEMMA DurableStep ==
    ASSUME IndInv, SaveInv, [Next]_vars
    PROVE  [Durable!Next]_(Durable!vars)
<1> USE DEF Durable!Next, Durable!vars
<1>1. ASSUME NEW l \in Layouts, Open(l) PROVE Durable!Start
  <2>1. LoadedDocs(layout)' = LoadedDocs(layout)
    BY <1>1, FilesKeptImageKept DEF Open, fileVars
  <2> QED BY <1>1, <2>1 DEF Open, Durable!Start, IsOpen
<1>2. ASSUME NEW l \in Layouts, OpenRejected(l) PROVE UNCHANGED Durable!vars
  <2>1. LoadedDocs(layout)' = LoadedDocs(layout)
    BY <1>2, FilesKeptImageKept DEF OpenRejected, fileVars
  <2> QED BY <1>2, <2>1 DEF OpenRejected, IsOpen, docVars
<1>3. ASSUME NEW d \in Docs, NEW c \in Contents, Upsert(d, c) PROVE Durable!Put(d, c)
  <2>1. LoadedDocs(layout)' = LoadedDocs(layout)
    BY <1>3, FilesKeptImageKept DEF Upsert, fileVars
  <2> QED BY <1>3, <2>1 DEF Upsert, Durable!Put, IsOpen
<1>4. ASSUME NEW d \in Docs, Remove(d) PROVE Durable!Delete(d)
  <2>1. LoadedDocs(layout)' = LoadedDocs(layout)
    BY <1>4, FilesKeptImageKept DEF Remove, fileVars
  <2> QED BY <1>4, <2>1 DEF Remove, Durable!Delete, IsOpen
<1>5. ASSUME UNCHANGED <<layout, sourceDocs, fileVars>>, IsOpen' = IsOpen
      PROVE  UNCHANGED Durable!vars
  BY <1>5, FilesKeptImageKept DEF fileVars
<1>6. CASE PublishBackground
  BY <1>5, <1>6 DEF PublishBackground, IsOpen, docVars
<1>7. CASE Refresh
  BY <1>5, <1>7 DEF Refresh, NeedsRefresh, IsOpen
<1>8. CASE RefreshAsync
  BY <1>5, <1>8 DEF RefreshAsync, IsOpen
<1>9. CASE RefreshFails
  BY <1>5, <1>9 DEF RefreshFails, IsOpen
<1>10. CASE BuildDone
  BY <1>5, <1>10 DEF BuildDone, IsOpen, docVars
<1>11. CASE BuildLost
  BY <1>5, <1>11 DEF BuildLost, IsOpen, docVars
<1>12. CASE PersistFails
  BY <1>5, <1>12 DEF PersistFails, IsOpen, docVars
<1>13. CASE PersistRecords
  <2>1. UNCHANGED <<IsOpen, sourceDocs>> /\ IsOpen
    BY <1>13 DEF PersistRecords, IsOpen, docVars
  <2> QED BY <1>13, <2>1, RecordsReplaced DEF Durable!Save
<1>14. CASE PersistIndex
  <2>1. UNCHANGED <<IsOpen, sourceDocs>> /\ IsOpen
    BY <1>14 DEF PersistIndex, IsOpen, docVars
  <2> QED BY <1>14, <2>1, CoreReplaced DEF Durable!Save
<1>15. ASSUME ProcessGone, IsOpen PROVE Durable!Stop
  <2>1. LoadedDocs(layout)' = LoadedDocs(layout)
    BY <1>15, FilesKeptImageKept DEF ProcessGone, fileVars
  <2> QED BY <1>15, <2>1 DEF ProcessGone, Durable!Stop, Durable!Empty, Empty, IsOpen
<1>16. CASE UNCHANGED vars
  BY <1>5, <1>16 DEF vars, IsOpen, docVars
<1> QED
  BY <1>1, <1>2, <1>3, <1>4, <1>6, <1>7, <1>8, <1>9, <1>10, <1>11, <1>12, <1>13,
     <1>14, <1>15, <1>16 DEF Next, Crash, Close, IsOpen

(* The store implements DurableStore: whatever fails, is killed or overlaps *)
(* a save of several files, what the next open finds is the whole image of  *)
(* one moment, never a mixture, and never something older than the last     *)
(* save that completed.                                                     *)
THEOREM Implementation == Spec => DurableSpec
<1>1. Init => Durable!Init
  BY DEF Init, Durable!Init, Durable!Empty, Empty, IsOpen, LoadedDocs, Loadable
<1>2. IndInv /\ SaveInv /\ [Next]_vars => [Durable!Next]_(Durable!vars)
  BY DurableStep
<1> QED BY <1>1, <1>2, IndInvHolds, SaveInvHolds, PTL DEF Spec, DurableSpec, Durable!Spec
=============================================================================
