---------------------------- MODULE KnowledgeProofs ----------------------------
(***************************************************************************)
(* Theorems about Knowledge: what holds of the versions of chunks and the  *)
(* statuses of documents for any documents and contents, after any number  *)
(* of edits, removals, refreshes and restarts.                             *)
(***************************************************************************)
EXTENDS Knowledge, FiniteSetTheorems, TLAPS

(***************************************************************************)
(* The inductive invariant.  A chunk id names its document and its span,   *)
(* and every entry of the store agrees with the id it stands under, so     *)
(* that the refresh of one document touches no chunk of another; a chunk   *)
(* that was replaced goes only with its whole document, so that no version *)
(* counts from one that is gone.                                           *)
(***************************************************************************)

IsMeta(m) ==
    m = [doc |-> m.doc, lineage |-> m.lineage, version |-> m.version, latest |-> m.latest,
         supersedes |-> m.supersedes]

\* Every remembered chunk stands under its own document and lineage.
IdsAgree(metas) ==
    \A id \in DOMAIN metas :
        /\ id # None /\ id = <<id[1], id[2], id[3]>>
        /\ IsMeta(metas[id])
        /\ metas[id].doc = id[1] /\ metas[id].lineage = <<id[1], id[2]>>

\* The latest chunk of a lineage is a chunk of that lineage.
LatestAgrees(latest) ==
    \A l \in DOMAIN latest : l = <<latest[l][1], latest[l][2]>>

\* What a chunk replaced is remembered, one version below it.
CountsFromKnown(metas) ==
    \A id \in DOMAIN metas :
        LET old == metas[id].supersedes IN
        old # None =>
            /\ old \in DOMAIN metas
            /\ metas[id].version = metas[old].version + 1
            /\ metas[id].lineage = metas[old].lineage

Sound(l) == IdsAgree(l.metas) /\ LatestAgrees(l.latest) /\ CountsFromKnown(l.metas)

\* All these chunks of d are remembered as the latest.
Latest(metas, d, chunks) ==
    \A c \in chunks : ChunkId(d, c) \in DOMAIN metas /\ metas[ChunkId(d, c)].latest

\* The documents of a store, with chunks that are not "no chunk".
Known(docs) ==
    \A d \in DOMAIN docs :
        d \in Docs /\ docs[d] \in SourceDocuments /\ None \notin Ids(d, docs[d].chunks)

SourcesKnown == Known(sources) /\ Known(records)

\* What is to be refreshed or forgotten.
PendingKnown ==
    /\ IsFiniteSet(dirty) /\ IsFiniteSet(tombstones)
    /\ dirty \subseteq DOMAIN sources
    /\ tombstones \cap DOMAIN sources = {}
    /\ DOMAIN records \subseteq DOMAIN sources

\* The record of a document that is not dirty has the latest chunks.
CleanIsLatest == \A d \in DOMAIN records \ dirty : Latest(life.metas, d, records[d].chunks)

\* So has every record that was saved.
SavedIsSound ==
    saved # None =>
        /\ Known(saved.records)
        /\ IdsAgree(saved.metas) /\ CountsFromKnown(saved.metas)
        /\ \A d \in DOMAIN saved.records : Latest(saved.metas, d, saved.records[d].chunks)

KnowledgeInv == Sound(life) /\ SourcesKnown /\ PendingKnown /\ CleanIsLatest /\ SavedIsSound

-----------------------------------------------------------------------------
(***************************************************************************)
(* One document is refreshed, one is forgotten.                            *)
(***************************************************************************)

LEMMA ReplacedAgrees ==
    ASSUME NEW l, Sound(l), NEW d, NEW c, Replaced(l, d, c) # None
    PROVE  /\ Replaced(l, d, c) \in DOMAIN l.metas
           /\ Replaced(l, d, c)[1] = d
           /\ l.metas[Replaced(l, d, c)].lineage = Lineage(d, c)
<1> DEFINE id == l.latest[Lineage(d, c)]
<1>1. Replaced(l, d, c) = id /\ Lineage(d, c) \in DOMAIN l.latest /\ id \in DOMAIN l.metas
  BY DEF Replaced
<1>2. <<d, c.span>> = <<id[1], id[2]>>
  BY <1>1 DEF Sound, LatestAgrees, Lineage
<1>3. l.metas[id].lineage = <<id[1], id[2]>>
  BY <1>1 DEF Sound, IdsAgree
<1> HIDE DEF id
<1> QED BY <1>1, <1>2, <1>3 DEF Lineage

(* A refresh of one document leaves every entry under its own id, counts    *)
(* versions up, makes the chunks of the document the latest ones, and       *)
(* supersedes no chunk of another document.                                 *)
LEMMA UpdateIsSound ==
    ASSUME NEW l, Sound(l), NEW d, NEW old, NEW new, None \notin Ids(d, new)
    PROVE  /\ Sound(UpdateChunks(l, d, old, new))
           /\ Latest(UpdateChunks(l, d, old, new).metas, d, new)
           /\ \A id \in DOMAIN l.metas : id[1] # d =>
                /\ id \in DOMAIN UpdateChunks(l, d, old, new).metas
                /\ l.metas[id].latest => UpdateChunks(l, d, old, new).metas[id].latest
<1> DEFINE fresh == {c \in new : ChunkId(d, c) \notin DOMAIN l.metas}
           replaced == {Replaced(l, d, c) : c \in fresh}
           gone == {c \in old : Lineage(d, c) \notin Lineages(d, new)}
           retired == (replaced \cup Ids(d, gone)) \cap DOMAIN l.metas
           made == [id \in Ids(d, fresh) |-> NewMeta(l, d, CHOOSE c \in fresh : ChunkId(d, c) = id)]
           known == [id \in DOMAIN l.metas |-> Kept(l.metas[id], id \in Ids(d, new), id \in retired)]
           metas == Over(made, known)
           now == [x \in Lineages(d, new) |-> ChunkId(d, CHOOSE c \in new : Lineage(d, c) = x)]
           latest == Over(now, Without(l.latest, Lineages(d, gone)))
<1>1. UpdateChunks(l, d, old, new) = [metas |-> metas, latest |-> latest]
  BY DEF UpdateChunks
<1>2. DOMAIN made = Ids(d, fresh) /\ DOMAIN known = DOMAIN l.metas
  OBVIOUS
<1>3. Ids(d, fresh) \cap DOMAIN l.metas = {}
  BY DEF Ids
<1>4. /\ DOMAIN metas = Ids(d, fresh) \cup DOMAIN l.metas
      /\ \A id \in Ids(d, fresh) : metas[id] = made[id]
      /\ \A id \in DOMAIN l.metas : metas[id] = known[id]
  <2> HIDE DEF made, known, fresh
  <2> QED BY <1>2, <1>3 DEF metas, Over
<1>5. ASSUME NEW id \in DOMAIN l.metas
      PROVE  /\ IsMeta(metas[id])
             /\ metas[id].doc = l.metas[id].doc /\ metas[id].lineage = l.metas[id].lineage
             /\ metas[id].version = l.metas[id].version
             /\ metas[id].supersedes = l.metas[id].supersedes
             /\ metas[id].latest =
                  (id \in Ids(d, new) \/ (l.metas[id].latest /\ ~(id \in retired)))
  <2> DEFINE m == l.metas[id]
  <2>1. IsMeta(m)
    BY DEF Sound, IdsAgree
  <2>2. metas[id] = Kept(m, id \in Ids(d, new), id \in retired)
    BY <1>4
  <2> HIDE DEF metas, retired, m
  <2>3. metas[id] = [doc |-> m.doc, lineage |-> m.lineage, version |-> m.version,
                     latest |-> (id \in Ids(d, new) \/ (m.latest /\ ~(id \in retired))),
                     supersedes |-> m.supersedes]
    BY <2>1, <2>2 DEF Kept, IsMeta
  <2> USE DEF m
  <2> QED BY <2>3 DEF IsMeta
<1>6. ASSUME NEW id \in Ids(d, fresh)
      PROVE  \E c \in fresh : id = ChunkId(d, c) /\ metas[id] = NewMeta(l, d, c)
  <2>1. \E c \in fresh : ChunkId(d, c) = id
    BY DEF Ids
  <2>2. metas[id] = NewMeta(l, d, CHOOSE c \in fresh : ChunkId(d, c) = id)
    BY <1>4
  <2> HIDE DEF fresh, metas
  <2> QED BY <2>1, <2>2
<1>7. ASSUME NEW c PROVE IsMeta(NewMeta(l, d, c)) /\ NewMeta(l, d, c).doc = d
                         /\ NewMeta(l, d, c).lineage = Lineage(d, c) /\ NewMeta(l, d, c).latest
                         /\ NewMeta(l, d, c).supersedes = Replaced(l, d, c)
  BY DEF NewMeta, FreshMeta, IsMeta
<1> HIDE DEF metas, latest, made, known
<1>8. IdsAgree(metas)
  <2> SUFFICES ASSUME NEW id \in DOMAIN metas
               PROVE  /\ id # None /\ id = <<id[1], id[2], id[3]>> /\ IsMeta(metas[id])
                      /\ metas[id].doc = id[1] /\ metas[id].lineage = <<id[1], id[2]>>
    BY DEF IdsAgree
  <2>1. CASE id \in DOMAIN l.metas
    BY <1>5, <2>1 DEF Sound, IdsAgree
  <2>2. CASE id \in Ids(d, fresh)
    <3>1. PICK c \in fresh : id = ChunkId(d, c) /\ metas[id] = NewMeta(l, d, c)
      BY <1>6, <2>2
    <3>2. id # None
      BY <3>1 DEF Ids
    <3> QED BY <1>7, <3>1, <3>2 DEF ChunkId, Lineage
  <2> QED BY <1>4, <2>1, <2>2
<1>9. LatestAgrees(latest)
  <2> SUFFICES ASSUME NEW x \in DOMAIN latest PROVE x = <<latest[x][1], latest[x][2]>>
    BY DEF LatestAgrees
  <2>1. CASE x \in Lineages(d, new)
    <3>1. latest[x] = ChunkId(d, CHOOSE c \in new : Lineage(d, c) = x)
      BY <2>1 DEF latest, Over
    <3>2. PICK c \in new : Lineage(d, c) = x /\ latest[x] = ChunkId(d, c)
      BY <2>1, <3>1 DEF Lineages
    <3> QED BY <3>2 DEF ChunkId, Lineage
  <2>2. CASE x \notin Lineages(d, new)
    <3>1. x \in DOMAIN l.latest /\ latest[x] = l.latest[x]
      BY <2>2 DEF latest, Over, Without
    <3> QED BY <3>1 DEF Sound, LatestAgrees
  <2> QED BY <2>1, <2>2
<1>10. CountsFromKnown(metas)
  <2> SUFFICES ASSUME NEW id \in DOMAIN metas, metas[id].supersedes # None
               PROVE  /\ metas[id].supersedes \in DOMAIN metas
                      /\ metas[id].version = metas[metas[id].supersedes].version + 1
                      /\ metas[id].lineage = metas[metas[id].supersedes].lineage
    BY DEF CountsFromKnown
  <2>1. CASE id \in DOMAIN l.metas
    <3> DEFINE o == l.metas[id].supersedes
    <3>1. o \in DOMAIN l.metas /\ l.metas[id].version = l.metas[o].version + 1
          /\ l.metas[id].lineage = l.metas[o].lineage
      BY <1>5, <2>1 DEF Sound, CountsFromKnown
    <3> QED BY <1>4, <1>5, <2>1, <3>1
  <2>2. CASE id \in Ids(d, fresh)
    <3>1. PICK c \in fresh : id = ChunkId(d, c) /\ metas[id] = NewMeta(l, d, c)
      BY <1>6, <2>2
    <3> DEFINE o == Replaced(l, d, c)
    <3>2. metas[id].supersedes = o /\ o # None /\ metas[id].lineage = Lineage(d, c)
      BY <1>7, <3>1
    <3>3. o \in DOMAIN l.metas /\ l.metas[o].lineage = Lineage(d, c)
      BY <3>2, ReplacedAgrees
    <3>4. metas[id].version = l.metas[o].version + 1
      BY <3>1, <3>2 DEF NewMeta, FreshMeta
    <3> QED BY <1>4, <1>5, <3>2, <3>3, <3>4
  <2> QED BY <1>4, <2>1, <2>2
<1>11. Latest(metas, d, new)
  <2> SUFFICES ASSUME NEW c \in new
               PROVE  ChunkId(d, c) \in DOMAIN metas /\ metas[ChunkId(d, c)].latest
    BY DEF Latest
  <2>1. ChunkId(d, c) \in Ids(d, new)
    BY DEF Ids
  <2>2. CASE ChunkId(d, c) \in DOMAIN l.metas
    BY <1>4, <1>5, <2>1, <2>2
  <2>3. CASE ChunkId(d, c) \notin DOMAIN l.metas
    <3>1. ChunkId(d, c) \in Ids(d, fresh)
      BY <2>3 DEF Ids
    <3> QED BY <1>4, <1>6, <1>7, <3>1
  <2> QED BY <2>2, <2>3
<1>12. ASSUME NEW id \in DOMAIN l.metas, id[1] # d
       PROVE  id \in DOMAIN metas /\ (l.metas[id].latest => metas[id].latest)
  <2>1. id \notin Ids(d, gone)
    BY <1>12 DEF Ids, ChunkId
  <2>2. id \notin replaced
    <3> SUFFICES ASSUME NEW c \in fresh, id = Replaced(l, d, c) PROVE FALSE
      OBVIOUS
    <3>1. id # None
      BY DEF Sound, IdsAgree
    <3> QED BY <1>12, <3>1, ReplacedAgrees
  <2> HIDE DEF replaced
  <2>3. id \notin retired
    BY <2>1, <2>2
  <2> HIDE DEF retired
  <2> QED BY <1>4, <1>5, <2>3
<1> QED BY <1>1, <1>8, <1>9, <1>10, <1>11, <1>12 DEF Sound

(* Forgetting a document leaves the chunks of every other as they are, and  *)
(* takes no chunk away that another one of the same lineage counts from.    *)
LEMMA RemoveIsSound ==
    ASSUME NEW l, Sound(l), NEW d
    PROVE  /\ Sound(RemoveChunks(l, d))
           /\ \A id \in DOMAIN l.metas : id[1] # d =>
                /\ id \in DOMAIN RemoveChunks(l, d).metas
                /\ RemoveChunks(l, d).metas[id] = l.metas[id]
<1> DEFINE own == {id \in DOMAIN l.metas : l.metas[id].doc = d}
           ended == {x \in DOMAIN l.latest :
                       l.latest[x] \in own /\ l.metas[l.latest[x]].lineage = x}
           metas == Without(l.metas, own)
           latest == Without(l.latest, ended)
<1>1. RemoveChunks(l, d) = [metas |-> metas, latest |-> latest]
  BY DEF RemoveChunks
<1>2. /\ DOMAIN metas = DOMAIN l.metas \ own
      /\ \A id \in DOMAIN metas : metas[id] = l.metas[id]
  BY DEF Without
<1>3. /\ DOMAIN latest \subseteq DOMAIN l.latest
      /\ \A x \in DOMAIN latest : latest[x] = l.latest[x]
  BY DEF Without
<1> HIDE DEF metas, latest
<1>4. \A id \in DOMAIN l.metas : id[1] # d => id \notin own
  BY DEF Sound, IdsAgree
<1>5. CountsFromKnown(metas)
  <2> SUFFICES ASSUME NEW id \in DOMAIN metas, metas[id].supersedes # None
               PROVE  /\ metas[id].supersedes \in DOMAIN metas
                      /\ metas[id].version = metas[metas[id].supersedes].version + 1
                      /\ metas[id].lineage = metas[metas[id].supersedes].lineage
    BY DEF CountsFromKnown
  <2> DEFINE o == l.metas[id].supersedes
  <2>1. id \in DOMAIN l.metas /\ id \notin own /\ metas[id] = l.metas[id]
    BY <1>2
  <2>2. o \in DOMAIN l.metas /\ l.metas[id].version = l.metas[o].version + 1
        /\ l.metas[id].lineage = l.metas[o].lineage
    BY <2>1 DEF Sound, CountsFromKnown
  <2>3. l.metas[id].doc = l.metas[o].doc
    <3>1. l.metas[id].lineage = <<l.metas[id].doc, id[2]>>
      BY <2>1 DEF Sound, IdsAgree
    <3>2. l.metas[o].lineage = <<l.metas[o].doc, o[2]>>
      BY <2>2 DEF Sound, IdsAgree
    <3>3. <<l.metas[id].doc, id[2]>> = <<l.metas[o].doc, o[2]>>
      BY <2>2, <3>1, <3>2
    <3> QED BY <3>3
  <2>4. o \in DOMAIN metas /\ metas[o] = l.metas[o]
    BY <1>2, <2>1, <2>2, <2>3
  <2> QED BY <2>1, <2>2, <2>4
<1> QED BY <1>1, <1>2, <1>3, <1>4, <1>5 DEF Sound, IdsAgree, LatestAgrees

-----------------------------------------------------------------------------
(***************************************************************************)
(* A refresh folds over the dirty documents, then over the tombstones.     *)
(***************************************************************************)

AnyOf(s) == CHOOSE x \in s : TRUE

\* Documents that are not dirty keep their latest chunks; those moved have theirs.
MoveStep(c, d, l) == UpdateChunks(l, d, ChunksIn(records, d), sources[d].chunks)
PartlyMoved(c, T, l) ==
    /\ Sound(l)
    /\ \A d \in DOMAIN records \ dirty : Latest(l.metas, d, records[d].chunks)
    /\ \A d \in T : Latest(l.metas, d, sources[d].chunks)

Moving == INSTANCE FoldTheorems WITH Step <- MoveStep, Choice <- AnyOf, Inv <- PartlyMoved

ForgetStep(c, d, l) == RemoveChunks(l, d)
PartlyForgotten(c, T, l) ==
    /\ Sound(l)
    /\ \A d \in DOMAIN records \ dirty : Latest(l.metas, d, records[d].chunks)
    /\ \A d \in dirty : Latest(l.metas, d, sources[d].chunks)

Forgetting == INSTANCE FoldTheorems WITH Step <- ForgetStep, Choice <- AnyOf, Inv <- PartlyForgotten

Moved(lifecycle) ==
    FoldSet(LAMBDA d, l : UpdateChunks(l, d, ChunksIn(records, d), sources[d].chunks),
            lifecycle, dirty)
Forgotten(lifecycle) == FoldSet(LAMBDA d, l : RemoveChunks(l, d), lifecycle, tombstones)

LEMMA RefreshedIsFolds ==
    ASSUME NEW l
    PROVE  /\ Refreshed(l) = Forgotten(Moved(l))
           /\ Moved(l) = Moving!Fold(0, l, dirty)
           /\ Forgotten(l) = Forgetting!Fold(0, l, tombstones)
<1>1. Refreshed(l) = Forgotten(Moved(l))
  BY DEF Refreshed, Forgotten, Moved
<1>2. Moved(l) = Moving!Fold(0, l, dirty)
  BY DEF Moved, FoldSet, MapThenFoldSet, Moving!Fold, MoveStep, AnyOf
<1>3. Forgotten(l) = Forgetting!Fold(0, l, tombstones)
  BY DEF Forgotten, FoldSet, MapThenFoldSet, Forgetting!Fold, ForgetStep, AnyOf
<1> QED BY <1>1, <1>2, <1>3

\* What another document's refresh or removal leaves of the latest chunks of e.
LEMMA LatestStays ==
    ASSUME NEW l, NEW m, NEW d, NEW e, e # d, NEW chunks, Latest(l.metas, e, chunks),
           \A id \in DOMAIN l.metas : id[1] # d =>
             id \in DOMAIN m.metas /\ (l.metas[id].latest => m.metas[id].latest)
    PROVE  Latest(m.metas, e, chunks)
<1> SUFFICES ASSUME NEW c \in chunks
             PROVE  ChunkId(e, c) \in DOMAIN m.metas /\ m.metas[ChunkId(e, c)].latest
  BY DEF Latest
<1>1. ChunkId(e, c) \in DOMAIN l.metas /\ l.metas[ChunkId(e, c)].latest
  BY DEF Latest
<1>2. ChunkId(e, c)[1] = e
  BY DEF ChunkId
<1> QED BY <1>1, <1>2

LEMMA MovedIsSound ==
    ASSUME KnowledgeInv
    PROVE  PartlyMoved(0, dirty, Moved(life))
<1>1. Moving!IsFiniteSet(dirty) /\ Moving!Chooses(dirty)
  BY DEF KnowledgeInv, PendingKnown, IsFiniteSet, Moving!IsFiniteSet, Moving!Chooses, AnyOf
<1>2. PartlyMoved(0, {}, life)
  BY DEF KnowledgeInv, CleanIsLatest, PartlyMoved
<1>3. ASSUME NEW s \in SUBSET dirty, NEW l, s # {}, PartlyMoved(0, s \ {AnyOf(s)}, l)
      PROVE  PartlyMoved(0, s, MoveStep(0, AnyOf(s), l))
  <2> DEFINE d == AnyOf(s)
             old == ChunksIn(records, d)
             m == UpdateChunks(l, d, old, sources[d].chunks)
  <2>1. d \in s /\ d \in dirty /\ d \in DOMAIN sources
    BY <1>3 DEF AnyOf, KnowledgeInv, PendingKnown
  <2>2. None \notin Ids(d, sources[d].chunks)
    BY <2>1 DEF KnowledgeInv, SourcesKnown, Known
  <2>3. Sound(l)
    BY <1>3 DEF PartlyMoved
  <2>4. /\ Sound(m) /\ Latest(m.metas, d, sources[d].chunks)
        /\ \A id \in DOMAIN l.metas : id[1] # d =>
             id \in DOMAIN m.metas /\ (l.metas[id].latest => m.metas[id].latest)
    <3> HIDE DEF d, old
    <3> QED BY <2>2, <2>3, UpdateIsSound
  <2>5. MoveStep(0, AnyOf(s), l) = m
    BY DEF MoveStep
  <2> HIDE DEF m
  <2>6. ASSUME NEW e, NEW chunks, e # d, Latest(l.metas, e, chunks) PROVE Latest(m.metas, e, chunks)
    <3> HIDE DEF d
    <3> QED BY <2>4, <2>6, LatestStays
  <2>7. ASSUME NEW e \in DOMAIN records \ dirty PROVE Latest(m.metas, e, records[e].chunks)
    <3>1. e # d /\ Latest(l.metas, e, records[e].chunks)
      BY <1>3, <2>1 DEF PartlyMoved
    <3> QED BY <2>6, <3>1
  <2>8. ASSUME NEW e \in s PROVE Latest(m.metas, e, sources[e].chunks)
    <3>1. CASE e = d
      BY <2>4, <3>1
    <3>2. CASE e # d
      <4>1. Latest(l.metas, e, sources[e].chunks)
        BY <1>3, <3>2 DEF PartlyMoved
      <4> QED BY <2>6, <3>2, <4>1
    <3> QED BY <3>1, <3>2
  <2> QED BY <2>4, <2>5, <2>7, <2>8 DEF PartlyMoved
<1>4. PartlyMoved(0, dirty, Moving!Fold(0, life, dirty))
  BY <1>1, <1>2, <1>3, Moving!FoldInduction
<1> QED BY <1>4, RefreshedIsFolds

(* A refresh leaves the versions sound and makes every chunk of every       *)
(* document, refreshed now or before, the latest of its lineage.            *)
LEMMA RefreshedIsSound ==
    ASSUME KnowledgeInv
    PROVE  PartlyForgotten(0, tombstones, Refreshed(life))
<1>1. Forgetting!IsFiniteSet(tombstones) /\ Forgetting!Chooses(tombstones)
  BY DEF KnowledgeInv, PendingKnown, IsFiniteSet, Forgetting!IsFiniteSet, Forgetting!Chooses, AnyOf
<1>2. PartlyForgotten(0, {}, Moved(life))
  BY MovedIsSound DEF PartlyMoved, PartlyForgotten
<1>3. ASSUME NEW s \in SUBSET tombstones, NEW l, s # {}, PartlyForgotten(0, s \ {AnyOf(s)}, l)
      PROVE  PartlyForgotten(0, s, ForgetStep(0, AnyOf(s), l))
  <2> DEFINE d == AnyOf(s)
             m == RemoveChunks(l, d)
  <2>1. d \in s /\ d \in tombstones /\ d \notin DOMAIN records /\ d \notin dirty
    BY <1>3 DEF AnyOf, KnowledgeInv, PendingKnown
  <2>2. Sound(l)
    BY <1>3 DEF PartlyForgotten
  <2>3. /\ Sound(m)
        /\ \A id \in DOMAIN l.metas : id[1] # d =>
             id \in DOMAIN m.metas /\ (l.metas[id].latest => m.metas[id].latest)
    <3> HIDE DEF d
    <3> QED BY <2>2, RemoveIsSound
  <2>4. ForgetStep(0, AnyOf(s), l) = m
    BY DEF ForgetStep
  <2> HIDE DEF m
  <2>5. ASSUME NEW e, NEW chunks, e # d, Latest(l.metas, e, chunks) PROVE Latest(m.metas, e, chunks)
    <3> HIDE DEF d
    <3> QED BY <2>3, <2>5, LatestStays
  <2> QED BY <1>3, <2>1, <2>3, <2>4, <2>5 DEF PartlyForgotten
<1>4. PartlyForgotten(0, tombstones, Forgetting!Fold(0, Moved(life), tombstones))
  BY <1>1, <1>2, <1>3, Forgetting!FoldInduction
<1> QED BY <1>4, RefreshedIsFolds

-----------------------------------------------------------------------------
(***************************************************************************)
(* Every step keeps the invariant.                                         *)
(***************************************************************************)

LEMMA KnownOver ==
    ASSUME NEW f, NEW g, Known(f), Known(g)
    PROVE  Known(Over(f, g))
BY DEF Known, Over

LEMMA KnownWithout ==
    ASSUME NEW f, NEW S, Known(f)
    PROVE  Known(Without(f, S))
BY DEF Known, Without

\* A document made of a record has its chunks.
LEMMA RestoredIsKnown ==
    ASSUME NEW all, Known(all)
    PROVE  Known(RestoredAll(all)) /\ DOMAIN RestoredAll(all) = DOMAIN all
<1> SUFFICES ASSUME NEW d \in DOMAIN all
             PROVE  /\ Restored(all[d]) \in SourceDocuments
                    /\ Restored(all[d]).chunks = all[d].chunks
  BY DEF Known, RestoredAll
<1>1. all[d] \in SourceDocuments
  BY DEF Known
<1>2. Topic(all[d]) \in Nat
  BY <1>1 DEF SourceDocuments, Topic
<1> QED BY <1>1, <1>2 DEF Restored, SourceDocuments

LEMMA InvInit == Init => KnowledgeInv
<1> SUFFICES ASSUME Init PROVE KnowledgeInv
  OBVIOUS
<1>1. DOMAIN sources = {} /\ DOMAIN records = {} /\ DOMAIN life.metas = {} /\ DOMAIN life.latest = {}
  BY DEF Init, EmptyLifecycle
<1>2. IsFiniteSet({})
  BY FS_EmptySet
<1>3. Sound(life)
  BY <1>1 DEF Sound, IdsAgree, LatestAgrees, CountsFromKnown
<1> QED BY <1>1, <1>2, <1>3 DEF Init, KnowledgeInv, SourcesKnown, Known, PendingKnown,
                               CleanIsLatest, SavedIsSound

LEMMA UpsertKeeps ==
    ASSUME KnowledgeInv, NEW d \in Docs, NEW doc \in Contents[d], Upsert(d, doc)
    PROVE  KnowledgeInv'
<1>1. doc \in SourceDocuments /\ None \notin Ids(d, doc.chunks)
  BY KnowledgeAssumption, NoneAssumption
<1>2. DOMAIN sources' = DOMAIN sources \cup {d}
      /\ \A e \in DOMAIN sources' : sources'[e] = IF e = d THEN doc ELSE sources[e]
  BY DEF Upsert, With
<1>3. SourcesKnown'
  BY <1>1, <1>2 DEF Upsert, KnowledgeInv, SourcesKnown, Known
<1>4. PendingKnown'
  <2>1. IsFiniteSet(dirty') /\ IsFiniteSet(tombstones')
    BY FS_AddElement, FS_RemoveElement DEF Upsert, KnowledgeInv, PendingKnown
  <2> QED BY <1>2, <2>1 DEF Upsert, KnowledgeInv, PendingKnown
<1>5. CleanIsLatest'
  BY DEF Upsert, KnowledgeInv, CleanIsLatest
<1> QED BY <1>3, <1>4, <1>5 DEF Upsert, KnowledgeInv, SavedIsSound

LEMMA RemoveDocumentKeeps ==
    ASSUME KnowledgeInv, NEW d \in Docs, RemoveDocument(d)
    PROVE  KnowledgeInv'
<1>1. SourcesKnown'
  BY KnownWithout DEF RemoveDocument, KnowledgeInv, SourcesKnown
<1>2. /\ DOMAIN sources' = DOMAIN sources \ {d} /\ DOMAIN records' = DOMAIN records \ {d}
      /\ \A e \in DOMAIN records' : records'[e] = records[e]
  BY DEF RemoveDocument, Without
<1>3. PendingKnown'
  <2>1. IsFiniteSet(dirty') /\ IsFiniteSet(tombstones')
    BY FS_AddElement, FS_RemoveElement DEF RemoveDocument, KnowledgeInv, PendingKnown
  <2> QED BY <1>2, <2>1 DEF RemoveDocument, KnowledgeInv, PendingKnown
<1>4. CleanIsLatest'
  BY <1>2 DEF RemoveDocument, KnowledgeInv, CleanIsLatest
<1> QED BY <1>1, <1>3, <1>4 DEF RemoveDocument, KnowledgeInv, SavedIsSound

LEMMA RefreshKeeps ==
    ASSUME KnowledgeInv, NEW order, Refresh(order)
    PROVE  KnowledgeInv'
<1> DEFINE new == [d \in dirty |-> sources[d]]
<1>1. records' = Over(new, records) /\ life' = Refreshed(life) /\ dirty' = {}
      /\ saved' = [records |-> records', metas |-> life'.metas]
      /\ sources' = sources /\ tombstones' = tombstones
  BY DEF Refresh
<1>2. /\ DOMAIN records' = DOMAIN records \cup dirty
      /\ \A d \in dirty : records'[d] = sources[d]
      /\ \A d \in DOMAIN records \ dirty : records'[d] = records[d]
  BY <1>1 DEF Over
<1>3. SourcesKnown'
  <2>1. Known(new)
    BY DEF KnowledgeInv, SourcesKnown, PendingKnown, Known
  <2> QED BY <1>1, <2>1, KnownOver DEF KnowledgeInv, SourcesKnown
<1>4. PendingKnown'
  BY <1>1, <1>2, FS_EmptySet DEF KnowledgeInv, PendingKnown
<1>5. /\ Sound(life')
      /\ \A d \in DOMAIN records' : Latest(life'.metas, d, records'[d].chunks)
  BY <1>1, <1>2, RefreshedIsSound DEF PartlyForgotten
<1>6. SavedIsSound'
  BY <1>1, <1>3, <1>5 DEF SavedIsSound, SourcesKnown, Sound
<1> QED BY <1>3, <1>4, <1>5, <1>6 DEF KnowledgeInv, CleanIsLatest

LEMMA ReopenKeeps ==
    ASSUME KnowledgeInv, NEW order, Reopen(order)
    PROVE  KnowledgeInv'
<1> DEFINE chunksOf == [d \in DOMAIN saved.records |-> saved.records[d].chunks]
           metas == Bootstrapped(saved.metas, chunksOf)
<1>1. /\ Known(saved.records) /\ IdsAgree(saved.metas) /\ CountsFromKnown(saved.metas)
      /\ \A d \in DOMAIN saved.records : Latest(saved.metas, d, saved.records[d].chunks)
  BY DEF Reopen, KnowledgeInv, SavedIsSound
<1>2. /\ sources' = RestoredAll(saved.records) /\ records' = saved.records
      /\ dirty' = {} /\ tombstones' = {} /\ saved' = saved
      /\ \E latest \in LatestChoices(metas) : life' = [metas |-> metas, latest |-> latest]
  BY DEF Reopen
<1>3. /\ IdsAgree(metas) /\ CountsFromKnown(metas)
      /\ \A d \in DOMAIN saved.records : Latest(metas, d, saved.records[d].chunks)
  <2>1. CASE DOMAIN saved.metas # {}
    <3>1. metas = saved.metas
      BY <2>1 DEF Bootstrapped
    <3> QED BY <1>1, <3>1
  <2>2. CASE DOMAIN saved.metas = {}
    <3> DEFINE all == UNION {{<<d, c>> : c \in chunksOf[d]} : d \in DOMAIN chunksOf}
    <3>1. \A d \in DOMAIN saved.records : saved.records[d].chunks = {}
      BY <1>1, <2>2 DEF Latest
    <3>2. all = {}
      BY <3>1
    <3>3. metas = [id \in {ChunkId(p[1], p[2]) : p \in all} |->
                     LET p == CHOOSE x \in all : ChunkId(x[1], x[2]) = id
                     IN  FreshMeta(p[1], p[2], 1, None)]
      BY <2>2 DEF Bootstrapped
    <3>4. DOMAIN metas = {}
      <4> HIDE DEF all, metas
      <4> QED BY <3>2, <3>3
    <3> HIDE DEF metas
    <3> QED BY <3>1, <3>4 DEF IdsAgree, CountsFromKnown, Latest
  <2> QED BY <2>1, <2>2
<1> HIDE DEF metas
<1>4. PICK latest \in LatestChoices(metas) : life' = [metas |-> metas, latest |-> latest]
  BY <1>2
<1>5. LatestAgrees(latest)
  <2> DEFINE current == {id \in DOMAIN metas : metas[id].latest}
             lineages == {metas[id].lineage : id \in current}
  <2>1. /\ latest \in [lineages -> current]
        /\ \A l \in lineages : latest[l] \in current /\ metas[latest[l]].lineage = l
    BY DEF LatestChoices
  <2> QED BY <1>3, <2>1 DEF LatestAgrees, IdsAgree
<1>6. Sound(life') /\ life'.metas = metas
  BY <1>3, <1>4, <1>5 DEF Sound
<1>7. SourcesKnown' /\ PendingKnown'
  BY <1>1, <1>2, RestoredIsKnown, FS_EmptySet DEF SourcesKnown, PendingKnown
<1>8. CleanIsLatest' /\ SavedIsSound'
  BY <1>1, <1>2, <1>3, <1>6 DEF CleanIsLatest, SavedIsSound
<1> QED BY <1>6, <1>7, <1>8 DEF KnowledgeInv

LEMMA InvNext == KnowledgeInv /\ [Next]_vars => KnowledgeInv'
<1> SUFFICES ASSUME KnowledgeInv, [Next]_vars PROVE KnowledgeInv'
  OBVIOUS
<1>1. ASSUME NEW d \in Docs, RemoveDocument(d) PROVE KnowledgeInv'
  BY <1>1, RemoveDocumentKeeps
<1>2. ASSUME NEW d \in Docs, NEW doc \in Contents[d], Upsert(d, doc) PROVE KnowledgeInv'
  BY <1>2, UpsertKeeps
<1>3. ASSUME NEW order \in Orders, Refresh(order) PROVE KnowledgeInv'
  BY <1>3, RefreshKeeps
<1>4. ASSUME NEW order \in Orders, Reopen(order) PROVE KnowledgeInv'
  BY <1>4, ReopenKeeps
<1>5. CASE UNCHANGED vars
  BY <1>5 DEF vars, KnowledgeInv, SourcesKnown, PendingKnown, CleanIsLatest, SavedIsSound
<1> QED BY <1>1, <1>2, <1>3, <1>4, <1>5 DEF Next

(* What is remembered of chunks stays consistent, in the store and on disk. *)
THEOREM KnowledgeInvHolds == Spec => []KnowledgeInv
<1> QED BY InvInit, InvNext, PTL DEF Spec

(* Whatever documents do, a chunk that replaced another stands one version  *)
(* above it, in the same lineage.                                           *)
THEOREM VersionsCountHolds == Spec => []VersionsCount
<1>1. KnowledgeInv => VersionsCount
  BY DEF KnowledgeInv, Sound, CountsFromKnown, VersionsCount
<1> QED BY <1>1, KnowledgeInvHolds, PTL

(* In a store with nothing pending every chunk of every document is         *)
(* remembered under its own document and lineage and is a latest one.       *)
THEOREM CurrentChunksAreLatestHolds == Spec => []CurrentChunksAreLatest
<1>1. KnowledgeInv => CurrentChunksAreLatest
  <2> SUFFICES ASSUME KnowledgeInv, Settled, NEW d \in DOMAIN records, NEW c \in records[d].chunks
               PROVE  /\ ChunkId(d, c) \in DOMAIN life.metas
                      /\ life.metas[ChunkId(d, c)].latest
                      /\ life.metas[ChunkId(d, c)].doc = d
                      /\ life.metas[ChunkId(d, c)].lineage = Lineage(d, c)
                      /\ DocumentIsLatest(life, d, records[d].chunks)
    BY DEF CurrentChunksAreLatest
  <2>1. Latest(life.metas, d, records[d].chunks)
    BY DEF KnowledgeInv, CleanIsLatest, Settled
  <2>2. ChunkId(d, c) \in DOMAIN life.metas /\ life.metas[ChunkId(d, c)].latest
    BY <2>1 DEF Latest
  <2>3. life.metas[ChunkId(d, c)].doc = d /\ life.metas[ChunkId(d, c)].lineage = Lineage(d, c)
    BY <2>2 DEF KnowledgeInv, Sound, IdsAgree, ChunkId, Lineage
  <2>4. DocumentIsLatest(life, d, records[d].chunks)
    BY <2>1 DEF DocumentIsLatest, Latest, Ids
  <2> QED BY <2>2, <2>3, <2>4
<1> QED BY <1>1, KnowledgeInvHolds, PTL

-----------------------------------------------------------------------------
(***************************************************************************)
(* Sequences: where a set is ranked, and where sequences are joined.       *)
(***************************************************************************)

LEMMA StepsReach ==
    ASSUME NEW n \in Nat, NEW T, 0 \in T, \A k \in Nat : k < n /\ k \in T => k + 1 \in T
    PROVE  n \in T
BY Moving!StepsReach

TotalOn(R, S) ==
    /\ \A x \in S : <<x, x>> \notin R
    /\ \A x, y \in S : x # y => <<x, y>> \in R \/ <<y, x>> \in R
    /\ \A x, y, z \in S : <<x, y>> \in R /\ <<y, z>> \in R => <<x, z>> \in R

RankedBy(S, R) ==
    [i \in 1 .. Cardinality(S) |-> CHOOSE x \in S : Cardinality({y \in S : <<y, x>> \in R}) = i - 1]

LEMMA RankingIsExact ==
    ASSUME NEW S, IsFiniteSet(S), NEW R, TotalOn(R, S)
    PROVE  LET r == RankedBy(S, R) IN
           /\ DOMAIN r = 1 .. Cardinality(S)
           /\ Elements(r) = S
           /\ \A i, j \in DOMAIN r : i < j => <<r[i], r[j]>> \in R
BY Moving!RankingIsExact DEF TotalOn, Moving!TotalOn, RankedBy, Moving!RankedBy, Elements,
   Moving!Elements, Moving!IsFiniteSet, IsFiniteSet, Moving!Cardinality, Cardinality

LEMMA FlattenIsExact ==
    ASSUME NEW E, NEW s \in Seq(Seq(E))
    PROVE  /\ Seqs!FlattenSeq(s) \in Seq(E)
           /\ Elements(Seqs!FlattenSeq(s)) = UNION {Elements(s[i]) : i \in DOMAIN s}
<1>1. Seqs!FlattenSeq(s) = Moving!Joined(s)
  BY DEF Seqs!FlattenSeq, Moving!Joined
<1>2. /\ Moving!Joined(s) \in Seq(E)
      /\ Moving!Elements(Moving!Joined(s)) = UNION {Moving!Elements(s[i]) : i \in DOMAIN s}
  BY Moving!JoinedIsExact
<1>3. \A t : Moving!Elements(t) = Elements(t)
  BY DEF Elements, Moving!Elements
<1> QED BY <1>1, <1>2, <1>3

LEMMA ImageIsFinite ==
    ASSUME NEW S, IsFiniteSet(S), NEW f
    PROVE  IsFiniteSet({f[x] : x \in S})
<1> DEFINE T == {f[x] : x \in S}
           g == [x \in S |-> f[x]]
<1>1. g \in Surjection(S, T)
  BY DEF Surjection
<1> HIDE DEF g, T
<1>2. IsFiniteSet(T)
  BY <1>1, FS_Surjection
<1> QED BY <1>2 DEF T

\* Every set of indices has a first one.
LEMMA FirstIndex ==
    ASSUME NEW n \in Nat, NEW S \in SUBSET (1 .. n), S # {}
    PROVE  Min(S) \in S /\ \A i \in S : Min(S) <= i
<1> DEFINE T == {k \in 1 .. n : n + 1 - k \in S}
<1>1. T \in SUBSET (1 .. n) /\ T # {}
  <2>1. PICK i \in S : i \in 1 .. n
    OBVIOUS
  <2>2. n + 1 - i \in 1 .. n /\ n + 1 - (n + 1 - i) = i
    BY <2>1
  <2>3. n + 1 - i \in T
    BY <2>1, <2>2
  <2> QED BY <2>3
<1>2. PICK k \in T : \A y \in T : k >= y
  <2> HIDE DEF T
  <2> QED BY <1>1, Moving!LastIndex
<1>3. n + 1 - k \in S /\ k \in 1 .. n
  BY <1>2
<1>4. ASSUME NEW j \in S PROVE n + 1 - k <= j
  <2>1. j \in 1 .. n /\ n + 1 - j \in 1 .. n /\ n + 1 - (n + 1 - j) = j
    OBVIOUS
  <2>2. n + 1 - j \in T
    BY <2>1
  <2>3. k >= n + 1 - j
    BY <1>2, <2>2
  <2> QED BY <1>3, <2>1, <2>3
<1> QED BY <1>3, <1>4 DEF Min

LEMMA ItemsOf ==
    ASSUME NEW E, NEW s \in Seq(E)
    PROVE  Len(s) \in Nat /\ DOMAIN s = 1 .. Len(s) /\ \A i \in DOMAIN s : s[i] \in E
OBVIOUS

LEMMA ShortSequences ==
    /\ \A E : <<>> \in Seq(E) /\ \A x \in E : <<x>> \in Seq(E)
    /\ Elements(<<>>) = {} /\ \A x : Elements(<<x>>) = {x}
BY DEF Elements

LEMMA LastIndexIsMax ==
    ASSUME NEW n \in Nat, NEW S \in SUBSET (1 .. n), S # {}
    PROVE  Max(S) \in S /\ \A i \in S : i <= Max(S)
<1>1. PICK x \in S : \A y \in S : x >= y
  BY Moving!LastIndex
<1> QED BY <1>1 DEF Max

-----------------------------------------------------------------------------
(***************************************************************************)
(* Claims: a claim is named by its document and its place, so that the     *)
(* claims of a store stand in one order.                                   *)
(***************************************************************************)

Stored(docs) == Known(docs) /\ IsFiniteSet(DOMAIN docs)

Found == [subject : STRING, predicate : STRING, object : Nat] \X Nat

LEMMA ClaimsOfDocument ==
    ASSUME NEW d \in Docs, NEW doc \in SourceDocuments
    PROVE  /\ IsFiniteSet(ExtractClaims(d, doc))
           /\ \A c \in ExtractClaims(d, doc) :
                c.doc = d /\ c.date = doc.date /\ c.id = <<d, c.id[2]>> /\ c.id[2] \in Nat
           /\ \A b, c \in ExtractClaims(d, doc) : b.id = c.id => b = c
<1> DEFINE per(i) == [j \in DOMAIN doc.sentences[i].claims |-> <<doc.sentences[i].claims[j], i>>]
           parts == [i \in DOMAIN doc.sentences |-> per(i)]
           all == Seqs!FlattenSeq(parts)
           same(x, y) == x.subject = y.subject /\ x.predicate = y.predicate /\ x.object = y.object
           first(n) == \A m \in 1 .. n - 1 : ~same(all[m][1], all[n][1])
           named(n) == ClaimOf(d, doc, all[n][1], n - 1, all[n][2])
           kept == {n \in DOMAIN all : first(n)}
<1>1. doc.sentences \in Seq(Sentences)
  BY DEF SourceDocuments
<1>2. \A i \in DOMAIN doc.sentences :
         doc.sentences[i].claims \in Seq([subject : STRING, predicate : STRING, object : Nat])
  <2>1. \A i \in DOMAIN doc.sentences : doc.sentences[i] \in Sentences
    BY <1>1, ItemsOf
  <2> QED BY <2>1 DEF Sentences
<1>3. \A i \in DOMAIN doc.sentences : per(i) \in Seq(Found)
  <2> SUFFICES ASSUME NEW i \in DOMAIN doc.sentences PROVE per(i) \in Seq(Found)
    OBVIOUS
  <2> DEFINE k == Len(doc.sentences[i].claims)
  <2>0. i \in Nat
    BY <1>1, ItemsOf
  <2>3. doc.sentences[i].claims \in Seq([subject : STRING, predicate : STRING, object : Nat])
    BY <1>2
  <2>1. /\ k \in Nat /\ DOMAIN doc.sentences[i].claims = 1 .. k
        /\ \A j \in 1 .. k : doc.sentences[i].claims[j] \in [subject : STRING, predicate : STRING, object : Nat]
    BY <2>3, ItemsOf
  <2>2. per(i) \in [1 .. k -> Found]
    BY <2>0, <2>1 DEF Found
  <2> QED BY <2>1, <2>2
<1>4. parts \in Seq(Seq(Found))
  <2>1. DOMAIN doc.sentences = 1 .. Len(doc.sentences) /\ Len(doc.sentences) \in Nat
    BY <1>1
  <2> HIDE DEF per
  <2> QED BY <1>3, <2>1
<1>5. all \in Seq(Found)
  <2> HIDE DEF parts
  <2> QED BY <1>4, FlattenIsExact
<1>6. ExtractClaims(d, doc) = {named(n) : n \in kept}
  BY DEF ExtractClaims
<1> HIDE DEF all
<1>7. kept \in SUBSET (1 .. Len(all)) /\ Len(all) \in Nat /\ IsFiniteSet(1 .. Len(all))
  BY <1>5, FS_Interval
<1> HIDE DEF first
<1>8. \A n \in kept : /\ named(n).doc = d /\ named(n).date = doc.date
                      /\ named(n).id = <<d, n - 1>> /\ n - 1 \in Nat
  BY <1>7 DEF ClaimOf
<1> HIDE DEF named
<1>9. IsFiniteSet(ExtractClaims(d, doc))
  <2>1. IsFiniteSet(kept)
    BY <1>7, FS_Subset
  <2> DEFINE f == [n \in kept |-> named(n)]
  <2>2. ExtractClaims(d, doc) = {f[n] : n \in kept}
    BY <1>6
  <2> HIDE DEF kept, f
  <2> QED BY <2>1, <2>2, ImageIsFinite
<1>10. ASSUME NEW b \in ExtractClaims(d, doc), NEW c \in ExtractClaims(d, doc), b.id = c.id
       PROVE  b = c
  <2>1. PICK m \in kept : b = named(m)
    BY <1>6
  <2>2. PICK n \in kept : c = named(n)
    BY <1>6
  <2>3. m - 1 = n - 1 /\ m \in Nat /\ n \in Nat
    BY <1>7, <1>8, <1>10, <2>1, <2>2
  <2> QED BY <2>1, <2>2, <2>3
<1>11. ASSUME NEW c \in ExtractClaims(d, doc)
       PROVE  c.doc = d /\ c.date = doc.date /\ c.id = <<d, c.id[2]>> /\ c.id[2] \in Nat
  <2>1. PICK n \in kept : c = named(n)
    BY <1>6
  <2> QED BY <1>8, <2>1
<1> QED BY <1>9, <1>10, <1>11

AllClaims(docs) == UNION {ExtractClaims(d, docs[d]) : d \in DOMAIN docs}

LEMMA ClaimsOfStore ==
    ASSUME NEW docs, Stored(docs)
    PROVE  /\ IsFiniteSet(AllClaims(docs))
           /\ \A c \in AllClaims(docs) :
                /\ c.doc \in DOMAIN docs /\ c \in ExtractClaims(c.doc, docs[c.doc])
                /\ c.id = <<c.doc, c.id[2]>> /\ c.id[2] \in Nat /\ c.doc \in Nat /\ c.date \in Nat
           /\ \A b, c \in AllClaims(docs) : b.id = c.id => b = c
<1>1. \A d \in DOMAIN docs : d \in Docs /\ docs[d] \in SourceDocuments /\ docs[d].date \in Nat
  BY DEF Stored, Known, SourceDocuments
<1>2. ASSUME NEW c \in AllClaims(docs)
      PROVE  /\ c.doc \in DOMAIN docs /\ c \in ExtractClaims(c.doc, docs[c.doc])
             /\ c.id = <<c.doc, c.id[2]>> /\ c.id[2] \in Nat /\ c.doc \in Nat /\ c.date \in Nat
  <2>1. PICK d \in DOMAIN docs : c \in ExtractClaims(d, docs[d])
    BY DEF AllClaims
  <2>2. c.doc = d /\ c.date = docs[d].date /\ c.id = <<d, c.id[2]>> /\ c.id[2] \in Nat
    BY <1>1, <2>1, ClaimsOfDocument
  <2> QED BY <1>1, <2>1, <2>2, KnowledgeAssumption
<1>3. ASSUME NEW b \in AllClaims(docs), NEW c \in AllClaims(docs), b.id = c.id
      PROVE  b = c
  <2>1. b.doc = c.doc
    BY <1>2, <1>3
  <2> QED BY <1>1, <1>2, <1>3, <2>1, ClaimsOfDocument
<1>4. IsFiniteSet(AllClaims(docs))
  <2> DEFINE parts == {ExtractClaims(d, docs[d]) : d \in DOMAIN docs}
  <2>1. IsFiniteSet(DOMAIN docs)
    BY DEF Stored
  <2>2. IsFiniteSet(parts)
    <3> DEFINE f == [d \in DOMAIN docs |-> ExtractClaims(d, docs[d])]
    <3>1. parts = {f[d] : d \in DOMAIN docs}
      OBVIOUS
    <3> HIDE DEF parts, f
    <3> QED BY <2>1, <3>1, ImageIsFinite
  <2>3. \A p \in parts : IsFiniteSet(p)
    BY <1>1, ClaimsOfDocument
  <2> HIDE DEF parts
  <2>4. IsFiniteSet(UNION parts)
    BY <2>2, <2>3, FS_UNION
  <2> QED BY <2>4 DEF AllClaims, parts
<1> QED BY <1>2, <1>3, <1>4

\* The claims of a store, each once.
LEMMA ClaimsAreSorted ==
    ASSUME NEW docs, Stored(docs)
    PROVE  LET claims == SortedClaims(docs) IN
           /\ Cardinality(AllClaims(docs)) \in Nat
           /\ DOMAIN claims = 1 .. Cardinality(AllClaims(docs))
           /\ Elements(claims) = AllClaims(docs)
           /\ \A i, j \in DOMAIN claims : i # j => claims[i].id # claims[j].id
<1> DEFINE S == AllClaims(docs)
           R == {p \in S \X S : ClaimBefore(p[1], p[2])}
           claims == SortedClaims(docs)
<1>1. TotalOn(R, S)
  <2>1. \A x, y \in S : <<x, y>> \in R <=> ClaimBefore(x, y)
    OBVIOUS
  <2>2. \A x \in S : x.doc \in Nat /\ x.date \in Nat /\ x.id[2] \in Nat /\ x.id = <<x.doc, x.id[2]>>
    BY ClaimsOfStore
  <2>3. \A x, y \in S : x # y => x.doc # y.doc \/ x.id[2] # y.id[2]
    BY <2>2, ClaimsOfStore
  <2> HIDE DEF S, R
  <2>4. \A x \in S : <<x, x>> \notin R
    BY <2>1, <2>2 DEF ClaimBefore
  <2>5. \A x, y \in S : x # y => <<x, y>> \in R \/ <<y, x>> \in R
    BY <2>1, <2>2, <2>3 DEF ClaimBefore
  <2>6. \A x, y, z \in S : <<x, y>> \in R /\ <<y, z>> \in R => <<x, z>> \in R
    BY <2>1, <2>2 DEF ClaimBefore
  <2> QED BY <2>4, <2>5, <2>6 DEF TotalOn
<1>2. claims = RankedBy(S, R)
  <2>1. \A x \in S : {y \in S : ClaimBefore(y, x)} = {y \in S : <<y, x>> \in R}
    OBVIOUS
  <2>2. claims = [i \in 1 .. Cardinality(S) |->
                    CHOOSE x \in S : Cardinality({y \in S : ClaimBefore(y, x)}) = i - 1]
    BY DEF SortedClaims, Ranked, AllClaims
  <2>3. \A i \in 1 .. Cardinality(S) :
           (CHOOSE x \in S : Cardinality({y \in S : ClaimBefore(y, x)}) = i - 1)
             = CHOOSE x \in S : Cardinality({y \in S : <<y, x>> \in R}) = i - 1
    BY <2>1
  <2> DEFINE one(i) == CHOOSE x \in S : Cardinality({y \in S : ClaimBefore(y, x)}) = i - 1
             other(i) == CHOOSE x \in S : Cardinality({y \in S : <<y, x>> \in R}) = i - 1
  <2>4. claims = [i \in 1 .. Cardinality(S) |-> one(i)]
    BY <2>2
  <2>5. RankedBy(S, R) = [i \in 1 .. Cardinality(S) |-> other(i)]
    BY DEF RankedBy
  <2>6. \A i \in 1 .. Cardinality(S) : one(i) = other(i)
    BY <2>3
  <2> HIDE DEF S, R, claims, one, other
  <2> QED BY <2>4, <2>5, <2>6
<1>3. IsFiniteSet(S)
  BY ClaimsOfStore
<1>4. /\ DOMAIN claims = 1 .. Cardinality(S) /\ Elements(claims) = S
      /\ \A i, j \in DOMAIN claims : i < j => <<claims[i], claims[j]>> \in R
  <2> HIDE DEF S, R, claims
  <2> QED BY <1>1, <1>2, <1>3, RankingIsExact
<1>5. Cardinality(S) \in Nat
  BY <1>3, FS_CardinalityType
<1>6. \A i, j \in DOMAIN claims : i < j => claims[i].id # claims[j].id
  <2>1. \A i \in DOMAIN claims : claims[i] \in S
    BY <1>4 DEF Elements
  <2>2. \A i, j \in DOMAIN claims : i < j => claims[i] # claims[j]
    BY <1>1, <1>4, <2>1 DEF TotalOn
  <2> HIDE DEF claims
  <2> QED BY <2>1, <2>2, ClaimsOfStore
<1>7. \A i, j \in DOMAIN claims : i # j => i < j \/ j < i
  BY <1>4, <1>5
<1> HIDE DEF claims
<1>8. \A i, j \in DOMAIN claims : i # j => claims[i].id # claims[j].id
  BY <1>6, <1>7
<1> QED BY <1>4, <1>5, <1>8 DEF claims

-----------------------------------------------------------------------------
(***************************************************************************)
(* Relations: which ones there are does not depend on the order in which   *)
(* the documents are walked, but for one thing: a relation between two     *)
(* claims is dropped where a link already says the same, and then it would *)
(* have changed nothing.                                                   *)
(***************************************************************************)

BeforeIt(claims, i) == {j \in 1 .. i - 1 : ClaimKey(claims[j]) = ClaimKey(claims[i])}

Answered(claims) ==
    {i \in DOMAIN claims :
        BeforeIt(claims, i) # {} /\ claims[Max(BeforeIt(claims, i))].doc # claims[i].doc}

Reply(docs, claims, i) == Related(docs, claims[i], claims[Max(BeforeIt(claims, i))])

Implied(docs) == LET claims == SortedClaims(docs)
                 IN  {Reply(docs, claims, i) : i \in Answered(claims)}

Linking(docs) == {d \in DOMAIN docs : ExplicitLink(d, docs)}

LinkedTo(docs) == {docs[d].supersedes : d \in Linking(docs)}

IsLink(docs, r) ==
    /\ r.kind = "Supersedes" /\ r.method = "explicit" /\ r.confidence = 100
    /\ r.source \in Linking(docs) /\ r.target = docs[r.source].supersedes
    /\ r.id[1][1] = r.source /\ r.id[3][1] = r.target /\ r.id[2] = r.kind

\* The documents r is about, and how sure it is.
IsImplied(docs, r) ==
    /\ r.method # "explicit"
    /\ r.source \in DOMAIN docs /\ r.target \in DOMAIN docs /\ r.source # r.target
    /\ \/ r.kind = "Supersedes" /\ r.confidence \in {90, 95}
       \/ r.kind = "ConflictsWith" /\ r.confidence = 75
       \/ r.kind = "Confirms" /\ r.confidence = 95
    /\ r.id[1][1] = r.source /\ r.id[3][1] = r.target /\ r.id[2] = r.kind
    /\ \E c \in ExtractClaims(r.target, docs[r.target]) : c.id = r.claim

\* A claim is answered by the next one of its key only.
LEMMA RepliesAre ==
    ASSUME NEW docs, Stored(docs), NEW i \in Answered(SortedClaims(docs))
    PROVE  LET claims == SortedClaims(docs)
               m == Max(BeforeIt(claims, i))
           IN  /\ m \in DOMAIN claims /\ i \in DOMAIN claims /\ m < i
               /\ ClaimKey(claims[m]) = ClaimKey(claims[i])
               /\ IsImplied(docs, Reply(docs, claims, i))
               /\ Reply(docs, claims, i).id[1] = claims[i].id
               /\ Reply(docs, claims, i).target = claims[m].doc
               /\ Reply(docs, claims, i).claim = claims[m].id
<1> DEFINE claims == SortedClaims(docs)
           n == Cardinality(AllClaims(docs))
           m == Max(BeforeIt(claims, i))
           r == Reply(docs, claims, i)
<1>1. n \in Nat /\ DOMAIN claims = 1 .. n /\ \A k \in DOMAIN claims : claims[k] \in AllClaims(docs)
  <2>1. Elements(claims) = AllClaims(docs)
    BY ClaimsAreSorted
  <2> QED BY <2>1, ClaimsAreSorted DEF Elements
<1> HIDE DEF claims
<1>2. i \in 1 .. n /\ BeforeIt(claims, i) # {} /\ claims[m].doc # claims[i].doc
  BY <1>1 DEF Answered, claims
<1>3. BeforeIt(claims, i) \in SUBSET (1 .. n)
  BY <1>1, <1>2 DEF BeforeIt
<1>4. m \in BeforeIt(claims, i)
  BY <1>1, <1>2, <1>3, LastIndexIsMax
<1>5. m \in DOMAIN claims /\ m < i /\ ClaimKey(claims[m]) = ClaimKey(claims[i])
  BY <1>1, <1>2, <1>3, <1>4 DEF BeforeIt
<1> HIDE DEF m
<1>6. /\ claims[i] \in AllClaims(docs) /\ claims[m] \in AllClaims(docs)
      /\ claims[i].doc \in DOMAIN docs /\ claims[m].doc \in DOMAIN docs
      /\ claims[i].id[1] = claims[i].doc /\ claims[m].id[1] = claims[m].doc
      /\ claims[m] \in ExtractClaims(claims[m].doc, docs[claims[m].doc])
  BY <1>1, <1>2, <1>5, ClaimsOfStore
<1>7. r = Related(docs, claims[i], claims[m])
  BY DEF Reply, m
<1>8. \E kind, confidence, method :
        /\ r = RelationOf(claims[i], claims[m], kind, confidence, method)
        /\ method # "explicit"
        /\ \/ kind = "Supersedes" /\ confidence \in {90, 95}
           \/ kind = "ConflictsWith" /\ confidence = 75
           \/ kind = "Confirms" /\ confidence = 95
  <2> DEFINE x == claims[i]
             y == claims[m]
             newer == y.date > 0 /\ x.date > y.date
  <2>1. r = Related(docs, x, y)
    BY <1>7
  <2> HIDE DEF x, y, r
  <2>2. CASE x.object = y.object
    <3>1. r = RelationOf(x, y, "Confirms", 95, "canonical_claim")
      BY <2>1, <2>2 DEF Related
    <3> QED BY <3>1 DEF x, y
  <2>3. CASE x.object # y.object /\ docs[x.doc].cue
    <3>1. r = RelationOf(x, y, "Supersedes", 95, "correction_cue")
      BY <2>1, <2>3 DEF Related
    <3> QED BY <3>1 DEF x, y
  <2>4. CASE x.object # y.object /\ ~docs[x.doc].cue /\ newer /\ docs[x.doc].kind = docs[y.doc].kind
    <3>1. r = RelationOf(x, y, "Supersedes", 90, "canonical_claim_and_time")
      BY <2>1, <2>4 DEF Related
    <3> QED BY <3>1 DEF x, y
  <2>5. CASE x.object # y.object /\ ~docs[x.doc].cue /\ ~(newer /\ docs[x.doc].kind = docs[y.doc].kind)
    <3>1. r = RelationOf(x, y, "ConflictsWith", 75, "canonical_claim_conflict")
      BY <2>1, <2>5 DEF Related
    <3> QED BY <3>1 DEF x, y
  <2> HIDE DEF newer
  <2> QED BY <2>2, <2>3, <2>4, <2>5
<1> HIDE DEF r
<1>9. /\ IsImplied(docs, r)
      /\ r.id[1] = claims[i].id /\ r.target = claims[m].doc /\ r.claim = claims[m].id
  BY <1>2, <1>6, <1>8 DEF IsImplied, RelationOf, m
<1> QED BY <1>1, <1>2, <1>5, <1>9 DEF r, m, claims

LEMMA ImpliedAre ==
    ASSUME NEW docs, Stored(docs)
    PROVE  LET s == ImpliedRelations(docs, SortedClaims(docs)) IN
           /\ s \in Seq(Implied(docs))
           /\ Elements(s) = Implied(docs)
           /\ \A q, r \in Implied(docs) : q.id = r.id => q = r
<1> DEFINE claims == SortedClaims(docs)
           n == Cardinality(AllClaims(docs))
           E == Implied(docs)
           at(i) == IF BeforeIt(claims, i) = {} \/ claims[Max(BeforeIt(claims, i))].doc = claims[i].doc
                    THEN <<>> ELSE <<Reply(docs, claims, i)>>
           parts == [i \in DOMAIN claims |-> at(i)]
<1>1. n \in Nat /\ DOMAIN claims = 1 .. n
  BY ClaimsAreSorted
<1>2. ImpliedRelations(docs, claims) = Seqs!FlattenSeq(parts)
  BY DEF ImpliedRelations, BeforeIt, Reply
<1>3. \A i \in DOMAIN claims : parts[i] = IF i \in Answered(claims) THEN <<Reply(docs, claims, i)>> ELSE <<>>
  BY DEF Answered
<1>4. \A i \in Answered(claims) : i \in DOMAIN claims /\ Reply(docs, claims, i) \in E
  BY DEF Answered, Implied
<1> DEFINE joined == Seqs!FlattenSeq(parts)
<1>5. DOMAIN parts = 1 .. n
  BY <1>1
<1> HIDE DEF claims, parts, E
<1>6. parts \in Seq(Seq(E))
  <2>1. \A i \in 1 .. n : parts[i] \in Seq(E)
    <3> HIDE DEF at, joined
    <3>1. ASSUME NEW i \in 1 .. n PROVE parts[i] \in Seq(E)
      <4>1. CASE i \in Answered(claims)
        <5>1. parts[i] = <<Reply(docs, claims, i)>> /\ Reply(docs, claims, i) \in E
          BY <1>1, <1>3, <1>4, <4>1
        <5> QED BY <5>1, ShortSequences
      <4>2. CASE i \notin Answered(claims)
        <5>1. parts[i] = <<>>
          BY <1>1, <1>3, <4>2
        <5> QED BY <5>1, ShortSequences
      <4> QED BY <4>1, <4>2
    <3> QED BY <3>1
  <2>2. parts = [i \in 1 .. n |-> parts[i]]
    BY <1>5 DEF parts
  <2> QED BY <1>1, <2>1, <2>2
<1>7. joined \in Seq(E) /\ Elements(joined) = UNION {Elements(parts[i]) : i \in DOMAIN parts}
  BY <1>6, FlattenIsExact
<1>8. Elements(joined) = E
  <2>3. \A i \in DOMAIN parts :
           Elements(parts[i]) = IF i \in Answered(claims) THEN {Reply(docs, claims, i)} ELSE {}
    BY <1>1, <1>3, <1>5, ShortSequences
  <2>4. E = {Reply(docs, claims, i) : i \in Answered(claims)}
    BY DEF E, Implied, claims
  <2>5. Answered(claims) \subseteq DOMAIN parts
    BY <1>1, <1>4, <1>5
  <2> QED BY <1>7, <2>3, <2>4, <2>5
<1>9. ASSUME NEW q \in E, NEW r \in E, q.id = r.id PROVE q = r
  <2>1. PICK i \in Answered(claims) : q = Reply(docs, claims, i)
    BY DEF E, Implied, claims
  <2>2. PICK j \in Answered(claims) : r = Reply(docs, claims, j)
    BY DEF E, Implied, claims
  <2>3. i \in DOMAIN claims /\ j \in DOMAIN claims /\ claims[i].id = claims[j].id
    BY <1>9, <2>1, <2>2, RepliesAre DEF claims
  <2>4. i = j
    BY <2>3, ClaimsAreSorted DEF claims
  <2> QED BY <2>1, <2>2, <2>4
<1> QED BY <1>2, <1>7, <1>8, <1>9 DEF E, claims

FirstClaim(docs, claims, d) ==
    LET own == {i \in DOMAIN claims : claims[i].doc = d}
    IN  IF own = {} THEN DocumentClaim(d, docs[d]) ELSE claims[Min(own)]

Link(docs, claims, d) ==
    RelationOf(FirstClaim(docs, claims, d), FirstClaim(docs, claims, docs[d].supersedes),
               "Supersedes", 100, "explicit")

LEMMA FirstClaimIsOfIt ==
    ASSUME NEW docs, Stored(docs), NEW d
    PROVE  LET c == FirstClaim(docs, SortedClaims(docs), d) IN c.doc = d /\ c.id[1] = d
<1> DEFINE claims == SortedClaims(docs)
           n == Cardinality(AllClaims(docs))
           own == {i \in DOMAIN claims : claims[i].doc = d}
<1>1. n \in Nat /\ DOMAIN claims = 1 .. n /\ \A k \in DOMAIN claims : claims[k] \in AllClaims(docs)
  <2>1. Elements(claims) = AllClaims(docs)
    BY ClaimsAreSorted
  <2> QED BY <2>1, ClaimsAreSorted DEF Elements
<1>2. CASE own = {}
  BY <1>2 DEF FirstClaim, DocumentClaim
<1>3. CASE own # {}
  <2>1. own \in SUBSET (1 .. n)
    BY <1>1
  <2>2. Min(own) \in own
    <3> HIDE DEF own
    <3> QED BY <1>1, <1>3, <2>1, FirstIndex
  <2>3. FirstClaim(docs, claims, d) = claims[Min(own)]
    BY <1>3 DEF FirstClaim
  <2>4. claims[Min(own)].doc = d /\ claims[Min(own)] \in AllClaims(docs)
    BY <1>1, <2>2
  <2>5. claims[Min(own)].id[1] = d
    BY <2>4, ClaimsOfStore
  <2> QED BY <2>3, <2>4, <2>5
<1> QED BY <1>2, <1>3

LEMMA LinkIsLink ==
    ASSUME NEW docs, Stored(docs), NEW d \in Linking(docs)
    PROVE  LET r == Link(docs, SortedClaims(docs), d)
           IN  IsLink(docs, r) /\ r.source = d
<1> DEFINE x == FirstClaim(docs, SortedClaims(docs), d)
           y == FirstClaim(docs, SortedClaims(docs), docs[d].supersedes)
<1>1. x.doc = d /\ x.id[1] = d /\ y.doc = docs[d].supersedes /\ y.id[1] = docs[d].supersedes
  BY FirstClaimIsOfIt
<1> HIDE DEF x, y
<1>2. Link(docs, SortedClaims(docs), d) = RelationOf(x, y, "Supersedes", 100, "explicit")
  BY DEF Link, x, y
<1> QED BY <1>1, <1>2 DEF IsLink, RelationOf

LEMMA LinksAre ==
    ASSUME NEW docs, Stored(docs), NEW order \in Orders
    PROVE  LET s == ExplicitRelations(docs, SortedClaims(docs), order)
           IN  /\ s \in Seq({Link(docs, SortedClaims(docs), d) : d \in Linking(docs)})
               /\ Elements(s) = {Link(docs, SortedClaims(docs), d) : d \in Linking(docs)}
<1> DEFINE S == Linking(docs)
           R == {p \in S \X S : order[p[1]] < order[p[2]]}
           links == RankedBy(S, R)
           claims == SortedClaims(docs)
           before(x, y) == order[x] < order[y]
           s == ExplicitRelations(docs, claims, order)
<1>1. IsFiniteSet(S) /\ S \subseteq Docs
  BY FS_Subset DEF Stored, Known, Linking
<1>2. TotalOn(R, S)
  <2>1. \A x, y \in S : <<x, y>> \in R <=> order[x] < order[y]
    OBVIOUS
  <2>2. \A x, y \in S : order[x] \in Nat /\ (order[x] = order[y] => x = y)
    BY <1>1, OrdersAssumption
  <2> HIDE DEF S, R
  <2> QED BY <2>1, <2>2 DEF TotalOn
<1>3. Ranked(S, before) = links
  <2> DEFINE one(i) == CHOOSE x \in S : Cardinality({y \in S : order[y] < order[x]}) = i - 1
             other(i) == CHOOSE x \in S : Cardinality({y \in S : <<y, x>> \in R}) = i - 1
  <2>1. \A x \in S : {y \in S : order[y] < order[x]} = {y \in S : <<y, x>> \in R}
    OBVIOUS
  <2>2. \A i \in 1 .. Cardinality(S) : one(i) = other(i)
    BY <2>1
  <2>3. Ranked(S, before) = [i \in 1 .. Cardinality(S) |-> one(i)]
    BY DEF Ranked
  <2>4. links = [i \in 1 .. Cardinality(S) |-> other(i)]
    BY DEF RankedBy
  <2> HIDE DEF S, R, one, other
  <2> QED BY <2>2, <2>3, <2>4
<1>4. /\ DOMAIN links = 1 .. Cardinality(S) /\ Elements(links) = S /\ Cardinality(S) \in Nat
  <2> HIDE DEF S, R
  <2> QED BY <1>1, <1>2, RankingIsExact, FS_CardinalityType
<1>5. s = [i \in DOMAIN Ranked(S, before) |->
             RelationOf(FirstClaim(docs, claims, Ranked(S, before)[i]),
                        FirstClaim(docs, claims, docs[Ranked(S, before)[i]].supersedes),
                        "Supersedes", 100, "explicit")]
  BY DEF ExplicitRelations, FirstClaim, Linking
<1> HIDE DEF before, links, S, claims, s
<1>6. s = [i \in 1 .. Cardinality(S) |-> Link(docs, claims, links[i])]
  BY <1>3, <1>4, <1>5 DEF Link
<1>7. \A i \in 1 .. Cardinality(S) : links[i] \in S
  BY <1>4 DEF Elements
<1> DEFINE E == {Link(docs, claims, d) : d \in S}
<1>8. s \in [1 .. Cardinality(S) -> E]
  BY <1>6, <1>7
<1>9. s \in Seq(E)
  <2> HIDE DEF E
  <2> QED BY <1>4, <1>8
<1>10. Elements(s) = E
  <2>1. Elements(s) = {Link(docs, claims, links[i]) : i \in 1 .. Cardinality(S)}
    BY <1>6 DEF Elements
  <2>2. S = {links[i] : i \in 1 .. Cardinality(S)}
    BY <1>4 DEF Elements
  <2> QED BY <2>1, <2>2
<1> QED BY <1>9, <1>10 DEF s, S, claims

(* What the relations of a store are. *)
LEMMA RelationsAre ==
    ASSUME NEW docs, Stored(docs), NEW order \in Orders
    PROVE  LET R == Relations(docs, order) IN
           /\ Len(R) \in Nat /\ DOMAIN R = 1 .. Len(R)
           /\ \A r \in Elements(R) : IsLink(docs, r) \/ r \in Implied(docs)
           /\ \A d \in Linking(docs) :
                \E r \in Elements(R) : IsLink(docs, r) /\ r.target = docs[d].supersedes
           /\ \A r \in Implied(docs) :
                r \in Elements(R) \/ (r.kind = "Supersedes" /\ r.target \in LinkedTo(docs))
<1> DEFINE claims == SortedClaims(docs)
           L == {Link(docs, claims, d) : d \in Linking(docs)}
           I == Implied(docs)
           first == ExplicitRelations(docs, claims, order)
           second == ImpliedRelations(docs, claims)
           all == first \o second
           fresh(i) == \A j \in 1 .. i - 1 : all[j].id # all[i].id
           parts == [i \in DOMAIN all |-> IF fresh(i) THEN <<all[i]>> ELSE <<>>]
           R == Seqs!FlattenSeq(parts)
<1>1. Relations(docs, order) = R
  BY DEF Relations
<1>2. first \in Seq(L) /\ Elements(first) = L
  BY LinksAre
<1>3. second \in Seq(I) /\ Elements(second) = I /\ \A q, r \in I : q.id = r.id => q = r
  BY ImpliedAre
<1>4. \A r \in L : IsLink(docs, r)
  BY LinkIsLink
<1>5. \A d \in Linking(docs) : \E r \in L : IsLink(docs, r) /\ r.source = d
  BY LinkIsLink
<1> HIDE DEF claims, L, I, first, second
<1> DEFINE m == Len(first)
           k == Len(second)
<1>6. /\ m \in Nat /\ k \in Nat /\ DOMAIN first = 1 .. m /\ DOMAIN second = 1 .. k
      /\ \A i \in 1 .. m : first[i] \in L
      /\ \A i \in 1 .. k : second[i] \in I
  BY <1>2, <1>3, ItemsOf
<1>7. /\ DOMAIN all = 1 .. m + k
      /\ \A i \in 1 .. m : all[i] = first[i]
      /\ \A i \in 1 .. k : all[m + i] = second[i]
  <2>1. first \in Seq(L \cup I) /\ second \in Seq(L \cup I)
    BY <1>6, <1>2, <1>3
  <2> QED BY <2>1
<1> HIDE DEF all, m, k
<1>8. \A i \in 1 .. m + k : (i <= m /\ all[i] \in L) \/ (i > m /\ all[i] \in I)
  <2> SUFFICES ASSUME NEW i \in 1 .. m + k
               PROVE  (i <= m /\ all[i] \in L) \/ (i > m /\ all[i] \in I)
    OBVIOUS
  <2>1. CASE i <= m
    BY <1>6, <1>7, <2>1
  <2>2. CASE i > m
    <3>1. i - m \in 1 .. k /\ m + (i - m) = i
      BY <1>6, <2>2
    <3> QED BY <1>6, <1>7, <2>2, <3>1
  <2> QED BY <1>6, <2>1, <2>2
<1> DEFINE E == L \cup I
<1>9. DOMAIN parts = 1 .. m + k /\ m + k \in Nat
      /\ \A i \in 1 .. m + k : parts[i] = IF fresh(i) THEN <<all[i]>> ELSE <<>>
  BY <1>6, <1>7
<1>10. parts \in Seq(Seq(E))
  <2> HIDE DEF fresh, E
  <2>1. \A i \in 1 .. m + k : all[i] \in E
    BY <1>8 DEF E
  <2>2. \A i \in 1 .. m + k : parts[i] \in Seq(E)
    BY <1>9, <2>1, ShortSequences
  <2>3. parts = [i \in 1 .. m + k |-> parts[i]]
    BY <1>9
  <2> HIDE DEF parts
  <2> QED BY <1>9, <2>2, <2>3
<1>11. R \in Seq(E) /\ Elements(R) = UNION {Elements(parts[i]) : i \in DOMAIN parts}
  <2> HIDE DEF parts, E
  <2> QED BY <1>10, FlattenIsExact
<1>12. \A i \in 1 .. m + k : Elements(parts[i]) = IF fresh(i) THEN {all[i]} ELSE {}
  <2> HIDE DEF fresh, parts
  <2> QED BY <1>9, ShortSequences
<1>13. Elements(R) = {all[i] : i \in {n \in 1 .. m + k : fresh(n)}}
  <2> HIDE DEF fresh, parts, R
  <2> QED BY <1>9, <1>11, <1>12
<1> HIDE DEF parts, R
<1>14. ASSUME NEW i \in 1 .. m + k
       PROVE  \E j \in 1 .. i : all[j].id = all[i].id /\ all[j] \in Elements(R)
  <2> DEFINE S == {j \in 1 .. m + k : all[j].id = all[i].id}
             j == Min(S)
  <2>1. S \in SUBSET (1 .. m + k) /\ i \in S
    OBVIOUS
  <2>2. j \in S /\ \A n \in S : j <= n
    <3> HIDE DEF S
    <3> QED BY <1>9, <2>1, FirstIndex
  <2> HIDE DEF j
  <2>3. j \in 1 .. m + k /\ all[j].id = all[i].id /\ j <= i
    BY <2>1, <2>2
  <2>4. fresh(j)
    <3> SUFFICES ASSUME NEW n \in 1 .. j - 1, all[n].id = all[j].id PROVE FALSE
      OBVIOUS
    <3>1. n \in S /\ n < j
      BY <2>3, <1>9
    <3> QED BY <2>2, <2>3, <3>1
  <2>5. all[j] \in Elements(R)
    <3> HIDE DEF fresh
    <3> QED BY <1>13, <2>3, <2>4
  <2>6. j \in 1 .. i
    BY <1>9, <2>3
  <2> QED BY <2>3, <2>5, <2>6
<1> HIDE DEF fresh
<1>15. \A r \in Elements(R) : IsLink(docs, r) \/ r \in Implied(docs)
  BY <1>4, <1>8, <1>13 DEF I
<1>16. ASSUME NEW d \in Linking(docs)
       PROVE  \E r \in Elements(R) : IsLink(docs, r) /\ r.target = docs[d].supersedes
  <2>1. PICK q \in L : IsLink(docs, q) /\ q.source = d
    BY <1>5
  <2>2. PICK i \in 1 .. m : all[i] = q
    BY <1>2, <1>6, <1>7 DEF Elements
  <2>3. i \in 1 .. m + k /\ i <= m
    BY <1>6
  <2>4. PICK j \in 1 .. i : all[j].id = all[i].id /\ all[j] \in Elements(R)
    BY <1>14, <2>3
  <2>5. all[j] \in L
    BY <1>6, <1>8, <2>3
  <2>6. IsLink(docs, all[j]) /\ all[j].source = d
    BY <1>4, <2>1, <2>2, <2>4, <2>5 DEF IsLink
  <2>7. all[j].target = docs[d].supersedes
    BY <2>6 DEF IsLink
  <2> QED BY <2>4, <2>6, <2>7
<1>17. ASSUME NEW r \in Implied(docs), r \notin Elements(R)
       PROVE  r.kind = "Supersedes" /\ r.target \in LinkedTo(docs)
  <2>1. PICK n \in 1 .. k : second[n] = r
    BY <1>3, <1>6 DEF Elements, I
  <2>2. m + n \in 1 .. m + k /\ all[m + n] = r
    BY <1>6, <1>7, <2>1
  <2>3. PICK j \in 1 .. m + n : all[j].id = r.id /\ all[j] \in Elements(R)
    BY <1>14, <2>2
  <2>4. all[j] \notin I
    BY <1>3, <1>17, <2>3 DEF I
  <2>5. all[j] \in L
    BY <1>6, <1>8, <2>2, <2>3, <2>4
  <2>6. IsLink(docs, all[j])
    BY <1>4, <2>5
  <2>7. IsImplied(docs, r)
    BY RepliesAre DEF Implied
  <2>8. r.kind = "Supersedes" /\ r.target = all[j].target
    BY <2>3, <2>6, <2>7 DEF IsLink, IsImplied
  <2> QED BY <2>6, <2>8 DEF IsLink, LinkedTo
<1>18. Len(R) \in Nat /\ DOMAIN R = 1 .. Len(R)
  BY <1>11, ItemsOf
<1> QED BY <1>1, <1>15, <1>16, <1>17, <1>18

-----------------------------------------------------------------------------
(***************************************************************************)
(* Statuses: what the relations of a store make of a document, said once   *)
(* for all of them.                                                        *)
(***************************************************************************)

\* A document that says one thing, in one sentence under its headings.
Single(docs, d) ==
    \E c \in ExtractClaims(d, docs[d]) :
        /\ ExtractClaims(d, docs[d]) = {c}
        /\ {i \in DOMAIN docs[d].sentences : ~docs[d].sentences[i].heading} = {c.sentence}

Hides(docs, o, r, d) ==
    /\ r.method # "explicit" /\ r.kind = "Supersedes" /\ r.confidence >= o.suppress
    /\ r.target = d /\ Single(docs, d)

Disputes(docs, o, r, d) ==
    /\ r.method # "explicit"
    /\ \/ r.kind = "Supersedes" /\ r.confidence >= o.suppress /\ r.target = d /\ ~Single(docs, d)
       \/ r.kind = "ConflictsWith" /\ r.confidence >= o.conflict /\ d \in {r.source, r.target}

Names(docs, r, d) == IsLink(docs, r) /\ r.target = d

Verdict(linked, hidden, disputed) ==
    IF linked \/ hidden THEN "Superseded" ELSE IF disputed THEN "Conflicted" ELSE "Current"

Hidden(docs, o, d) == \E r \in Implied(docs) : Hides(docs, o, r, d)
Disputed(docs, o, d) == \E r \in Implied(docs) : Disputes(docs, o, r, d)
StatusIn(docs, o, d) == Verdict(d \in LinkedTo(docs), Hidden(docs, o, d), Disputed(docs, o, d))

Statuses == {"Current", "Conflicted", "Superseded"}
DocumentState == [status : Statuses, by : Nat, confidence : 0 .. 100]
States(docs) == [DOMAIN docs -> DocumentState]

LEMMA OnlyTheClaimIsSingle ==
    ASSUME NEW docs, NEW r, IsImplied(docs, r)
    PROVE  OnlyTheClaim(docs, r) <=> Single(docs, r.target)
BY DEF OnlyTheClaim, Single, IsImplied

LEMMA AppliedDoes ==
    ASSUME NEW docs, Stored(docs), NEW o, ValidOptions(o), NEW v \in States(docs), NEW r,
           IsLink(docs, r) \/ IsImplied(docs, r), NEW d \in DOMAIN docs
    PROVE  Applied(docs, o, v, r)[d] =
              IF Names(docs, r, d) \/ Hides(docs, o, r, d) THEN Superseded(v[d], r)
              ELSE IF Disputes(docs, o, r, d) THEN Conflicted(v[d], r) ELSE v[d]
<1>0. o.suppress \in 0 .. 100 /\ o.conflict \in 0 .. 100 /\ DOMAIN v = DOMAIN docs
  BY DEF ValidOptions, States
<1>1. CASE IsLink(docs, r)
  <2>1. /\ r.kind = "Supersedes" /\ r.confidence >= o.suppress /\ r.method = "explicit"
        /\ ~Hides(docs, o, r, d) /\ ~Disputes(docs, o, r, d)
        /\ (Names(docs, r, d) <=> r.target = d)
    BY <1>0, <1>1 DEF IsLink, Hides, Disputes, Names
  <2>2. Applied(docs, o, v, r) = [v EXCEPT ![r.target] = Superseded(@, r)]
    BY <2>1 DEF Applied
  <2> QED BY <1>0, <2>1, <2>2
<1>2. CASE IsImplied(docs, r)
  <2>0. ~Names(docs, r, d) /\ r.method # "explicit" /\ r.source # r.target
    BY <1>2 DEF IsImplied, Names, IsLink
  <2>1. CASE r.kind = "Supersedes" /\ r.confidence >= o.suppress /\ Single(docs, r.target)
    <3>1. Applied(docs, o, v, r) = [v EXCEPT ![r.target] = Superseded(@, r)]
      BY <1>2, <2>0, <2>1, OnlyTheClaimIsSingle DEF Applied
    <3>2. (Hides(docs, o, r, d) <=> r.target = d) /\ ~Disputes(docs, o, r, d)
      BY <2>0, <2>1 DEF Hides, Disputes
    <3> QED BY <1>0, <2>0, <3>1, <3>2
  <2>2. CASE r.kind = "Supersedes" /\ r.confidence >= o.suppress /\ ~Single(docs, r.target)
    <3>1. Applied(docs, o, v, r) = [v EXCEPT ![r.target] = Conflicted(@, r)]
      BY <1>2, <2>0, <2>2, OnlyTheClaimIsSingle DEF Applied
    <3>2. (Disputes(docs, o, r, d) <=> r.target = d) /\ ~Hides(docs, o, r, d)
      BY <2>0, <2>2 DEF Hides, Disputes
    <3> QED BY <1>0, <2>0, <3>1, <3>2
  <2>3. CASE r.kind = "ConflictsWith" /\ r.confidence >= o.conflict
    <3>1. Applied(docs, o, v, r) = [v EXCEPT ![r.source] = Conflicted(@, r),
                                             ![r.target] = Conflicted(@, r)]
      BY <2>3 DEF Applied
    <3>2. Applied(docs, o, v, r)[d] = IF d \in {r.source, r.target} THEN Conflicted(v[d], r) ELSE v[d]
      BY <1>0, <2>0, <3>1
    <3>3. (Disputes(docs, o, r, d) <=> d \in {r.source, r.target}) /\ ~Hides(docs, o, r, d)
      BY <2>0, <2>3 DEF Hides, Disputes
    <3> QED BY <2>0, <3>2, <3>3
  <2>4. CASE /\ ~(r.kind = "Supersedes" /\ r.confidence >= o.suppress)
             /\ ~(r.kind = "ConflictsWith" /\ r.confidence >= o.conflict)
    <3>1. Applied(docs, o, v, r) = v
      BY <2>4 DEF Applied
    <3>2. ~Disputes(docs, o, r, d) /\ ~Hides(docs, o, r, d)
      BY <2>4 DEF Hides, Disputes
    <3> QED BY <2>0, <3>1, <3>2
  <2> QED BY <2>1, <2>2, <2>3, <2>4
<1> QED BY <1>1, <1>2

\* One document, after some relations have been taken.
Marked(c, s, d, state) ==
    LET R(i) == c.relations[i]
        linked == \E i \in s : Names(c.docs, R(i), d)
        hidden == \E i \in s : Hides(c.docs, c.options, R(i), d)
        disputed == \E i \in s : Disputes(c.docs, c.options, R(i), d)
    IN  /\ state.status = Verdict(linked, hidden, disputed)
        /\ linked => /\ state.confidence = 100
                     /\ state.by \in Linking(c.docs) /\ c.docs[state.by].supersedes = d
        /\ Single(c.docs, d) /\ ~linked /\ ~hidden => state.confidence <= 75

PartlyApplied(c, s, v) ==
    v \in States(c.docs) /\ \A d \in DOMAIN c.docs : Marked(c, s, d, v[d])

ApplyStep(c, i, v) == Applied(c.docs, c.options, v, c.relations[i])
LastOf(S) == Seqs!Max(S)

Applying == INSTANCE FoldTheorems WITH Step <- ApplyStep, Choice <- LastOf, Inv <- PartlyApplied

LEMMA StateFields ==
    ASSUME NEW x \in Statuses, NEW b \in Nat, NEW k \in 0 .. 100, NEW state,
           state = [status |-> x, by |-> b, confidence |-> k]
    PROVE  /\ state.status = x /\ state.by = b /\ state.confidence = k
           /\ state \in DocumentState
BY DEF DocumentState

LEMMA MarkKept ==
    ASSUME NEW c, Stored(c.docs), ValidOptions(c.options), NEW s, NEW i \in s,
           NEW r, r = c.relations[i], IsLink(c.docs, r) \/ IsImplied(c.docs, r),
           NEW d \in DOMAIN c.docs, NEW state \in DocumentState,
           Marked(c, s \ {i}, d, state), NEW next,
           next = IF Names(c.docs, r, d) \/ Hides(c.docs, c.options, r, d) THEN Superseded(state, r)
                  ELSE IF Disputes(c.docs, c.options, r, d) THEN Conflicted(state, r) ELSE state
    PROVE  /\ next \in DocumentState
           /\ Marked(c, s, d, next)
<1> DEFINE linked(t) == \E n \in t : Names(c.docs, c.relations[n], d)
           hidden(t) == \E n \in t : Hides(c.docs, c.options, c.relations[n], d)
           disputed(t) == \E n \in t : Disputes(c.docs, c.options, c.relations[n], d)
           rest == s \ {i}
           name == Names(c.docs, r, d)
           hide == Hides(c.docs, c.options, r, d)
           dispute == Disputes(c.docs, c.options, r, d)
           only == Single(c.docs, d)
           good(b) == b \in Linking(c.docs) /\ c.docs[b].supersedes = d
<1>1. /\ linked(s) <=> linked(rest) \/ name
      /\ hidden(s) <=> hidden(rest) \/ hide
      /\ disputed(s) <=> disputed(rest) \/ dispute
  OBVIOUS
<1>2. /\ r.source \in Nat
      /\ r.confidence \in 0 .. 100
      /\ name => r.confidence = 100 /\ good(r.source)
      /\ hide \/ dispute => r.confidence < 100
      /\ hide => r.confidence >= 90 /\ only
      /\ dispute /\ only => r.confidence = 75
  <2>1. \A x \in DOMAIN c.docs : x \in Nat
    BY KnowledgeAssumption DEF Stored, Known
  <2>2. CASE IsLink(c.docs, r)
    BY <2>1, <2>2 DEF IsLink, Names, Hides, Disputes, Linking
  <2>3. CASE IsImplied(c.docs, r)
    BY <2>1, <2>3 DEF IsImplied, IsLink, Names, Hides, Disputes
  <2> QED BY <2>2, <2>3
<1>3. /\ state.status = Verdict(linked(rest), hidden(rest), disputed(rest))
      /\ linked(rest) => state.confidence = 100 /\ good(state.by)
      /\ only /\ ~linked(rest) /\ ~hidden(rest) => state.confidence <= 75
  BY DEF Marked
<1>4. /\ next.status = Verdict(linked(s), hidden(s), disputed(s))
         /\ (linked(s) => next.confidence = 100 /\ good(next.by))
         /\ (only /\ ~linked(s) /\ ~hidden(s) => next.confidence <= 75)
         /\ next \in DocumentState
      => /\ next \in DocumentState
         /\ Marked(c, s, d, next)
  BY DEF Marked
<1>5. state = [status |-> state.status, by |-> state.by, confidence |-> state.confidence]
      /\ state.status \in Statuses /\ state.by \in Nat /\ state.confidence \in 0 .. 100
  BY DEF DocumentState
<1> DEFINE ls == linked(s)
           hs == hidden(s)
           ds == disputed(s)
           lr == linked(rest)
           hr == hidden(rest)
           dr == disputed(rest)
<1> HIDE DEF ls, hs, ds, lr, hr, dr
<1> SUFFICES /\ next.status = Verdict(ls, hs, ds)
             /\ ls => next.confidence = 100 /\ good(next.by)
             /\ only /\ ~ls /\ ~hs => next.confidence <= 75
             /\ next \in DocumentState
  BY <1>4 DEF ls, hs, ds
<1>6. /\ ls <=> lr \/ name
      /\ hs <=> hr \/ hide
      /\ ds <=> dr \/ dispute
      /\ state.status = Verdict(lr, hr, dr)
      /\ lr => state.confidence = 100 /\ good(state.by)
      /\ only /\ ~lr /\ ~hr => state.confidence <= 75
  BY <1>1, <1>3 DEF ls, hs, ds, lr, hr, dr
<1>7. next = IF name \/ hide THEN Superseded(state, r) ELSE IF dispute THEN Conflicted(state, r) ELSE state
  OBVIOUS
<1> HIDE DEF name, hide, dispute, only, good
<1>8. CASE name \/ hide
  <2>1. next = Superseded(state, r)
    BY <1>7, <1>8
  <2>2. CASE state.confidence > r.confidence
    <3>1. next = state
      BY <2>1, <2>2 DEF Superseded
    <3>2. ~name /\ hide /\ only /\ state.confidence > 75
      BY <1>2, <1>5, <1>8, <2>2
    <3>3. lr \/ hr
      BY <1>5, <1>6, <3>2
    <3> QED BY <1>5, <1>6, <3>1, <3>2, <3>3 DEF Verdict
  <2>3. CASE ~(state.confidence > r.confidence)
    <3>1. next = [status |-> "Superseded", by |-> r.source, confidence |-> r.confidence]
      BY <2>1, <2>3 DEF Superseded
    <3>2. lr => name
      BY <1>2, <1>5, <1>6, <1>8, <2>3
    <3>0. "Superseded" \in Statuses /\ r.source \in Nat /\ r.confidence \in 0 .. 100
      BY <1>2 DEF Statuses
    <3>3. /\ next.status = "Superseded" /\ next.by = r.source /\ next.confidence = r.confidence
          /\ next \in DocumentState
      BY ONLY <3>0, <3>1, StateFields
    <3>4. ls => name
      BY <1>6, <3>2
    <3>5. ls \/ hs
      BY <1>6, <1>8
    <3> QED BY <1>2, <3>3, <3>4, <3>5 DEF Verdict
  <2> QED BY <2>2, <2>3
<1>9. CASE ~name /\ ~hide /\ dispute
  <2>1. next = Conflicted(state, r)
    BY <1>7, <1>9
  <2>2. CASE lr \/ hr
    <3>1. state.status = "Superseded"
      BY <1>6, <2>2 DEF Verdict
    <3>2. next = state
      BY <2>1, <3>1 DEF Conflicted
    <3> QED BY <1>5, <1>6, <1>9, <2>2, <3>2 DEF Verdict
  <2>3. CASE ~lr /\ ~hr
    <3>1. state.status # "Superseded"
      BY <1>6, <2>3 DEF Verdict
    <3>2. next = [state EXCEPT !.status = "Conflicted", !.confidence = r.confidence]
      BY <2>1, <3>1 DEF Conflicted
    <3>3. next = [status |-> "Conflicted", by |-> state.by, confidence |-> r.confidence]
      BY <1>5, <3>2
    <3>0. "Conflicted" \in Statuses /\ state.by \in Nat /\ r.confidence \in 0 .. 100
      BY <1>2, <1>5 DEF Statuses
    <3>4. /\ next.status = "Conflicted" /\ next.confidence = r.confidence
          /\ next \in DocumentState
      BY ONLY <3>0, <3>3, StateFields
    <3>5. ~ls /\ ~hs /\ ds
      BY <1>6, <1>9, <2>3
    <3>6. only => r.confidence = 75
      BY <1>2, <1>9
    <3> QED BY <3>4, <3>5, <3>6 DEF Verdict
  <2> QED BY <2>2, <2>3
<1>10. CASE ~name /\ ~hide /\ ~dispute
  BY <1>5, <1>6, <1>7, <1>10 DEF Verdict
<1> QED BY <1>8, <1>9, <1>10

LEMMA AppliedIsFunction ==
    ASSUME NEW docs, NEW o, NEW v \in States(docs), NEW r
    PROVE  Applied(docs, o, v, r) = [d \in DOMAIN docs |-> Applied(docs, o, v, r)[d]]
<1>0. DOMAIN v = DOMAIN docs /\ v = [d \in DOMAIN docs |-> v[d]]
  BY DEF States
<1>1. CASE r.kind = "Supersedes" /\ r.confidence >= o.suppress /\ r.method # "explicit" /\ ~OnlyTheClaim(docs, r)
  <2>1. Applied(docs, o, v, r) = [v EXCEPT ![r.target] = Conflicted(@, r)]
    BY <1>1 DEF Applied
  <2> QED BY <1>0, <2>1
<1>2. CASE r.kind = "Supersedes" /\ r.confidence >= o.suppress /\ ~(r.method # "explicit" /\ ~OnlyTheClaim(docs, r))
  <2>1. Applied(docs, o, v, r) = [v EXCEPT ![r.target] = Superseded(@, r)]
    BY <1>2 DEF Applied
  <2> QED BY <1>0, <2>1
<1>3. CASE r.kind = "ConflictsWith" /\ r.confidence >= o.conflict
  <2>1. Applied(docs, o, v, r) = [v EXCEPT ![r.source] = Conflicted(@, r), ![r.target] = Conflicted(@, r)]
    BY <1>3 DEF Applied
  <2> QED BY <1>0, <2>1
<1>4. CASE /\ ~(r.kind = "Supersedes" /\ r.confidence >= o.suppress)
           /\ ~(r.kind = "ConflictsWith" /\ r.confidence >= o.conflict)
  <2>1. Applied(docs, o, v, r) = v
    BY <1>4 DEF Applied
  <2> QED BY <1>0, <2>1
<1> QED BY <1>1, <1>2, <1>3, <1>4

LEMMA ApplyStepKeeps ==
    ASSUME NEW c, Stored(c.docs), ValidOptions(c.options), NEW s, NEW i \in s,
           IsLink(c.docs, c.relations[i]) \/ IsImplied(c.docs, c.relations[i]),
           NEW v, PartlyApplied(c, s \ {i}, v)
    PROVE  PartlyApplied(c, s, ApplyStep(c, i, v))
<1> DEFINE r == c.relations[i]
           docs == c.docs
           o == c.options
           w == Applied(docs, o, v, r)
<1>1. v \in States(docs) /\ \A d \in DOMAIN docs : v[d] \in DocumentState /\ Marked(c, s \ {i}, d, v[d])
  BY DEF PartlyApplied, States
<1>2. w = [d \in DOMAIN docs |-> w[d]]
  BY <1>1, AppliedIsFunction
<1>3. ASSUME NEW d \in DOMAIN docs
      PROVE  w[d] \in DocumentState /\ Marked(c, s, d, w[d])
  <2>1. w[d] = IF Names(docs, r, d) \/ Hides(docs, o, r, d) THEN Superseded(v[d], r)
               ELSE IF Disputes(docs, o, r, d) THEN Conflicted(v[d], r) ELSE v[d]
    BY <1>1, AppliedDoes
  <2> QED BY <1>1, <2>1, MarkKept
<1> HIDE DEF w
<1>4. w \in States(docs)
  BY <1>2, <1>3 DEF States
<1> QED BY <1>3, <1>4 DEF PartlyApplied, ApplyStep, w

LEMMA LastOfIsIn ==
    ASSUME NEW n \in Nat, NEW S \in SUBSET (1 .. n), S # {}
    PROVE  LastOf(S) \in S
<1>1. PICK x \in S : \A y \in S : x >= y
  BY Moving!LastIndex
<1> QED BY <1>1 DEF LastOf, Seqs!Max

LEMMA StatesAreFold ==
    ASSUME NEW docs, NEW o, NEW order, o.enabled
    PROVE  DocumentStates(docs, o, order) =
             Applying!Fold([docs |-> docs, options |-> o, relations |-> Relations(docs, order)],
                           [d \in DOMAIN docs |-> Current], DOMAIN Relations(docs, order))
<1> DEFINE R == Relations(docs, order)
           c == [docs |-> docs, options |-> o, relations |-> R]
           base == [d \in DOMAIN docs |-> Current]
<1>1. c.docs = docs /\ c.options = o /\ c.relations = R
  OBVIOUS
<1>2. DocumentStates(docs, o, order) = Seqs!FoldLeft(LAMBDA states_, relation : Applied(docs, o, states_, relation), base, R)
  BY DEF DocumentStates
<1> QED BY <1>1, <1>2 DEF Seqs!FoldLeft, Seqs!MapThenFoldSet, Applying!Fold, ApplyStep, LastOf

(* The status of a document says whether it is replaced by a link, hidden by *)
(* a newer claim or disputed by another one.                                 *)
THEOREM StatesAre ==
    ASSUME NEW docs, Stored(docs), NEW order \in Orders, NEW o, ValidOptions(o), o.enabled
    PROVE  LET v == DocumentStates(docs, o, order) IN
           /\ v \in States(docs)
           /\ \A d \in DOMAIN docs :
                /\ v[d].status = StatusIn(docs, o, d)
                /\ d \in LinkedTo(docs) =>
                     v[d].by \in Linking(docs) /\ docs[v[d].by].supersedes = d
<1> DEFINE R == Relations(docs, order)
           n == Len(R)
           c == [docs |-> docs, options |-> o, relations |-> R]
           base == [d \in DOMAIN docs |-> Current]
           v == DocumentStates(docs, o, order)
<1>1. c.docs = docs /\ c.options = o /\ c.relations = R
  OBVIOUS
<1>2. /\ n \in Nat /\ DOMAIN R = 1 .. n
      /\ \A i \in 1 .. n : IsLink(docs, R[i]) \/ R[i] \in Implied(docs)
      /\ \A d \in Linking(docs) : \E i \in 1 .. n : IsLink(docs, R[i]) /\ R[i].target = docs[d].supersedes
      /\ \A r \in Implied(docs) :
           (\E i \in 1 .. n : R[i] = r) \/ (r.kind = "Supersedes" /\ r.target \in LinkedTo(docs))
  BY RelationsAre DEF Elements
<1>3. \A r \in Implied(docs) : IsImplied(docs, r)
  BY RepliesAre DEF Implied
<1>4. v = Applying!Fold(c, base, 1 .. n)
  BY <1>2, StatesAreFold
<1> HIDE DEF R, c, v
<1>5. PartlyApplied(c, {}, base)
  <2>1. Current \in DocumentState /\ Current.status = "Current" /\ Current.confidence = 0
    BY DEF Current, DocumentState, Statuses
  <2>2. base \in States(docs)
    BY <2>1 DEF States
  <2> QED BY <1>1, <2>1, <2>2 DEF PartlyApplied, Marked, Verdict
<1>6. \A s \in SUBSET (1 .. n) : \A x :
        s # {} /\ PartlyApplied(c, s \ {LastOf(s)}, x) => PartlyApplied(c, s, ApplyStep(c, LastOf(s), x))
  <2> SUFFICES ASSUME NEW s \in SUBSET (1 .. n), NEW x, s # {}, PartlyApplied(c, s \ {LastOf(s)}, x)
               PROVE  PartlyApplied(c, s, ApplyStep(c, LastOf(s), x))
    OBVIOUS
  <2>1. LastOf(s) \in s
    BY <1>2, LastOfIsIn
  <2>2. IsLink(c.docs, c.relations[LastOf(s)]) \/ IsImplied(c.docs, c.relations[LastOf(s)])
    BY <1>1, <1>2, <1>3, <2>1
  <2> QED BY <1>1, <2>1, <2>2, ApplyStepKeeps
<1>7. PartlyApplied(c, 1 .. n, v)
  <2>1. IsFiniteSet(1 .. n)
    <3>1. n \in Nat
      BY <1>2
    <3> HIDE DEF n
    <3> QED BY <3>1, FS_Interval
  <2>2. Applying!Chooses(1 .. n)
    BY <1>2, LastOfIsIn DEF Applying!Chooses
  <2> HIDE DEF base, n
  <2> QED BY <1>4, <1>5, <1>6, <2>1, <2>2, Applying!FoldInduction DEF Applying!IsFiniteSet, IsFiniteSet
<1>8. v \in States(docs)
  BY <1>1, <1>7 DEF PartlyApplied
<1>9. ASSUME NEW d \in DOMAIN docs
      PROVE  /\ v[d].status = StatusIn(docs, o, d)
             /\ d \in LinkedTo(docs) => v[d].by \in Linking(docs) /\ docs[v[d].by].supersedes = d
  <2> DEFINE linked == \E i \in 1 .. n : Names(docs, R[i], d)
             hidden == \E i \in 1 .. n : Hides(docs, o, R[i], d)
             disputed == \E i \in 1 .. n : Disputes(docs, o, R[i], d)
             hides == Hidden(docs, o, d)
             disputes == Disputed(docs, o, d)
  <2>1. /\ v[d].status = Verdict(linked, hidden, disputed)
        /\ linked => v[d].by \in Linking(docs) /\ docs[v[d].by].supersedes = d
    BY <1>1, <1>7 DEF PartlyApplied, Marked
  <2>2. linked <=> d \in LinkedTo(docs)
    BY <1>2 DEF Names, IsLink, LinkedTo
  <2>3. hidden => hides
    BY <1>2 DEF Hides, IsLink, Hidden
  <2>4. disputed => disputes
    BY <1>2 DEF Disputes, IsLink, Disputed
  <2>5. hides => linked \/ hidden
    BY <1>2, <2>2 DEF Hides, Hidden
  <2>6. disputes => linked \/ disputed
    <3> SUFFICES ASSUME NEW r \in Implied(docs), Disputes(docs, o, r, d), ~linked PROVE disputed
      BY DEF Disputed
    <3>1. ~(r.kind = "Supersedes" /\ r.target \in LinkedTo(docs))
      BY <2>2 DEF Disputes
    <3> QED BY <1>2, <3>1
  <2> HIDE DEF linked, hidden, disputed, hides, disputes
  <2>7. Verdict(linked, hidden, disputed) = Verdict(d \in LinkedTo(docs), hides, disputes)
    BY <2>2, <2>3, <2>4, <2>5, <2>6 DEF Verdict
  <2> QED BY <2>1, <2>2, <2>7 DEF hides, disputes, StatusIn
<1> QED BY <1>8, <1>9 DEF v

-----------------------------------------------------------------------------
(***************************************************************************)
(* The newest word: a document is hidden only for a claim that another one *)
(* of its key follows, and only if it says nothing else.                   *)
(***************************************************************************)

Newest(docs) ==
    LET claims == SortedClaims(docs)
    IN  {claims[i].doc : i \in {n \in DOMAIN claims :
           \A m \in n + 1 .. Len(claims) : ClaimKey(claims[m]) # ClaimKey(claims[n])}}

Texts(docs, d) == {i \in DOMAIN docs[d].sentences : ~docs[d].sentences[i].heading}

Speaking(docs) ==
    {d \in DOMAIN docs : Cardinality(ExtractClaims(d, docs[d])) # 1 \/ Cardinality(Texts(docs, d)) > 1}

LEMMA HiddenIsAnswered ==
    ASSUME NEW docs, Stored(docs), NEW o, NEW r \in Implied(docs), NEW d \in DOMAIN docs,
           Hides(docs, o, r, d)
    PROVE  d \notin Newest(docs) \cup Speaking(docs)
<1> DEFINE claims == SortedClaims(docs)
<1>1. /\ Len(claims) \in Nat /\ DOMAIN claims = 1 .. Len(claims)
      /\ \A i \in DOMAIN claims : claims[i] \in ExtractClaims(claims[i].doc, docs[claims[i].doc])
      /\ \A i, j \in DOMAIN claims : claims[i] = claims[j] => i = j
  <2>1. Elements(claims) = AllClaims(docs)
    BY ClaimsAreSorted
  <2>2. \A i \in DOMAIN claims : claims[i] \in ExtractClaims(claims[i].doc, docs[claims[i].doc])
    BY <2>1, ClaimsOfStore DEF Elements
  <2>3. Len(claims) = Cardinality(AllClaims(docs))
    <3>1. claims = [i \in 1 .. Cardinality(AllClaims(docs)) |->
                      CHOOSE x \in AllClaims(docs) :
                        Cardinality({y \in AllClaims(docs) : ClaimBefore(y, x)}) = i - 1]
      BY DEF SortedClaims, Ranked, AllClaims
    <3> QED BY <3>1, ClaimsAreSorted
  <2> QED BY <2>2, <2>3, ClaimsAreSorted
<1>2. PICK i \in Answered(claims) : r = Reply(docs, claims, i)
  BY DEF Implied
<1> DEFINE m == Max(BeforeIt(claims, i))
<1>3. /\ m \in DOMAIN claims /\ i \in DOMAIN claims /\ m < i
      /\ ClaimKey(claims[m]) = ClaimKey(claims[i]) /\ claims[m].doc = d
  BY <1>2, RepliesAre DEF Hides
<1>4. PICK c \in ExtractClaims(d, docs[d]) :
         ExtractClaims(d, docs[d]) = {c} /\ Texts(docs, d) = {c.sentence}
  BY DEF Hides, Single, Texts
<1> HIDE DEF claims, m
<1>5. d \notin Newest(docs)
  <2> SUFFICES ASSUME NEW n \in DOMAIN claims, claims[n].doc = d,
                      \A k \in n + 1 .. Len(claims) : ClaimKey(claims[k]) # ClaimKey(claims[n])
               PROVE  FALSE
    BY DEF Newest, claims
  <2>1. claims[n] = c /\ claims[m] = c
    BY <1>1, <1>3, <1>4
  <2>2. n = m
    BY <1>1, <1>3, <2>1
  <2>3. i \in n + 1 .. Len(claims)
    BY <1>1, <1>3, <2>2
  <2> QED BY <1>3, <2>2, <2>3
<1>6. d \notin Speaking(docs)
  <2>1. Cardinality({c}) = 1 /\ Cardinality({c.sentence}) = 1
    BY FS_Singleton
  <2> QED BY <1>4, <2>1 DEF Speaking
<1> QED BY <1>5, <1>6

LEMMA NewestStands ==
    ASSUME NEW docs, Stored(docs), NEW order \in Orders, NEW o, ValidOptions(o), o.enabled,
           NEW d \in DOMAIN docs
    PROVE  LET v == DocumentStates(docs, o, order)
               by == {e \in Linking(docs) : docs[e].supersedes = d}
           IN  IF by # {} THEN v[d].status = "Superseded" /\ v[d].by \in by
               ELSE d \in Newest(docs) \cup Speaking(docs) => v[d].status # "Superseded"
<1> DEFINE v == DocumentStates(docs, o, order)
           by == {e \in Linking(docs) : docs[e].supersedes = d}
           hidden == Hidden(docs, o, d)
           disputed == Disputed(docs, o, d)
<1>1. /\ v[d].status = Verdict(d \in LinkedTo(docs), hidden, disputed)
      /\ d \in LinkedTo(docs) => v[d].by \in by
  BY StatesAre DEF StatusIn
<1>2. d \in LinkedTo(docs) <=> by # {}
  BY DEF LinkedTo
<1>3. d \in Newest(docs) \cup Speaking(docs) => ~hidden
  BY HiddenIsAnswered DEF Hidden
<1> HIDE DEF v, hidden, disputed
<1>4. d \in LinkedTo(docs) => v[d].status = "Superseded"
  BY <1>1 DEF Verdict
<1>5. d \notin LinkedTo(docs) /\ ~hidden => v[d].status # "Superseded"
  BY <1>1 DEF Verdict
<1> QED BY <1>1, <1>2, <1>3, <1>4, <1>5 DEF v

-----------------------------------------------------------------------------
(***************************************************************************)
(* A restart: a document of a group is restored with everything that its   *)
(* claims, its links and their order are made of.                          *)
(***************************************************************************)

LEMMA RestoredFields ==
    ASSUME NEW doc \in SourceDocuments
    PROVE  LET again == Restored(doc) IN
           /\ Restored(again) = again
           /\ again.sentences = doc.sentences /\ again.headings = doc.headings
           /\ again.scope = doc.scope /\ again.user = doc.user /\ again.group = doc.group
           /\ again.date = doc.date /\ again.kind = doc.kind /\ again.cue = doc.cue
           /\ again.parent = doc.parent /\ again.supersedes = doc.supersedes
BY DEF Restored, Topic, SourceDocuments

LEMMA RestoredClaims ==
    ASSUME NEW d, NEW doc \in SourceDocuments, doc.group # 0
    PROVE  ExtractClaims(d, Restored(doc)) = ExtractClaims(d, doc)
<1> DEFINE again == Restored(doc)
<1>1. /\ again.sentences = doc.sentences /\ again.scope = doc.scope /\ again.user = doc.user
      /\ again.group = doc.group /\ again.date = doc.date
  BY RestoredFields
<1> HIDE DEF again
<1>2. SemanticScope(again) = SemanticScope(doc)
  BY <1>1 DEF SemanticScope
<1>3. ScalarScope(d, again) = ScalarScope(d, doc)
  <2>1. CASE doc.scope # 0
    BY <1>1, <1>2, <2>1 DEF ScalarScope
  <2>2. CASE doc.scope = 0
    BY <1>1, <1>2, <2>2 DEF ScalarScope
  <2> QED BY <2>1, <2>2
<1>4. \A found, place, sentence :
         ClaimOf(d, again, found, place, sentence) = ClaimOf(d, doc, found, place, sentence)
  BY <1>1, <1>2, <1>3 DEF ClaimOf
<1> DEFINE per(i) == [j \in DOMAIN doc.sentences[i].claims |-> <<doc.sentences[i].claims[j], i>>]
           all == Seqs!FlattenSeq([i \in DOMAIN doc.sentences |-> per(i)])
           same(x, y) == x.subject = y.subject /\ x.predicate = y.predicate /\ x.object = y.object
           first(n) == \A m \in 1 .. n - 1 : ~same(all[m][1], all[n][1])
           kept == {n \in DOMAIN all : first(n)}
<1>5. ExtractClaims(d, doc) = {ClaimOf(d, doc, all[n][1], n - 1, all[n][2]) : n \in kept}
  BY DEF ExtractClaims
<1>6. ExtractClaims(d, again) = {ClaimOf(d, again, all[n][1], n - 1, all[n][2]) : n \in kept}
  BY <1>1 DEF ExtractClaims
<1> HIDE DEF all, kept
<1> QED BY <1>4, <1>5, <1>6 DEF again

LEMMA RestoredStore ==
    ASSUME NEW docs, Stored(docs), \A d \in DOMAIN docs : docs[d].group # 0
    PROVE  LET again == RestoredAll(docs) IN
           /\ Stored(again) /\ DOMAIN again = DOMAIN docs
           /\ LinkedTo(again) = LinkedTo(docs)
           /\ Implied(again) = Implied(docs)
           /\ \A d \in DOMAIN docs : Single(again, d) <=> Single(docs, d)
<1> DEFINE again == RestoredAll(docs)
<1>1. DOMAIN again = DOMAIN docs /\ Known(again)
  BY RestoredIsKnown DEF Stored
<1>2. ASSUME NEW d \in DOMAIN docs
      PROVE  /\ again[d].sentences = docs[d].sentences
             /\ again[d].scope = docs[d].scope /\ again[d].user = docs[d].user
             /\ again[d].kind = docs[d].kind /\ again[d].cue = docs[d].cue
             /\ again[d].supersedes = docs[d].supersedes
             /\ ExtractClaims(d, again[d]) = ExtractClaims(d, docs[d])
  <2>1. again[d] = Restored(docs[d]) /\ docs[d] \in SourceDocuments
    BY DEF RestoredAll, Stored, Known
  <2> QED BY <2>1, RestoredFields, RestoredClaims
<1> HIDE DEF again
<1>3. Stored(again)
  BY <1>1 DEF Stored
<1>4. AllClaims(again) = AllClaims(docs)
  BY <1>1, <1>2 DEF AllClaims
<1>5. SortedClaims(again) = SortedClaims(docs)
  BY <1>4 DEF SortedClaims, AllClaims
<1>6. \A d \in DOMAIN docs : ExplicitLink(d, again) <=> ExplicitLink(d, docs)
  BY <1>1, <1>2 DEF ExplicitLink, SemanticScope
<1>7. Linking(again) = Linking(docs)
  BY <1>1, <1>6 DEF Linking
<1>8. LinkedTo(again) = LinkedTo(docs)
  BY <1>2, <1>7 DEF LinkedTo, Linking
<1>9. Implied(again) = Implied(docs)
  <2> DEFINE claims == SortedClaims(docs)
  <2>1. ASSUME NEW i \in Answered(claims)
        PROVE  Reply(again, claims, i) = Reply(docs, claims, i)
    <3> DEFINE m == Max(BeforeIt(claims, i))
    <3>1. m \in DOMAIN claims /\ i \in DOMAIN claims
      BY RepliesAre
    <3>2. Elements(claims) = AllClaims(docs)
      BY ClaimsAreSorted
    <3>3. claims[i].doc \in DOMAIN docs /\ claims[m].doc \in DOMAIN docs
      BY <3>1, <3>2, ClaimsOfStore DEF Elements
    <3> HIDE DEF claims, m
    <3>4. Related(again, claims[i], claims[m]) = Related(docs, claims[i], claims[m])
      BY <1>2, <3>3 DEF Related
    <3> QED BY <3>4 DEF Reply, m
  <2> QED BY <1>5, <2>1 DEF Implied
<1>10. \A d \in DOMAIN docs : Single(again, d) <=> Single(docs, d)
  BY <1>2 DEF Single
<1> QED BY <1>1, <1>3, <1>8, <1>9, <1>10 DEF again

LEMMA StatusSurvives ==
    ASSUME NEW docs, Stored(docs), \A d \in DOMAIN docs : docs[d].group # 0,
           NEW first \in Orders, NEW second \in Orders, NEW o, ValidOptions(o),
           NEW d \in DOMAIN docs
    PROVE  DocumentStates(RestoredAll(docs), o, second)[d].status
             = DocumentStates(docs, o, first)[d].status
<1> DEFINE again == RestoredAll(docs)
<1>1. /\ Stored(again) /\ DOMAIN again = DOMAIN docs
      /\ LinkedTo(again) = LinkedTo(docs) /\ Implied(again) = Implied(docs)
      /\ Single(again, d) <=> Single(docs, d)
  BY RestoredStore
<1> HIDE DEF again
<1>2. CASE o.enabled
  <2>1. DocumentStates(docs, o, first)[d].status = StatusIn(docs, o, d)
    BY <1>2, StatesAre
  <2>2. DocumentStates(again, o, second)[d].status = StatusIn(again, o, d)
    BY <1>1, <1>2, StatesAre
  <2>3. \A r : (Hides(again, o, r, d) <=> Hides(docs, o, r, d))
               /\ (Disputes(again, o, r, d) <=> Disputes(docs, o, r, d))
    BY <1>1 DEF Hides, Disputes
  <2>4. /\ Hidden(again, o, d) <=> Hidden(docs, o, d)
        /\ Disputed(again, o, d) <=> Disputed(docs, o, d)
        /\ d \in LinkedTo(again) <=> d \in LinkedTo(docs)
    BY <1>1, <2>3 DEF Hidden, Disputed
  <2>5. StatusIn(again, o, d) = StatusIn(docs, o, d)
    BY <2>4 DEF StatusIn, Verdict
  <2> QED BY <2>1, <2>2, <2>5 DEF again
<1>3. CASE ~o.enabled
  BY <1>1, <1>3 DEF DocumentStates, again
<1> QED BY <1>2, <1>3

-----------------------------------------------------------------------------
(***************************************************************************)
(* The invariant: the statuses are those of the documents as they stood at *)
(* the last refresh or restart (base), whose records were saved; what is   *)
(* not dirty has not changed since.                                        *)
(***************************************************************************)

\* A record holds what a restart needs of its document.
Records(all, docs, D) == \A d \in D : d \in DOMAIN all /\ Restored(all[d]) = Restored(docs[d])

IsAFunction(f) == f = [d \in DOMAIN f |-> f[d]]

\* The statuses were made of base, and the saved records are those of base.
MadeOf(base) ==
    /\ Stored(base) /\ IsAFunction(base)
    /\ DOMAIN saved.records = DOMAIN base /\ Records(saved.records, base, DOMAIN base)
    /\ \E order \in Orders : states = DocumentStates(base, options, order)
    /\ \A d \in DOMAIN sources \ dirty : d \in DOMAIN base /\ sources[d] = base[d]

StatesInv ==
    /\ KnowledgeInv
    /\ options \in Settings /\ IsFiniteSet(DOMAIN sources) /\ IsAFunction(sources)
    /\ Records(records, sources, DOMAIN sources \ dirty)
    /\ (saved = None /\ DOMAIN states = {}) \/ \E base : MadeOf(base)

LEMMA StatesDomain ==
    ASSUME NEW docs, Stored(docs), NEW order \in Orders, NEW o, ValidOptions(o)
    PROVE  DOMAIN DocumentStates(docs, o, order) = DOMAIN docs
<1>1. CASE o.enabled
  <2>1. DocumentStates(docs, o, order) \in States(docs)
    BY <1>1, StatesAre
  <2> QED BY <2>1 DEF States
<1>2. CASE ~o.enabled
  BY <1>2 DEF DocumentStates
<1> QED BY <1>1, <1>2

\* With nothing pending the statuses are those of the documents.
LEMMA SettledIsBase ==
    ASSUME StatesInv, Settled
    PROVE  \/ saved = None /\ DOMAIN states = {}
           \/ MadeOf(sources)
<1> SUFFICES ASSUME NEW base, MadeOf(base) PROVE MadeOf(sources)
  BY DEF StatesInv
<1>1. DOMAIN states = DOMAIN base
  BY StatesDomain, KnowledgeAssumption DEF MadeOf, StatesInv
<1>2. dirty = {} /\ DOMAIN sources = DOMAIN base
  BY <1>1 DEF Settled
<1>3. \A d \in DOMAIN sources : sources[d] = base[d]
  BY <1>2 DEF MadeOf
<1>5. sources = base
  BY <1>2, <1>3 DEF MadeOf, StatesInv, IsAFunction
<1> QED BY <1>5

LEMMA StatesInit == Init => StatesInv
<1> SUFFICES ASSUME Init PROVE StatesInv
  OBVIOUS
<1>1. KnowledgeInv
  BY InvInit
<1>2. /\ options \in Settings /\ saved = None /\ dirty = {}
      /\ sources = <<>> /\ DOMAIN sources = {} /\ DOMAIN states = {}
  BY DEF Init
<1>3. IsFiniteSet(DOMAIN sources)
  BY <1>2, FS_EmptySet
<1>4. IsAFunction(sources)
  BY <1>2 DEF IsAFunction
<1> QED BY <1>1, <1>2, <1>3, <1>4 DEF StatesInv, Records

LEMMA UpsertKeepsStates ==
    ASSUME StatesInv, NEW d \in Docs, NEW doc \in Contents[d], Upsert(d, doc)
    PROVE  StatesInv'
<1>1. KnowledgeInv'
  BY UpsertKeeps DEF StatesInv
<1>2. /\ sources' = [e \in DOMAIN sources \cup {d} |-> IF e = d THEN doc ELSE sources[e]]
      /\ dirty' = dirty \cup {d}
      /\ options' = options /\ records' = records /\ states' = states /\ saved' = saved
  BY DEF Upsert, With
<1>3. /\ DOMAIN sources' = DOMAIN sources \cup {d} /\ IsAFunction(sources')
      /\ DOMAIN sources' \ dirty' = (DOMAIN sources \ dirty) \ {d}
      /\ \A e \in DOMAIN sources' \ dirty' : sources'[e] = sources[e]
  BY <1>2 DEF IsAFunction
<1>4. IsFiniteSet(DOMAIN sources')
  BY <1>3, FS_AddElement DEF StatesInv
<1>5. Records(records', sources', DOMAIN sources' \ dirty')
  BY <1>2, <1>3 DEF StatesInv, Records
<1>6. \A base : MadeOf(base) => MadeOf(base)'
  BY <1>2, <1>3 DEF MadeOf
<1> QED BY <1>1, <1>2, <1>3, <1>4, <1>5, <1>6 DEF StatesInv

LEMMA RemoveKeepsStates ==
    ASSUME StatesInv, NEW d \in Docs, RemoveDocument(d)
    PROVE  StatesInv'
<1>1. KnowledgeInv'
  BY RemoveDocumentKeeps DEF StatesInv
<1>2. /\ sources' = Without(sources, {d}) /\ records' = Without(records, {d})
      /\ dirty' = dirty \ {d}
      /\ options' = options /\ states' = states /\ saved' = saved
  BY DEF RemoveDocument
<1>3. /\ DOMAIN sources' = DOMAIN sources \ {d} /\ IsAFunction(sources')
      /\ DOMAIN records' = DOMAIN records \ {d}
      /\ DOMAIN sources' \ dirty' = (DOMAIN sources \ dirty) \ {d}
      /\ \A e \in DOMAIN sources' : sources'[e] = sources[e]
      /\ \A e \in DOMAIN records' : records'[e] = records[e]
  BY <1>2 DEF IsAFunction, Without
<1>4. IsFiniteSet(DOMAIN sources')
  BY <1>3, FS_RemoveElement DEF StatesInv
<1>5. Records(records', sources', DOMAIN sources' \ dirty')
  BY <1>2, <1>3 DEF StatesInv, Records
<1>6. \A base : MadeOf(base) => MadeOf(base)'
  BY <1>2, <1>3 DEF MadeOf
<1> QED BY <1>1, <1>2, <1>3, <1>4, <1>5, <1>6 DEF StatesInv

LEMMA RefreshKeepsStates ==
    ASSUME StatesInv, NEW order \in Orders, Refresh(order)
    PROVE  StatesInv'
<1>1. KnowledgeInv'
  BY RefreshKeeps DEF StatesInv
<1>2. /\ records' = Over([d \in dirty |-> sources[d]], records)
      /\ sources' = sources /\ options' = options /\ dirty' = {}
      /\ states' = DocumentStates(sources, options, order)
      /\ saved' = [records |-> records', metas |-> life'.metas]
  BY DEF Refresh
<1>3. dirty \subseteq DOMAIN sources /\ DOMAIN records \subseteq DOMAIN sources
  BY DEF StatesInv, KnowledgeInv, PendingKnown
<1>4. /\ DOMAIN records' = DOMAIN records \cup dirty
      /\ \A d \in dirty : records'[d] = sources[d]
      /\ \A d \in DOMAIN records \ dirty : records'[d] = records[d]
  BY <1>2 DEF Over
<1>5. DOMAIN records' = DOMAIN sources /\ Records(records', sources, DOMAIN sources)
  BY <1>3, <1>4 DEF StatesInv, Records
<1>6. saved'.records = records'
  BY <1>2
<1>7. MadeOf(sources)'
  BY <1>2, <1>5, <1>6 DEF MadeOf, StatesInv, KnowledgeInv, SourcesKnown, Stored
<1> QED BY <1>1, <1>2, <1>5, <1>7 DEF StatesInv

LEMMA ReopenKeepsStates ==
    ASSUME StatesInv, NEW order \in Orders, Reopen(order)
    PROVE  StatesInv'
<1> DEFINE base == RestoredAll(saved.records)
<1>1. KnowledgeInv'
  BY ReopenKeeps DEF StatesInv
<1>2. /\ sources' = base /\ records' = saved.records /\ dirty' = {}
      /\ options' = options /\ saved' = saved
      /\ states' = DocumentStates(base, options, order)
  BY DEF Reopen
<1>3. PICK old : MadeOf(old)
  BY DEF StatesInv, Reopen
<1>4. Known(saved.records) /\ IsFiniteSet(DOMAIN saved.records)
  BY <1>3 DEF StatesInv, KnowledgeInv, SavedIsSound, Reopen, MadeOf, Stored
<1>5. Stored(base) /\ IsAFunction(base) /\ DOMAIN base = DOMAIN saved.records
  BY <1>4, RestoredIsKnown DEF Stored, IsAFunction, RestoredAll
<1>6. Records(saved.records, base, DOMAIN base)
  <2>1. \A d \in DOMAIN base : base[d] = Restored(saved.records[d]) /\ saved.records[d] \in SourceDocuments
    BY <1>4, <1>5 DEF RestoredAll, Known
  <2> QED BY <1>5, <2>1, RestoredFields DEF Records
<1> HIDE DEF base
<1>7. MadeOf(sources)'
  BY <1>2, <1>5, <1>6 DEF MadeOf
<1> QED BY <1>1, <1>2, <1>4, <1>5, <1>6, <1>7 DEF StatesInv

LEMMA StatesNext == StatesInv /\ [Next]_vars => StatesInv'
<1> SUFFICES ASSUME StatesInv, [Next]_vars PROVE StatesInv'
  OBVIOUS
<1>1. ASSUME NEW d \in Docs, RemoveDocument(d) PROVE StatesInv'
  BY <1>1, RemoveKeepsStates
<1>2. ASSUME NEW d \in Docs, NEW doc \in Contents[d], Upsert(d, doc) PROVE StatesInv'
  BY <1>2, UpsertKeepsStates
<1>3. ASSUME NEW order \in Orders, Refresh(order) PROVE StatesInv'
  BY <1>3, RefreshKeepsStates
<1>4. ASSUME NEW order \in Orders, Reopen(order) PROVE StatesInv'
  BY <1>4, ReopenKeepsStates
<1>5. CASE UNCHANGED vars
  <2>1. KnowledgeInv'
    BY <1>5, InvNext DEF StatesInv
  <2>2. \A base : MadeOf(base) => MadeOf(base)'
    BY <1>5 DEF vars, MadeOf
  <2> QED BY <1>5, <2>1, <2>2 DEF vars, StatesInv, Records
<1> QED BY <1>1, <1>2, <1>3, <1>4, <1>5 DEF Next

(* The statuses of a store are those of its documents as last refreshed. *)
THEOREM StatesInvHolds == Spec => []StatesInv
<1> QED BY StatesInit, StatesNext, PTL DEF Spec

(* Whatever documents say of one another, the newest word on a subject is   *)
(* hidden by a link only, and a link always hides what it names.            *)
THEOREM NewestWordStandsHolds == Spec => []NewestWordStands
<1>1. StatesInv => NewestWordStands
  <2> SUFFICES ASSUME StatesInv, Settled, options.enabled, NEW d \in DOMAIN states
               PROVE  IF Replacements(d) # {}
                      THEN states[d].status = "Superseded" /\ states[d].by \in Replacements(d)
                      ELSE d \in Newest(sources) \cup Speaking(sources)
                             => states[d].status # "Superseded"
    BY DEF NewestWordStands, Newest, Speaking, Texts
  <2>1. MadeOf(sources) /\ ValidOptions(options)
    BY SettledIsBase, KnowledgeAssumption DEF StatesInv
  <2>2. PICK order \in Orders : states = DocumentStates(sources, options, order)
    BY <2>1 DEF MadeOf
  <2>3. Stored(sources) /\ d \in DOMAIN sources
    BY <2>1 DEF MadeOf, Settled
  <2>4. Replacements(d) = {e \in Linking(sources) : sources[e].supersedes = d}
    BY DEF Replacements, Linking
  <2> QED BY <2>1, <2>2, <2>3, <2>4, NewestStands
<1> QED BY <1>1, StatesInvHolds, PTL

(* A restart leaves every document of a group the status it had.            *)
THEOREM StatesSurviveReopenHolds == Spec => []StatesSurviveReopen
<1>1. StatesInv => StatesSurviveReopen
  <2> SUFFICES ASSUME StatesInv, Settled, saved # None,
                      \A d \in DOMAIN sources : sources[d].group # 0,
                      NEW second \in Orders, NEW d \in DOMAIN states
               PROVE  DocumentStates(RestoredAll(saved.records), options, second)[d].status
                        = states[d].status
    BY DEF StatesSurviveReopen
  <2>1. MadeOf(sources) /\ ValidOptions(options)
    BY SettledIsBase, KnowledgeAssumption DEF StatesInv
  <2>2. PICK first \in Orders : states = DocumentStates(sources, options, first)
    BY <2>1 DEF MadeOf
  <2>3. Stored(sources) /\ d \in DOMAIN sources
    BY <2>1 DEF MadeOf, Settled
  <2>4. RestoredAll(saved.records) = RestoredAll(sources)
    BY <2>1 DEF MadeOf, Records, RestoredAll
  <2> QED BY <2>1, <2>2, <2>3, <2>4, StatusSurvives
<1> QED BY <1>1, StatesInvHolds, PTL

-----------------------------------------------------------------------------
(***************************************************************************)
(* Facts: what one more claim does to what the facts tell of a day.        *)
(***************************************************************************)

\* Claims are stated document by document, one after the other.
Precedes(p, q) == p[1] < q[1] \/ (p[1] = q[1] /\ p[2] < q[2])

LastIn(S, p) == p \in S /\ \A q \in S : q = p \/ Precedes(q, p)
FirstIn(S, p) == p \in S /\ \A q \in S : q = p \/ Precedes(p, q)

Predicates == {"mentions", "timestamp", "mentions_entity", "important_term"}

Facts(V) ==
    [key : Nat \X Predicates \X Nat, value : Nat, from : Nat, to : Nat, doc : Nat, version : V,
     latest : BOOLEAN]

\* What was stated of a key at the positions P, and when.
Of(P, e, k) == {p \in P : e[p].key = k}
Before(P, e, k, t) == {p \in P : e[p].key = k /\ e[p].from \in 1 .. t}
After(P, e, k, t) == {p \in P : e[p].key = k /\ e[p].from > t}

Active(fs, k, t) == {i \in DOMAIN fs : fs[i].key = k /\ ActiveAt(fs[i], t)}

\* Fact i holds the last word on its key, and those before it have ended.
HoldsLast(fs, k, i, f) ==
    /\ i \in DOMAIN fs /\ fs[i].key = k /\ fs[i].latest /\ fs[i].to = 0
    /\ fs[i].value = f.value /\ fs[i].from = f.from
    /\ \A j \in DOMAIN fs : j # i /\ fs[j].key = k =>
         ~fs[j].latest /\ (fs[j].from > 0 => fs[j].to > 0 /\ fs[j].to <= f.from)

LastTold(P, e, fs, k) ==
    IF Of(P, e, k) = {} THEN \A i \in DOMAIN fs : fs[i].key # k
    ELSE \E i, p : LastIn(Of(P, e, k), p) /\ HoldsLast(fs, k, i, e[p])

\* What holds of a key on a day is the newest word by then, or nothing when
\* the next word is the same.
PastTold(P, e, fs, k, t) ==
    IF Before(P, e, k, t) = {} THEN Active(fs, k, t) = {}
    ELSE \E p : /\ LastIn(Before(P, e, k, t), p)
                /\ \A i \in Active(fs, k, t) : fs[i].value = e[p].value
                /\ Active(fs, k, t) = {} =>
                     \E r : FirstIn(After(P, e, k, t), r) /\ e[r].value = e[p].value

Told(V, P, e, fs) ==
    /\ fs \in Seq(Facts(V))
    /\ \A k : LastTold(P, e, fs, k)
    /\ \A k : \A t \in Nat \ {0} : PastTold(P, e, fs, k, t)

\* A position after all of P, of a claim as late as any of them.
Follows(V, P, e, n) ==
    /\ P \subseteq Nat \X Nat /\ n \in Nat \X Nat
    /\ \A p \in P \cup {n} : e[p] \in Facts(V) /\ e[p].latest /\ e[p].to = 0
    /\ \A p \in P : Precedes(p, n)
    /\ \A p, q \in P \cup {n} : Precedes(p, q) => e[p].from <= e[q].from

\* What one more fact does to the facts: it is new, or it moves the last fact
\* of its key, or it ends it and follows it.
Appended(fs, f, g) ==
    /\ DOMAIN g = 1 .. Len(fs) + 1 /\ g[Len(fs) + 1] = f
    /\ \A j \in DOMAIN fs : g[j] = fs[j]

MovedOn(fs, i, f, g) ==
    DOMAIN g = DOMAIN fs /\ g[i] = f /\ \A j \in DOMAIN fs : j # i => g[j] = fs[j]

Followed(fs, i, f, g) ==
    /\ DOMAIN g = 1 .. Len(fs) + 1 /\ g[Len(fs) + 1] = f
    /\ \A j \in DOMAIN fs : j # i => g[j] = fs[j]
    /\ g[i].key = f.key /\ g[i].value = fs[i].value /\ g[i].from = fs[i].from
    /\ g[i].to = f.from /\ ~g[i].latest

Ingested(fs, f, g) ==
    /\ (\A i \in DOMAIN fs : fs[i].key # f.key) => Appended(fs, f, g)
    /\ \A i, x : HoldsLast(fs, f.key, i, x) =>
         /\ x.from <= f.from /\ fs[i].value = f.value => MovedOn(fs, i, f, g)
         /\ fs[i].value # f.value => Followed(fs, i, f, g)

LEMMA IngestDoes ==
    ASSUME NEW V, NEW fs \in Seq(Facts(V)), NEW f \in Facts(V), f.latest, f.to = 0
    PROVE  IngestFact(fs, f) \in Seq(Facts(V)) /\ Ingested(fs, f, IngestFact(fs, f))
<1> DEFINE g == IngestFact(fs, f)
           k == f.key
           current == LatestOf(fs, f.key)
           n == Len(fs)
<1>1. n \in Nat /\ DOMAIN fs = 1 .. n /\ \A i \in 1 .. n : fs[i] \in Facts(V)
  OBVIOUS
<1>2. (\A i \in DOMAIN fs : fs[i].key # k) =>
        /\ DOMAIN g = 1 .. n + 1 /\ g[n + 1] = f
        /\ \A j \in DOMAIN fs : g[j] = fs[j]
  <2> SUFFICES ASSUME \A i \in DOMAIN fs : fs[i].key # k
               PROVE  g = Append(fs, f)
    BY <1>1
  <2>1. current = {}
    BY DEF LatestOf
  <2> QED BY <2>1 DEF IngestFact
<1>3. ASSUME NEW i, NEW x, HoldsLast(fs, k, i, x)
      PROVE  /\ ~(\A j \in DOMAIN fs : fs[j].key # k)
             /\ g \in Seq(Facts(V))
             /\ x.from <= f.from /\ fs[i].value = f.value =>
                /\ DOMAIN g = DOMAIN fs /\ g[i] = f
                /\ \A j \in DOMAIN fs : j # i => g[j] = fs[j]
             /\ fs[i].value # f.value =>
                /\ DOMAIN g = 1 .. n + 1 /\ g[n + 1] = f
                /\ \A j \in DOMAIN fs : j # i => g[j] = fs[j]
                /\ g[i].key = k /\ g[i].value = fs[i].value /\ g[i].from = fs[i].from
                /\ g[i].to = f.from /\ ~g[i].latest
  <2>1. i \in 1 .. n /\ fs[i].key = k /\ fs[i].latest /\ fs[i].to = 0 /\ fs[i].from = x.from
    BY <1>1, <1>3 DEF HoldsLast
  <2>2. current = {i}
    BY <1>3 DEF LatestOf, HoldsLast
  <2>3. (CHOOSE y \in current : TRUE) = i
    BY <2>2
  <2>4. g = IF fs[i].value = f.value
            THEN [fs EXCEPT ![i] = IF (f.from > 0 /\ fs[i].from > 0) => f.from >= fs[i].from
                                      THEN f ELSE fs[i]]
            ELSE Append([fs EXCEPT ![i] = Ended(fs[i], f)], f)
    BY <2>2, <2>3 DEF IngestFact
  <2>5. fs[i] \in Facts(V) /\ f \in Facts(V)
    BY <1>1, <2>1
  <2> DEFINE ended == Ended(fs[i], f)
  <2>6. /\ ended \in Facts(V) /\ ended.key = k /\ ended.value = fs[i].value
        /\ ended.from = fs[i].from /\ ended.to = f.from /\ ~ended.latest
    BY <2>1, <2>5 DEF Ended, Facts
  <2> HIDE DEF g, ended, current
  <2>7. CASE fs[i].value = f.value
    <3>1. x.from <= f.from => g = [fs EXCEPT ![i] = f]
      BY <2>1, <2>4, <2>5, <2>7
    <3>2. g \in Seq(Facts(V))
      BY <1>1, <2>1, <2>4, <2>5, <2>7
    <3> QED BY <1>1, <2>1, <2>7, <3>1, <3>2
  <2>8. CASE fs[i].value # f.value
    <3> DEFINE h == [fs EXCEPT ![i] = ended]
    <3>1. g = Append(h, f)
      BY <2>4, <2>8 DEF ended
    <3>2. h \in Seq(Facts(V)) /\ Len(h) = n /\ h[i] = ended /\ \A j \in 1 .. n : j # i => h[j] = fs[j]
      BY <1>1, <2>1, <2>6
    <3> HIDE DEF h
    <3>3. /\ g \in Seq(Facts(V)) /\ DOMAIN g = 1 .. n + 1 /\ g[n + 1] = f
          /\ \A j \in 1 .. n : g[j] = h[j]
      BY <1>1, <3>1, <3>2
    <3> QED BY <1>1, <2>1, <2>6, <2>8, <3>2, <3>3
  <2> QED BY <2>1, <2>7, <2>8, <1>1
<1>4. g \in Seq(Facts(V))
  <2>1. CASE current = {}
    BY <2>1 DEF IngestFact
  <2>2. CASE current # {}
    <3> DEFINE i == CHOOSE y \in current : TRUE
    <3>1. i \in 1 .. n
      BY <1>1, <2>2 DEF LatestOf
    <3>2. fs[i] \in Facts(V)
      BY <1>1, <3>1
    <3>3. Ended(fs[i], f) \in Facts(V)
      BY <3>2 DEF Ended, Facts
    <3>4. g = IF fs[i].value = f.value
            THEN [fs EXCEPT ![i] = IF (f.from > 0 /\ fs[i].from > 0) => f.from >= fs[i].from
                                      THEN f ELSE fs[i]]
            ELSE Append([fs EXCEPT ![i] = Ended(fs[i], f)], f)
      BY <2>2 DEF IngestFact
    <3> HIDE DEF g, i
    <3> QED BY <1>1, <3>1, <3>2, <3>3, <3>4
  <2> QED BY <2>1, <2>2
<1> HIDE DEF g
<1> QED BY <1>2, <1>3, <1>4 DEF g, Ingested, Appended, MovedOn, Followed

\* Only the facts of a key matter to what is told of it.
LEMMA OtherKeysKept ==
    ASSUME NEW V, NEW P, NEW e, NEW fs, NEW g, NEW n, NEW h, e[n].key # h,
           \A j : (j \in DOMAIN g /\ g[j].key = h) <=> (j \in DOMAIN fs /\ fs[j].key = h),
           \A j \in DOMAIN fs : fs[j].key = h => g[j] = fs[j]
    PROVE  /\ LastTold(P, e, fs, h) => LastTold(P \cup {n}, e, g, h)
           /\ \A t : PastTold(P, e, fs, h, t) => PastTold(P \cup {n}, e, g, h, t)
<1>1. /\ Of(P \cup {n}, e, h) = Of(P, e, h)
      /\ \A t : /\ Before(P \cup {n}, e, h, t) = Before(P, e, h, t)
                /\ After(P \cup {n}, e, h, t) = After(P, e, h, t)
  BY DEF Of, Before, After
<1>2. \A t : Active(g, h, t) = Active(fs, h, t)
  BY DEF Active
<1>3. \A i, f : HoldsLast(fs, h, i, f) => HoldsLast(g, h, i, f)
  BY DEF HoldsLast
<1>4. LastTold(P, e, fs, h) => LastTold(P \cup {n}, e, g, h)
  BY <1>1, <1>3 DEF LastTold
<1>5. ASSUME NEW t, PastTold(P, e, fs, h, t) PROVE PastTold(P \cup {n}, e, g, h, t)
  <2>1. \A i \in Active(fs, h, t) : g[i] = fs[i]
    BY DEF Active
  <2>2. CASE Before(P, e, h, t) = {}
    BY <1>1, <1>2, <1>5, <2>2 DEF PastTold
  <2>3. CASE Before(P, e, h, t) # {}
    <3>1. PICK p : /\ LastIn(Before(P, e, h, t), p)
                   /\ \A i \in Active(fs, h, t) : fs[i].value = e[p].value
                   /\ Active(fs, h, t) = {} =>
                        \E r : FirstIn(After(P, e, h, t), r) /\ e[r].value = e[p].value
      BY <1>5, <2>3 DEF PastTold
    <3> QED BY <1>1, <1>2, <2>1, <2>3, <3>1 DEF PastTold
  <2> QED BY <2>2, <2>3
<1> QED BY <1>4, <1>5

\* A word of today or before is the newest, and all that holds.
LEMMA NewWordHolds ==
    ASSUME NEW V, NEW P, NEW e, NEW n, Follows(V, P, e, n), NEW g \in Seq(Facts(V)), NEW i,
           HoldsLast(g, e[n].key, i, e[n])
    PROVE  /\ LastTold(P \cup {n}, e, g, e[n].key)
           /\ \A t \in Nat \ {0} : e[n].from <= t => PastTold(P \cup {n}, e, g, e[n].key, t)
<1> DEFINE k == e[n].key
           Q == P \cup {n}
<1>1. LastTold(Q, e, g, k)
  BY DEF LastTold, LastIn, Of, Follows
<1>2. ASSUME NEW t \in Nat \ {0}, e[n].from <= t PROVE PastTold(Q, e, g, k, t)
  <2>1. /\ e[n].from \in Nat /\ \A p \in Q : e[p].from \in Nat /\ e[p].from <= e[n].from
        /\ \A j \in DOMAIN g : g[j].from \in Nat /\ g[j].to \in Nat
        /\ i \in DOMAIN g /\ g[i].key = k /\ g[i].to = 0 /\ g[i].from = e[n].from /\ g[i].value = e[n].value
        /\ \A j \in DOMAIN g : j # i /\ g[j].key = k =>
             (g[j].from > 0 => g[j].to > 0 /\ g[j].to <= e[n].from)
    <3>1. \A p \in Q : e[p] \in Facts(V) /\ e[p].from <= e[n].from
      BY DEF Follows, Facts
    <3>2. \A j \in DOMAIN g : g[j] \in Facts(V)
      OBVIOUS
    <3> QED BY <3>1, <3>2 DEF Facts, HoldsLast
  <2>2. \A j \in Active(g, k, t) : j = i
    BY <1>2, <2>1 DEF Active, ActiveAt
  <2>3. CASE e[n].from = 0
    <3>1. Before(Q, e, k, t) = {}
      BY <2>1, <2>3 DEF Before
    <3>2. i \notin Active(g, k, t)
      BY <2>1, <2>3 DEF Active, ActiveAt
    <3> QED BY <2>2, <3>1, <3>2 DEF PastTold
  <2>4. CASE e[n].from # 0
    <3>1. e[n].from \in 1 .. t
      BY <1>2, <2>1, <2>4
    <3>2. LastIn(Before(Q, e, k, t), n)
      BY <3>1 DEF Before, LastIn, Follows
    <3>3. i \in Active(g, k, t)
      BY <2>1, <3>1 DEF Active, ActiveAt
    <3>4. n \in Before(Q, e, k, t)
      BY <3>1 DEF Before
    <3> QED BY <2>1, <2>2, <3>2, <3>3, <3>4 DEF PastTold
  <2> QED BY <2>3, <2>4
<1> QED BY <1>1, <1>2

\* A word of later changes nothing of the day, but for a fact that moved on.
LEMMA LaterWordKeepsThePast ==
    ASSUME NEW V, NEW P, NEW e, NEW n, Follows(V, P, e, n), NEW fs, Told(V, P, e, fs),
           NEW t \in Nat \ {0}, e[n].from > t
    PROVE  PastTold(P \cup {n}, e, IngestFact(fs, e[n]), e[n].key, t)
<1> DEFINE f == e[n]
           k == f.key
           g == IngestFact(fs, f)
           Q == P \cup {n}
<1>1. /\ fs \in Seq(Facts(V)) /\ Len(fs) \in Nat /\ DOMAIN fs = 1 .. Len(fs)
      /\ f \in Facts(V) /\ f.latest /\ f.to = 0 /\ f.from \in Nat
      /\ \A j \in DOMAIN fs : fs[j].from \in Nat /\ fs[j].to \in Nat
  <2>1. fs \in Seq(Facts(V))
    BY DEF Told
  <2>2. Len(fs) \in Nat /\ DOMAIN fs = 1 .. Len(fs) /\ \A j \in DOMAIN fs : fs[j] \in Facts(V)
    BY <2>1
  <2>3. f \in Facts(V) /\ f.latest /\ f.to = 0
    BY DEF Follows
  <2> HIDE DEF f
  <2> QED BY <2>1, <2>2, <2>3 DEF Facts
<1>0. Ingested(fs, f, g)
  <2> HIDE DEF f
  <2> QED BY <1>1, IngestDoes
<1>2. PastTold(P, e, fs, k, t) /\ LastTold(P, e, fs, k)
  BY DEF Told
<1>3. /\ Before(Q, e, k, t) = Before(P, e, k, t)
      /\ After(Q, e, k, t) = After(P, e, k, t) \cup {n}
  BY <1>1 DEF Before, After
<1>4. \A r : FirstIn(After(P, e, k, t), r) => FirstIn(After(Q, e, k, t), r)
  BY <1>3 DEF FirstIn, After, Follows
<1>5. CASE Of(P, e, k) = {}
  <2>1. \A i \in DOMAIN fs : fs[i].key # k
    BY <1>2, <1>5 DEF LastTold
  <2>2. DOMAIN g = 1 .. Len(fs) + 1 /\ g[Len(fs) + 1] = f /\ \A j \in DOMAIN fs : g[j] = fs[j]
    BY <1>0, <2>1 DEF Ingested, Appended
  <2> HIDE DEF g
  <2>3. Active(g, k, t) = {}
    BY <1>1, <2>1, <2>2 DEF Active, ActiveAt
  <2>4. Before(Q, e, k, t) = {}
    BY <1>3, <1>5 DEF Before, Of
  <2> QED BY <2>3, <2>4 DEF PastTold, g
<1>6. CASE Of(P, e, k) # {}
  <2>1. PICK i, p : LastIn(Of(P, e, k), p) /\ HoldsLast(fs, k, i, e[p])
    BY <1>2, <1>6 DEF LastTold
  <2>2. /\ p \in P /\ e[p].from \in Nat /\ e[p].from <= f.from
        /\ \A q \in P : e[q].from \in Nat
        /\ \A q \in Of(P, e, k) : q = p \/ Precedes(q, p)
    BY <2>1 DEF LastIn, Of, Follows, Facts
  <2>3. /\ i \in DOMAIN fs /\ fs[i].key = k /\ fs[i].to = 0 /\ fs[i].from = e[p].from
        /\ \A j \in DOMAIN fs : j # i /\ fs[j].key = k =>
             (fs[j].from > 0 => fs[j].to > 0 /\ fs[j].to <= e[p].from)
    BY <2>1 DEF HoldsLast
  <2>4. CASE fs[i].value = f.value
    <3>1. DOMAIN g = DOMAIN fs /\ g[i] = f /\ \A j \in DOMAIN fs : j # i => g[j] = fs[j]
      <4>1. HoldsLast(fs, k, i, e[p]) /\ e[p].from <= f.from /\ fs[i].value = f.value
        BY <2>1, <2>2, <2>4
      <4> QED BY <1>0, <4>1 DEF Ingested, MovedOn
    <3> HIDE DEF g
    <3>2. Active(g, k, t) = Active(fs, k, t) \ {i}
      BY <1>1, <2>3, <3>1 DEF Active, ActiveAt
    <3>3. CASE i \notin Active(fs, k, t)
      <4>1. Active(g, k, t) = Active(fs, k, t) /\ \A j \in Active(g, k, t) : g[j].value = fs[j].value
        BY <3>1, <3>2, <3>3 DEF Active
      <4> QED BY <1>2, <1>3, <1>4, <4>1 DEF PastTold, g
    <3>4. CASE i \in Active(fs, k, t)
      <4>1. e[p].from > 0 /\ e[p].from <= t
        BY <2>3, <3>4 DEF Active, ActiveAt
      <4>2. Active(g, k, t) = {}
        BY <1>1, <2>2, <2>3, <3>2, <4>1 DEF Active, ActiveAt
      <4>3. p \in Before(P, e, k, t)
        BY <2>1, <2>2, <4>1 DEF Before, LastIn, Of
      <4>4. PICK q : /\ LastIn(Before(P, e, k, t), q)
                     /\ \A j \in Active(fs, k, t) : fs[j].value = e[q].value
        BY <1>2, <4>3 DEF PastTold
      <4>5. \A r \in Of(P, e, k) : e[r].from <= e[p].from
        BY <2>1, <2>2 DEF Of, Follows
      <4>6. After(P, e, k, t) = {}
        BY <2>2, <4>1, <4>5 DEF After, Of
      <4>7. FirstIn(After(Q, e, k, t), n) /\ e[n].value = e[q].value
        BY <1>3, <2>4, <3>4, <4>4, <4>6 DEF FirstIn
      <4> QED BY <1>3, <4>2, <4>3, <4>4, <4>7 DEF PastTold, g
    <3> QED BY <3>3, <3>4
  <2>5. CASE fs[i].value # f.value
    <3>1. /\ DOMAIN g = 1 .. Len(fs) + 1 /\ g[Len(fs) + 1] = f
          /\ \A j \in DOMAIN fs : j # i => g[j] = fs[j]
          /\ g[i].key = k /\ g[i].value = fs[i].value /\ g[i].from = fs[i].from
          /\ g[i].to = f.from
      BY <1>0, <2>1, <2>5 DEF Ingested, Followed
    <3> HIDE DEF g
    <3>2. Active(g, k, t) = Active(fs, k, t)
      BY <1>1, <2>3, <3>1 DEF Active, ActiveAt
    <3>3. \A j \in Active(g, k, t) : g[j].value = fs[j].value
      BY <2>3, <3>1, <3>2 DEF Active
    <3> QED BY <1>2, <1>3, <1>4, <3>2, <3>3 DEF PastTold, g
  <2> QED BY <2>4, <2>5
<1> QED BY <1>5, <1>6

(* Ingesting one more claim keeps the facts true of what was stated.        *)
LEMMA IngestTells ==
    ASSUME NEW V, NEW P, NEW e, NEW n, Follows(V, P, e, n), NEW fs, Told(V, P, e, fs)
    PROVE  Told(V, P \cup {n}, e, IngestFact(fs, e[n]))
<1> DEFINE f == e[n]
           k == f.key
           g == IngestFact(fs, f)
           Q == P \cup {n}
<1>1. /\ fs \in Seq(Facts(V)) /\ Len(fs) \in Nat /\ DOMAIN fs = 1 .. Len(fs)
      /\ f \in Facts(V) /\ f.latest /\ f.to = 0 /\ f.from \in Nat
  <2>1. fs \in Seq(Facts(V))
    BY DEF Told
  <2>2. Len(fs) \in Nat /\ DOMAIN fs = 1 .. Len(fs)
    BY <2>1
  <2>3. f \in Facts(V) /\ f.latest /\ f.to = 0
    BY DEF Follows
  <2> HIDE DEF f
  <2> QED BY <2>1, <2>2, <2>3 DEF Facts
<1>2. g \in Seq(Facts(V)) /\ Ingested(fs, f, g)
  <2> HIDE DEF f
  <2> QED BY <1>1, IngestDoes
<1>3. LastTold(P, e, fs, k)
  BY DEF Told
<1>4. /\ \E i : HoldsLast(g, k, i, f)
      /\ \A h : h # k => /\ \A j : (j \in DOMAIN g /\ g[j].key = h) <=> (j \in DOMAIN fs /\ fs[j].key = h)
                         /\ \A j \in DOMAIN fs : fs[j].key = h => g[j] = fs[j]
  <2>1. CASE Of(P, e, k) = {}
    <3>1. \A i \in DOMAIN fs : fs[i].key # k
      BY <1>3, <2>1 DEF LastTold
    <3>2. Appended(fs, f, g)
      BY <1>2, <3>1 DEF Ingested
    <3> HIDE DEF g
    <3>3. HoldsLast(g, k, Len(fs) + 1, f)
      <4> HIDE DEF f
      <4> QED BY <1>1, <3>1, <3>2 DEF Appended, HoldsLast
    <3> QED BY <1>1, <3>1, <3>2, <3>3 DEF Appended
  <2>2. CASE Of(P, e, k) # {}
    <3>1. PICK i, p : LastIn(Of(P, e, k), p) /\ HoldsLast(fs, k, i, e[p])
      BY <1>3, <2>2 DEF LastTold
    <3>2. e[p].from \in Nat /\ e[p].from <= f.from
      BY <3>1 DEF LastIn, Of, Follows, Facts
    <3>3. /\ i \in DOMAIN fs /\ fs[i].key = k
          /\ \A j \in DOMAIN fs : fs[j].to \in Nat
          /\ \A j \in DOMAIN fs : j # i /\ fs[j].key = k =>
               ~fs[j].latest /\ (fs[j].from > 0 => fs[j].to > 0 /\ fs[j].to <= f.from)
      <4>1. \A j \in DOMAIN fs : fs[j] \in Facts(V)
        BY <1>1
      <4>2. \A j \in DOMAIN fs : fs[j].to \in Nat
        BY <4>1 DEF Facts
      <4> QED BY <1>1, <3>1, <3>2, <4>2 DEF HoldsLast
    <3>4. CASE fs[i].value = f.value
      <4>1. MovedOn(fs, i, f, g)
        BY <1>2, <3>1, <3>2, <3>4 DEF Ingested
      <4> HIDE DEF g
      <4>2. HoldsLast(g, k, i, f)
        BY <1>1, <3>3, <4>1 DEF MovedOn, HoldsLast
      <4> QED BY <3>3, <4>1, <4>2 DEF MovedOn
    <3>5. CASE fs[i].value # f.value
      <4>1. Followed(fs, i, f, g)
        BY <1>2, <3>1, <3>5 DEF Ingested
      <4> HIDE DEF g
      <4>2. HoldsLast(g, k, Len(fs) + 1, f)
        <5>1. \A j \in 1 .. Len(fs) + 1 : j # Len(fs) + 1 /\ g[j].key = k =>
                ~g[j].latest /\ (g[j].from > 0 => g[j].to > 0 /\ g[j].to <= f.from)
          <6> HIDE DEF f
          <6> QED BY <1>1, <3>2, <3>3, <3>1, <4>1 DEF Followed, HoldsLast
        <5> HIDE DEF f
        <5> QED BY <1>1, <4>1, <5>1 DEF Followed, HoldsLast
      <4> QED BY <1>1, <3>3, <4>1, <4>2 DEF Followed
    <3> QED BY <3>4, <3>5
  <2> QED BY <2>1, <2>2
<1> HIDE DEF g
<1>5. /\ LastTold(Q, e, g, k)
      /\ \A t \in Nat \ {0} : f.from <= t => PastTold(Q, e, g, k, t)
  BY <1>2, <1>4, NewWordHolds
<1>6. \A t \in Nat \ {0} : f.from > t => PastTold(Q, e, g, k, t)
  BY LaterWordKeepsThePast DEF g
<1>7. \A t \in Nat \ {0} : PastTold(Q, e, g, k, t)
  <2> SUFFICES ASSUME NEW t \in Nat \ {0} PROVE PastTold(Q, e, g, k, t)
    OBVIOUS
  <2>1. f.from <= t \/ f.from > t
    BY <1>1
  <2> QED BY <1>5, <1>6, <2>1
<1>8. ASSUME NEW h, h # k
      PROVE  LastTold(Q, e, g, h) /\ \A t \in Nat \ {0} : PastTold(Q, e, g, h, t)
  <2>1. LastTold(P, e, fs, h) /\ \A t \in Nat \ {0} : PastTold(P, e, fs, h, t)
    BY DEF Told
  <2>2. /\ \A j : (j \in DOMAIN g /\ g[j].key = h) <=> (j \in DOMAIN fs /\ fs[j].key = h)
        /\ \A j \in DOMAIN fs : fs[j].key = h => g[j] = fs[j]
    BY <1>4, <1>8
  <2>3. /\ LastTold(P, e, fs, h) => LastTold(Q, e, g, h)
        /\ \A t : PastTold(P, e, fs, h, t) => PastTold(Q, e, g, h, t)
    BY <1>8, <2>2, OtherKeysKept
  <2> QED BY <2>1, <2>3
<1> QED BY <1>2, <1>5, <1>7, <1>8 DEF Told, g

-----------------------------------------------------------------------------
(***************************************************************************)
(* The claims of a document, in their order.                               *)
(***************************************************************************)

Stateable == [subject : Nat, predicate : Predicates, object : Nat]

FiniteChunks(doc) ==
    IsFiniteSet(doc.chunks) /\ \A c \in doc.chunks : IsFiniteSet(c.terms \cup c.entities)

LEMMA ChunkStates ==
    ASSUME NEW doc \in SourceDocuments, FiniteChunks(doc), NEW c \in doc.chunks
    PROVE  IsFiniteSet(ChunkClaims(doc, c)) /\ ChunkClaims(doc, c) \subseteq Stateable
<1>1. /\ c.heading \in Nat /\ c.terms \subseteq Nat /\ c.entities \subseteq Nat
      /\ doc.date \in Nat /\ doc.term \in Nat /\ doc.headings \in Seq(Nat)
  BY DEF SourceDocuments, Chunks
<1>2. Topic(doc) \in Nat
  BY <1>1 DEF Topic
<1>3. IsFiniteSet(c.terms) /\ IsFiniteSet(c.entities)
  <2>1. IsFiniteSet(c.terms \cup c.entities)
    BY DEF FiniteChunks
  <2> QED BY <2>1, FS_Subset
<1> DEFINE T == ({Topic(doc)} \ {0}) \cap (c.terms \cup {c.heading})
           D == {doc.date} \ {0}
           of1(t) == [subject |-> t, predicate |-> "mentions", object |-> c.heading]
           of2(t) == [subject |-> c.heading, predicate |-> "timestamp", object |-> t]
           of3(t) == [subject |-> c.heading, predicate |-> "mentions_entity", object |-> t]
           of4(t) == [subject |-> c.heading, predicate |-> "important_term", object |-> t]
<1>4. IsFiniteSet(T) /\ IsFiniteSet(D)
  <2>1. T \subseteq {Topic(doc)} /\ D \subseteq {doc.date}
    OBVIOUS
  <2>2. IsFiniteSet({Topic(doc)}) /\ IsFiniteSet({doc.date})
    BY FS_Singleton
  <2> HIDE DEF T, D
  <2> QED BY <2>1, <2>2, FS_Subset
<1>5. ChunkClaims(doc, c) = {of1(t) : t \in T} \cup {of2(t) : t \in D}
                              \cup {of3(t) : t \in c.entities} \cup {of4(t) : t \in c.terms}
  BY DEF ChunkClaims
<1>6. /\ IsFiniteSet({of1(t) : t \in T}) /\ IsFiniteSet({of2(t) : t \in D})
      /\ IsFiniteSet({of3(t) : t \in c.entities}) /\ IsFiniteSet({of4(t) : t \in c.terms})
  <2> DEFINE f1 == [t \in T |-> of1(t)]
             f2 == [t \in D |-> of2(t)]
             f3 == [t \in c.entities |-> of3(t)]
             f4 == [t \in c.terms |-> of4(t)]
  <2>1. /\ {of1(t) : t \in T} = {f1[t] : t \in T} /\ {of2(t) : t \in D} = {f2[t] : t \in D}
        /\ {of3(t) : t \in c.entities} = {f3[t] : t \in c.entities}
        /\ {of4(t) : t \in c.terms} = {f4[t] : t \in c.terms}
    OBVIOUS
  <2> HIDE DEF f1, f2, f3, f4, T, D
  <2>2. /\ IsFiniteSet({f1[t] : t \in T}) /\ IsFiniteSet({f2[t] : t \in D})
        /\ IsFiniteSet({f3[t] : t \in c.entities}) /\ IsFiniteSet({f4[t] : t \in c.terms})
    BY <1>3, <1>4, ImageIsFinite
  <2> QED BY <2>1, <2>2
<1>7. IsFiniteSet(ChunkClaims(doc, c))
  <2> HIDE DEF of1, of2, of3, of4, T, D
  <2> QED BY <1>5, <1>6, FS_Union
<1>8. ChunkClaims(doc, c) \subseteq Stateable
  BY <1>1, <1>2, <1>5 DEF Stateable, Predicates
<1> QED BY <1>7, <1>8

Claimed(doc) == UNION {ChunkClaims(doc, c) : c \in doc.chunks}

LEMMA ClaimedIsFinite ==
    ASSUME NEW doc \in SourceDocuments, FiniteChunks(doc)
    PROVE  IsFiniteSet(Claimed(doc)) /\ Claimed(doc) \subseteq Stateable
<1> DEFINE f == [c \in doc.chunks |-> ChunkClaims(doc, c)]
           S == {f[c] : c \in doc.chunks}
<1>1. IsFiniteSet(S)
  <2> HIDE DEF f
  <2> QED BY ImageIsFinite DEF FiniteChunks
<1>2. \A x \in S : IsFiniteSet(x) /\ x \subseteq Stateable
  BY ChunkStates
<1>3. Claimed(doc) = UNION S
  BY DEF Claimed
<1> HIDE DEF S
<1> QED BY <1>1, <1>2, <1>3, FS_UNION

\* The claims of a document stand in a row, those on one key by their objects.
LEMMA ClaimsInOrder ==
    ASSUME NEW doc \in SourceDocuments, FiniteChunks(doc)
    PROVE  LET claims == TopClaims(doc)
               n == Cardinality(Claimed(doc))
           IN  /\ n \in Nat /\ DOMAIN claims = 1 .. n
               /\ \A i \in 1 .. n : claims[i] \in Stateable
               /\ \A i, j \in 1 .. n :
                    /\ i < j /\ claims[i].subject = claims[j].subject
                    /\ claims[i].predicate = claims[j].predicate
                    => claims[i].object < claims[j].object
<1> DEFINE S == Claimed(doc)
           R == {p \in S \X S : ClaimOrder(p[1], p[2])}
           claims == TopClaims(doc)
           n == Cardinality(S)
<1>1. IsFiniteSet(S) /\ S \subseteq Stateable /\ n \in Nat
  BY ClaimedIsFinite, FS_CardinalityType
<1>2. \A x, y \in S : <<x, y>> \in R <=> ClaimOrder(x, y)
  OBVIOUS
<1> HIDE DEF S, R
<1>3. \A x \in S : /\ x.subject \in Nat /\ x.object \in Nat /\ x.predicate \in Predicates
                   /\ PredicateRank(x.predicate) \in Nat
                   /\ x = [subject |-> x.subject, predicate |-> x.predicate, object |-> x.object]
  BY <1>1 DEF Stateable, PredicateRank
<1>4. \A x, y \in S : PredicateRank(x.predicate) = PredicateRank(y.predicate) => x.predicate = y.predicate
  BY <1>3 DEF Predicates, PredicateRank
<1>5. \A x, y \in S : ClaimOrder(x, y) <=>
        \/ x.subject < y.subject
        \/ x.subject = y.subject /\ PredicateRank(x.predicate) < PredicateRank(y.predicate)
        \/ x.subject = y.subject /\ PredicateRank(x.predicate) = PredicateRank(y.predicate)
             /\ x.object < y.object
  BY DEF ClaimOrder
<1>6. TotalOn(R, S)
  <2>1. \A x \in S : <<x, x>> \notin R
    BY <1>2, <1>3, <1>5
  <2>2. \A x, y \in S : x # y => <<x, y>> \in R \/ <<y, x>> \in R
    <3> SUFFICES ASSUME NEW x \in S, NEW y \in S, x # y PROVE ClaimOrder(x, y) \/ ClaimOrder(y, x)
      BY <1>2
    <3>1. x.subject # y.subject \/ x.predicate # y.predicate \/ x.object # y.object
      BY <1>3
    <3> QED BY <1>3, <1>4, <1>5, <3>1
  <2>3. \A x, y, z \in S : <<x, y>> \in R /\ <<y, z>> \in R => <<x, z>> \in R
    BY <1>2, <1>3, <1>5
  <2> QED BY <2>1, <2>2, <2>3 DEF TotalOn
<1>7. claims = RankedBy(S, R)
  <2>1. \A x \in S : {y \in S : ClaimOrder(y, x)} = {y \in S : <<y, x>> \in R}
    BY <1>2
  <2> DEFINE one(i) == CHOOSE x \in S : Cardinality({y \in S : ClaimOrder(y, x)}) = i - 1
             other(i) == CHOOSE x \in S : Cardinality({y \in S : <<y, x>> \in R}) = i - 1
  <2>2. claims = [i \in 1 .. n |-> one(i)]
    BY DEF TopClaims, Ranked, S, Claimed
  <2>3. RankedBy(S, R) = [i \in 1 .. n |-> other(i)]
    BY DEF RankedBy
  <2>4. \A i \in 1 .. n : one(i) = other(i)
    BY <2>1
  <2> HIDE DEF claims, one, other, n
  <2> QED BY <2>2, <2>3, <2>4
<1> HIDE DEF claims
<1>8. /\ DOMAIN claims = 1 .. n /\ Elements(claims) = S
      /\ \A i, j \in DOMAIN claims : i < j => <<claims[i], claims[j]>> \in R
  BY <1>1, <1>6, <1>7, RankingIsExact
<1>9. \A i \in 1 .. n : claims[i] \in S
  BY <1>8 DEF Elements
<1>10. ASSUME NEW i \in 1 .. n, NEW j \in 1 .. n, i < j, claims[i].subject = claims[j].subject,
              claims[i].predicate = claims[j].predicate
       PROVE  claims[i].object < claims[j].object
  <2>1. ClaimOrder(claims[i], claims[j])
    BY <1>2, <1>8, <1>9, <1>10
  <2> QED BY <1>3, <1>5, <1>9, <1>10, <2>1
<1> QED BY <1>1, <1>8, <1>9, <1>10 DEF claims, S

-----------------------------------------------------------------------------
(***************************************************************************)
(* The facts of a store: a loop over its documents by date, and in it one  *)
(* over the claims of a document.                                          *)
(***************************************************************************)

Readable(all) == Stored(all) /\ \A d \in DOMAIN all : FiniteChunks(all[d])

VersionOf(all, l, d) ==
    LET id == ChunkId(d, SourceChunk(all[d]))
    IN  IF id \in DOMAIN l.metas THEN l.metas[id].version ELSE 1

Stated(all, l, d) ==
    LET claims == TopClaims(all[d])
    IN  [i \in DOMAIN claims |-> FactOf(d, all[d], claims[i], VersionOf(all, l, d))]

Versions(all, l) == {VersionOf(all, l, d) : d \in DOMAIN all}

\* Everything the documents say, by the place of the document and of the claim.
Words(all, l) == [p \in Nat \X Nat |-> Stated(all, l, ByDate(all)[p[1]])[p[2]]]

Said(all, l, m, i) ==
    {p \in Nat \X Nat :
       /\ p[1] \in DOMAIN ByDate(all) /\ p[2] \in DOMAIN Stated(all, l, ByDate(all)[p[1]])
       /\ p[1] < m \/ (p[1] = m /\ p[2] <= i)}

LEMMA DocumentsByDate ==
    ASSUME NEW all, Readable(all)
    PROVE  LET docs == ByDate(all)
               n == Cardinality(DOMAIN all)
           IN  /\ n \in Nat /\ DOMAIN docs = 1 .. n /\ Elements(docs) = DOMAIN all
               /\ \A i, j \in 1 .. n : i < j => all[docs[i]].date <= all[docs[j]].date
<1> DEFINE S == DOMAIN all
           before(x, y) == all[x].date < all[y].date \/ (all[x].date = all[y].date /\ x < y)
           R == {p \in S \X S : before(p[1], p[2])}
           docs == ByDate(all)
           n == Cardinality(S)
<1>1. IsFiniteSet(S) /\ n \in Nat
  BY FS_CardinalityType DEF Readable, Stored
<1>2. \A x \in S : x \in Nat /\ all[x].date \in Nat
  BY KnowledgeAssumption DEF Readable, Stored, Known, SourceDocuments
<1>3. \A x, y \in S : <<x, y>> \in R <=> before(x, y)
  OBVIOUS
<1> HIDE DEF S, R
<1>4. TotalOn(R, S)
  <2>1. \A x \in S : <<x, x>> \notin R
    BY <1>2, <1>3
  <2>2. \A x, y \in S : x # y => <<x, y>> \in R \/ <<y, x>> \in R
    BY <1>2, <1>3
  <2>3. \A x, y, z \in S : <<x, y>> \in R /\ <<y, z>> \in R => <<x, z>> \in R
    BY <1>2, <1>3
  <2> QED BY <2>1, <2>2, <2>3 DEF TotalOn
<1>5. docs = RankedBy(S, R)
  <2>1. \A x \in S : {y \in S : before(y, x)} = {y \in S : <<y, x>> \in R}
    BY <1>3
  <2> DEFINE one(i) == CHOOSE x \in S : Cardinality({y \in S : before(y, x)}) = i - 1
             other(i) == CHOOSE x \in S : Cardinality({y \in S : <<y, x>> \in R}) = i - 1
  <2>2. docs = [i \in 1 .. n |-> one(i)]
    BY DEF ByDate, Ranked, S
  <2>3. RankedBy(S, R) = [i \in 1 .. n |-> other(i)]
    BY DEF RankedBy
  <2>4. \A i \in 1 .. n : one(i) = other(i)
    BY <2>1
  <2> HIDE DEF docs, one, other, n
  <2> QED BY <2>2, <2>3, <2>4
<1> HIDE DEF docs
<1>6. /\ DOMAIN docs = 1 .. n /\ Elements(docs) = S
      /\ \A i, j \in DOMAIN docs : i < j => <<docs[i], docs[j]>> \in R
  BY <1>1, <1>4, <1>5, RankingIsExact
<1>7. \A i \in 1 .. n : docs[i] \in S
  BY <1>6 DEF Elements
<1>8. ASSUME NEW i \in 1 .. n, NEW j \in 1 .. n, i < j PROVE all[docs[i]].date <= all[docs[j]].date
  <2>1. before(docs[i], docs[j]) /\ docs[i] \in S /\ docs[j] \in S
    BY <1>3, <1>6, <1>7, <1>8
  <2> QED BY <1>2, <2>1
<1> QED BY <1>1, <1>6, <1>8 DEF docs, S

LEMMA StatedIs ==
    ASSUME NEW all, NEW l, Readable(all), NEW d \in DOMAIN all
    PROVE  LET s == Stated(all, l, d)
               n == Cardinality(Claimed(all[d]))
           IN  /\ n \in Nat /\ DOMAIN s = 1 .. n
               /\ \A i \in 1 .. n : /\ s[i] \in Facts(Versions(all, l))
                                    /\ s[i].latest /\ s[i].to = 0 /\ s[i].from = all[d].date
               /\ \A i, j \in 1 .. n : i < j /\ s[i].key = s[j].key => s[i].value < s[j].value
<1> DEFINE claims == TopClaims(all[d])
           s == Stated(all, l, d)
           n == Cardinality(Claimed(all[d]))
           v == VersionOf(all, l, d)
<1>1. d \in Nat /\ all[d] \in SourceDocuments /\ FiniteChunks(all[d])
  BY KnowledgeAssumption DEF Readable, Stored, Known
<1>2. /\ n \in Nat /\ DOMAIN claims = 1 .. n
      /\ \A i \in 1 .. n : claims[i] \in Stateable
      /\ \A i, j \in 1 .. n : /\ i < j /\ claims[i].subject = claims[j].subject
                              /\ claims[i].predicate = claims[j].predicate
                              => claims[i].object < claims[j].object
  BY <1>1, ClaimsInOrder
<1>3. v \in Versions(all, l)
  BY DEF Versions
<1>4. s = [i \in DOMAIN claims |-> FactOf(d, all[d], claims[i], v)]
  BY DEF Stated
<1>5. all[d].date \in Nat /\ all[d].group \in Nat
  BY <1>1 DEF SourceDocuments
<1> HIDE DEF claims, s, n, v
<1>6. ASSUME NEW i \in 1 .. n
      PROVE  /\ s[i] \in Facts(Versions(all, l))
             /\ s[i].latest /\ s[i].to = 0 /\ s[i].from = all[d].date
             /\ s[i].key = <<claims[i].subject, claims[i].predicate, all[d].group>>
             /\ s[i].value = claims[i].object
  <2>1. s[i] = FactOf(d, all[d], claims[i], v)
    BY <1>2, <1>4
  <2>2. claims[i].subject \in Nat /\ claims[i].predicate \in Predicates /\ claims[i].object \in Nat
    BY <1>2 DEF Stateable
  <2> QED BY <1>1, <1>3, <1>5, <2>1, <2>2 DEF FactOf, Facts
<1>7. ASSUME NEW i \in 1 .. n, NEW j \in 1 .. n, i < j, s[i].key = s[j].key
      PROVE  s[i].value < s[j].value
  BY <1>2, <1>6, <1>7
<1>8. DOMAIN s = 1 .. n
  BY <1>2, <1>4
<1> QED BY <1>2, <1>6, <1>7, <1>8 DEF s, n

LEMMA StatedPlaces ==
    ASSUME NEW all, NEW l, Readable(all), NEW d \in DOMAIN all, NEW i \in DOMAIN Stated(all, l, d)
    PROVE  i \in Nat /\ i >= 1
<1> DEFINE n == Cardinality(Claimed(all[d]))
<1>1. d \in Nat /\ all[d] \in SourceDocuments /\ FiniteChunks(all[d])
  BY KnowledgeAssumption DEF Readable, Stored, Known
<1>2. n \in Nat /\ DOMAIN TopClaims(all[d]) = 1 .. n
  BY <1>1, ClaimsInOrder
<1>3. i \in DOMAIN TopClaims(all[d])
  BY DEF Stated
<1> HIDE DEF n
<1> QED BY <1>2, <1>3

\* Places name documents and claims that there are.
LEMMA PlacesAre ==
    ASSUME NEW all, NEW l, Readable(all), NEW m \in DOMAIN ByDate(all)
    PROVE  /\ Cardinality(DOMAIN all) \in Nat /\ m \in 1 .. Cardinality(DOMAIN all)
           /\ ByDate(all)[m] \in DOMAIN all
           /\ \A i \in DOMAIN Stated(all, l, ByDate(all)[m]) : i \in Nat /\ i >= 1
<1>1. /\ Cardinality(DOMAIN all) \in Nat /\ m \in 1 .. Cardinality(DOMAIN all)
      /\ Elements(ByDate(all)) = DOMAIN all
  BY DocumentsByDate
<1>2. ByDate(all)[m] \in DOMAIN all
  BY <1>1 DEF Elements
<1> QED BY <1>1, <1>2, StatedPlaces

\* Words come in the order of their dates.
LEMMA WordsFollow ==
    ASSUME NEW all, NEW l, Readable(all), NEW m, NEW i, <<m, i>> \in Said(all, l, m, i)
    PROVE  /\ Follows(Versions(all, l), Said(all, l, m, i - 1), Words(all, l), <<m, i>>)
           /\ Said(all, l, m, i) = Said(all, l, m, i - 1) \cup {<<m, i>>}
           /\ Words(all, l)[<<m, i>>] = Stated(all, l, ByDate(all)[m])[i]
<1> DEFINE docs == ByDate(all)
           N == Cardinality(DOMAIN all)
           e == Words(all, l)
           P == Said(all, l, m, i)
           V == Versions(all, l)
<1>1. /\ N \in Nat /\ DOMAIN docs = 1 .. N /\ \A j \in 1 .. N : docs[j] \in DOMAIN all
      /\ \A j, k \in 1 .. N : j < k => all[docs[j]].date <= all[docs[k]].date
  BY DocumentsByDate DEF Elements
<1>2. m \in Nat /\ i \in Nat /\ m \in 1 .. N
  BY <1>1 DEF Said
<1>3. \A p \in P : /\ p = <<p[1], p[2]>> /\ p[1] \in 1 .. N /\ p[2] \in Nat
                   /\ p[2] \in DOMAIN Stated(all, l, docs[p[1]])
                   /\ p[1] < m \/ (p[1] = m /\ p[2] <= i)
  BY <1>1 DEF Said
<1>4. \A p \in P : e[p] = Stated(all, l, docs[p[1]])[p[2]]
  <2> SUFFICES ASSUME NEW p \in P PROVE e[p] = Stated(all, l, docs[p[1]])[p[2]]
    OBVIOUS
  <2>1. p \in Nat \X Nat
    BY DEF Said
  <2> QED BY <2>1 DEF Words
<1> HIDE DEF docs, N, e, P, V
<1>5. ASSUME NEW p \in P
      PROVE  e[p] \in Facts(V) /\ e[p].latest /\ e[p].to = 0 /\ e[p].from = all[docs[p[1]]].date
             /\ e[p].from \in Nat
  <2>1. docs[p[1]] \in DOMAIN all
    BY <1>1, <1>3
  <2> DEFINE d == docs[p[1]]
             s == Stated(all, l, d)
  <2> HIDE DEF d
  <2>2. \A j \in DOMAIN s : /\ s[j] \in Facts(V)
                            /\ s[j].latest /\ s[j].to = 0 /\ s[j].from = all[d].date
    BY <2>1, StatedIs DEF d, V
  <2>3. e[p] = s[p[2]] /\ p[2] \in DOMAIN s
    BY <1>3, <1>4 DEF d
  <2> HIDE DEF s
  <2> QED BY <2>2, <2>3 DEF Facts, d
<1>6. ASSUME NEW p \in P, NEW q \in P, Precedes(p, q) PROVE e[p].from <= e[q].from
  <2>1. p[1] < q[1] \/ p[1] = q[1]
    BY <1>6 DEF Precedes
  <2> QED BY <1>1, <1>3, <1>5, <2>1
<1>7. P = Said(all, l, m, i - 1) \cup {<<m, i>>}
  <2>1. <<m, i>> \in P
    BY DEF P
  <2>2. \A p \in Nat \X Nat : /\ p = <<p[1], p[2]>> /\ p[1] \in Nat /\ p[2] \in Nat
                              /\ p[2] <= i <=> p[2] <= i - 1 \/ p[2] = i
    BY <1>2
  <2> QED BY <2>1, <2>2 DEF P, Said
<1>8. \A p \in Said(all, l, m, i - 1) : Precedes(p, <<m, i>>)
  BY <1>2 DEF Said, Precedes
<1>9. P \subseteq Nat \X Nat
  BY DEF P, Said
<1>10. Follows(V, Said(all, l, m, i - 1), e, <<m, i>>)
  BY <1>5, <1>6, <1>7, <1>8, <1>9 DEF Follows
<1>11. e[<<m, i>>] = Stated(all, l, docs[m])[i]
  BY <1>4, <1>7
<1> QED BY <1>7, <1>10, <1>11 DEF docs, e, P, V

IngestStep(c, i, v) == IngestFact(v, c[i])
RecountStep(c, i, v) == Seqs!FoldLeft(IngestFact, v, Stated(c.all, c.life, ByDate(c.all)[i]))
Anything(c, T, v) == TRUE

Ingesting == INSTANCE FoldTheorems WITH Step <- IngestStep, Choice <- LastOf, Inv <- Anything
Recounting == INSTANCE FoldTheorems WITH Step <- RecountStep, Choice <- LastOf, Inv <- Anything

LEMMA LastOfInterval ==
    ASSUME NEW n \in Nat
    PROVE  /\ \A s \in SUBSET (1 .. n) : s # {} => LastOf(s) \in s
           /\ \A k \in 1 .. n : LastOf(1 .. k) = k
<1>1. \A s \in SUBSET (1 .. n) : s # {} => LastOf(s) \in s
  BY LastOfIsIn
<1>2. ASSUME NEW k \in 1 .. n PROVE LastOf(1 .. k) = k
  <2>1. k \in 1 .. k /\ \A y \in 1 .. k : k >= y
    OBVIOUS
  <2>2. \A x \in 1 .. k : (\A y \in 1 .. k : x >= y) => x = k
    BY <2>1
  <2> QED BY <2>1, <2>2 DEF LastOf, Seqs!Max
<1> QED BY <1>1, <1>2

\* After the claims of a document the facts are true of it too.
LEMMA DocumentTells ==
    ASSUME NEW all, NEW l, Readable(all), NEW m \in DOMAIN ByDate(all), NEW fs,
           Told(Versions(all, l), Said(all, l, m, 0), Words(all, l), fs)
    PROVE  Told(Versions(all, l), Said(all, l, m + 1, 0), Words(all, l),
                Seqs!FoldLeft(IngestFact, fs, Stated(all, l, ByDate(all)[m])))
<1> DEFINE docs == ByDate(all)
           d == docs[m]
           s == Stated(all, l, d)
           n == Cardinality(Claimed(all[d]))
           V == Versions(all, l)
           e == Words(all, l)
           end == Seqs!FoldLeft(IngestFact, fs, s)
<1>2. d \in DOMAIN all /\ m \in Nat
  BY PlacesAre
<1> HIDE DEF docs, d
<1>3. n \in Nat /\ DOMAIN s = 1 .. n
  BY <1>2, StatedIs
<1>4. end = Ingesting!Fold(s, fs, 1 .. n)
  BY <1>3 DEF Seqs!FoldLeft, Seqs!MapThenFoldSet, Ingesting!Fold, IngestStep, LastOf
<1> HIDE DEF s, n, end
<1>5. PICK tr : Ingesting!IsTrace(s, fs, n, tr) /\ end = tr[n]
  <2>1. Ingesting!Chooses(1 .. n) /\ \A k \in 1 .. n : LastOf(1 .. k) = k
    BY <1>3, LastOfInterval DEF Ingesting!Chooses
  <2> QED BY <1>3, <1>4, <2>1, Ingesting!FoldHasTrace
<1>6. tr[0] = fs /\ \A k \in 1 .. n : tr[k] = IngestFact(tr[k - 1], s[k])
  BY <1>5 DEF Ingesting!IsTrace, IngestStep
<1> DEFINE T == {i \in 0 .. n : Told(V, Said(all, l, m, i), e, tr[i])}
<1>7. 0 \in T
  BY <1>3, <1>6
<1>8. ASSUME NEW k \in Nat, k < n, k \in T PROVE k + 1 \in T
  <2>1. k + 1 \in 1 .. n /\ (k + 1) - 1 = k /\ k + 1 \in 0 .. n
    BY <1>3, <1>8
  <2> DEFINE j == k + 1
  <2>2. j \in 1 .. n /\ j - 1 = k /\ j \in 0 .. n
    BY <2>1
  <2> HIDE DEF j
  <2>3. tr[j] = IngestFact(tr[k], s[j])
    BY <1>6, <2>2
  <2>4. <<m, j>> \in Said(all, l, m, j)
    <3>1. m \in Nat /\ j \in Nat /\ j \in DOMAIN s
      BY <1>2, <1>3, <2>2
    <3> QED BY <3>1 DEF Said, s, d, docs
  <2>5. /\ Follows(V, Said(all, l, m, j - 1), e, <<m, j>>)
        /\ Said(all, l, m, j) = Said(all, l, m, j - 1) \cup {<<m, j>>}
        /\ e[<<m, j>>] = s[j]
    BY <2>4, WordsFollow DEF s, d, docs
  <2>6. Told(V, Said(all, l, m, j - 1), e, tr[k])
    BY <1>8, <2>2
  <2> DEFINE P == Said(all, l, m, j - 1)
             p == <<m, j>>
  <2> HIDE DEF V, e, P, p
  <2>7. Follows(V, P, e, p) /\ Told(V, P, e, tr[k]) /\ Said(all, l, m, j) = P \cup {p} /\ e[p] = s[j]
    BY <2>5, <2>6 DEF P, p
  <2>8. Told(V, P \cup {p}, e, IngestFact(tr[k], e[p]))
    BY <2>7, IngestTells
  <2>9. Told(V, Said(all, l, m, j), e, tr[j])
    BY <2>3, <2>7, <2>8
  <2> QED BY <2>2, <2>9 DEF j
<1>9. n \in T
  <2> HIDE DEF T
  <2> QED BY <1>3, <1>7, <1>8, StepsReach
<1>10. Said(all, l, m, n) = Said(all, l, m + 1, 0)
  <2>1. \A p \in Nat \X Nat : p[1] \in Nat /\ p[2] \in Nat
    OBVIOUS
  <2>2. ASSUME NEW p \in Nat \X Nat, p[1] \in DOMAIN docs, p[2] \in DOMAIN Stated(all, l, docs[p[1]])
        PROVE  (p[1] < m \/ (p[1] = m /\ p[2] <= n)) <=> (p[1] < m + 1 \/ (p[1] = m + 1 /\ p[2] <= 0))
    <3>2. p[2] >= 1
      BY <2>2, PlacesAre DEF docs
    <3>3. p[1] = m => p[2] <= n
      BY <1>3, <2>2 DEF s, d
    <3> QED BY <1>2, <2>1, <3>2, <3>3
  <2> QED BY <2>2 DEF Said, docs
<1> QED BY <1>5, <1>9, <1>10 DEF end, s, d, docs

(* The facts of a store are true of all that its documents say.             *)
LEMMA FactsAreTold ==
    ASSUME NEW all, NEW l, Readable(all)
    PROVE  Told(Versions(all, l), Said(all, l, Cardinality(DOMAIN all) + 1, 0), Words(all, l),
                FactsFor(all, l))
<1> DEFINE docs == ByDate(all)
           n == Cardinality(DOMAIN all)
           V == Versions(all, l)
           e == Words(all, l)
           c == [all |-> all, life |-> l]
           end == FactsFor(all, l)
<1>1. n \in Nat /\ DOMAIN docs = 1 .. n
  BY DocumentsByDate
<1>2. end = Recounting!Fold(c, <<>>, 1 .. n)
  <2>1. c.all = all /\ c.life = l
    OBVIOUS
  <2>2. end = Seqs!FoldLeft(LAMBDA v, d : Seqs!FoldLeft(IngestFact, v, Stated(all, l, d)), <<>>, docs)
    BY DEF FactsFor, FactsOf, Stated, VersionOf
  <2> HIDE DEF c, docs
  <2> QED BY <1>1, <2>1, <2>2 DEF Seqs!FoldLeft, Seqs!MapThenFoldSet, Recounting!Fold, RecountStep,
                                   LastOf, docs
<1> HIDE DEF n, end
<1>3. PICK tr : Recounting!IsTrace(c, <<>>, n, tr) /\ end = tr[n]
  <2>1. Recounting!Chooses(1 .. n) /\ \A k \in 1 .. n : LastOf(1 .. k) = k
    BY <1>1, LastOfInterval DEF Recounting!Chooses
  <2> QED BY <1>1, <1>2, <2>1, Recounting!FoldHasTrace
<1>4. /\ tr[0] = <<>>
      /\ \A k \in 1 .. n : tr[k] = Seqs!FoldLeft(IngestFact, tr[k - 1], Stated(all, l, docs[k]))
  BY <1>3 DEF Recounting!IsTrace, RecountStep
<1> DEFINE T == {i \in 0 .. n : Told(V, Said(all, l, i + 1, 0), e, tr[i])}
<1>5. 0 \in T
  <2>1. Said(all, l, 1, 0) = {}
    <3> SUFFICES ASSUME NEW p \in Nat \X Nat, p[1] \in DOMAIN docs,
                        p[2] \in DOMAIN Stated(all, l, docs[p[1]]), p[1] < 1 \/ p[2] <= 0
                 PROVE  FALSE
      BY DEF Said
    <3>1. p[1] >= 1 /\ p[2] \in Nat /\ p[2] >= 1
      BY PlacesAre
    <3> QED BY <3>1
  <2>2. Told(V, {}, e, <<>>)
    BY DEF Told, LastTold, PastTold, Of, Before, Active
  <2>3. 0 + 1 = 1 /\ 0 \in 0 .. n
    BY <1>1
  <2> QED BY <1>4, <2>1, <2>2, <2>3
<1>6. ASSUME NEW k \in Nat, k < n, k \in T PROVE k + 1 \in T
  <2> DEFINE j == k + 1
  <2>1. j \in 1 .. n /\ j - 1 = k /\ j \in 0 .. n
    BY <1>1, <1>6
  <2>2. Told(V, Said(all, l, j, 0), e, tr[k])
    BY <1>6
  <2> HIDE DEF j, V, e, T
  <2>3. tr[j] = Seqs!FoldLeft(IngestFact, tr[k], Stated(all, l, docs[j]))
    BY <1>4, <2>1
  <2>4. Told(V, Said(all, l, j + 1, 0), e, tr[j])
    BY <1>1, <2>1, <2>2, <2>3, DocumentTells DEF V, e
  <2> QED BY <2>1, <2>4 DEF j, T
<1>7. n \in T
  <2> HIDE DEF T
  <2> QED BY <1>1, <1>5, <1>6, StepsReach
<1> QED BY <1>3, <1>7 DEF end, n

-----------------------------------------------------------------------------
(***************************************************************************)
(* What the facts tell of the past, document by document.                  *)
(***************************************************************************)

ValuesOf(all, k, d) ==
    {f.value : f \in {x \in {FactOf(d, all[d], TopClaims(all[d])[i], 1) :
                               i \in DOMAIN TopClaims(all[d])} : x.key = k}}

KnownBy(all, k, t) ==
    {n \in DOMAIN ByDate(all) :
       all[ByDate(all)[n]].date \in 1 .. t /\ ValuesOf(all, k, ByDate(all)[n]) # {}}

KnownLater(all, k, t) ==
    {n \in DOMAIN ByDate(all) :
       all[ByDate(all)[n]].date > t /\ ValuesOf(all, k, ByDate(all)[n]) # {}}

PastIsTold(all, fs, k, t) ==
    LET active == {fs[i].value : i \in {x \in AsOf(fs, t) : fs[x].key = k}} IN
    IF KnownBy(all, k, t) = {} THEN active = {}
    ELSE LET newest == Max(ValuesOf(all, k, ByDate(all)[Max(KnownBy(all, k, t))]))
         IN  \/ active = {newest}
             \/ /\ active = {} /\ KnownLater(all, k, t) # {}
                /\ Min(ValuesOf(all, k, ByDate(all)[Min(KnownLater(all, k, t))])) = newest

LEMMA GreatestIs ==
    ASSUME NEW S \in SUBSET Nat, NEW x \in S
    PROVE  /\ (\A y \in S : x >= y) => Max(S) = x
           /\ (\A y \in S : x <= y) => Min(S) = x
<1>1. \A z \in S : (\A y \in S : x >= y) /\ (\A y \in S : z >= y) => z = x
  OBVIOUS
<1>2. \A z \in S : (\A y \in S : x <= y) /\ (\A y \in S : z <= y) => z = x
  OBVIOUS
<1> QED BY <1>1, <1>2 DEF Max, Min

\* Everything said, at the end.
Places(all, l) == Said(all, l, Cardinality(DOMAIN all) + 1, 0)

\* A value is said at a place in document n.
SaidIn(S, e, n, v) == \E q \in S : q[1] = n /\ e[q].value = v

LEMMA PlacesHold ==
    ASSUME NEW all, NEW l, Readable(all), NEW k
    PROVE  /\ \A p \in Places(all, l) :
                /\ p[1] \in DOMAIN ByDate(all) /\ p[1] \in Nat /\ p[2] \in Nat /\ p = <<p[1], p[2]>>
                /\ Words(all, l)[p].from = all[ByDate(all)[p[1]]].date
                /\ Words(all, l)[p].value \in Nat
                /\ Words(all, l)[p].key = k =>
                     Words(all, l)[p].value \in ValuesOf(all, k, ByDate(all)[p[1]])
           /\ \A m \in DOMAIN ByDate(all) : \A v \in ValuesOf(all, k, ByDate(all)[m]) :
                SaidIn(Of(Places(all, l), Words(all, l), k), Words(all, l), m, v)
           /\ \A p, q \in Places(all, l) :
                /\ Words(all, l)[p].key = k /\ Words(all, l)[q].key = k /\ p[1] = q[1]
                /\ p = q \/ Precedes(p, q)
                => Words(all, l)[p].value <= Words(all, l)[q].value
<1> DEFINE docs == ByDate(all)
           e == Words(all, l)
           N == Cardinality(DOMAIN all)
           P == Places(all, l)
<1>1. /\ \A p \in P : /\ p \in Nat \X Nat /\ p[1] \in Nat /\ p[2] \in Nat /\ p = <<p[1], p[2]>>
                      /\ p[1] \in DOMAIN docs /\ p[2] \in DOMAIN Stated(all, l, docs[p[1]])
      /\ \A m \in DOMAIN docs : \A i \in DOMAIN Stated(all, l, docs[m]) : <<m, i>> \in P
  <2>1. \A m \in DOMAIN docs : /\ N \in Nat /\ m \in 1 .. N
                               /\ \A i \in DOMAIN Stated(all, l, docs[m]) : i \in Nat
    BY PlacesAre
  <2>2. \A m \in DOMAIN docs : m \in Nat /\ m < N + 1
    BY <2>1
  <2> QED BY <2>1, <2>2 DEF Places, Said
<1>2. \A p \in P : e[p] = Stated(all, l, docs[p[1]])[p[2]]
  BY <1>1 DEF Words
<1>3. \A m \in DOMAIN docs : docs[m] \in DOMAIN all
  BY PlacesAre
<1> HIDE DEF docs, e, P, N
<1>4. ASSUME NEW d \in DOMAIN all
      PROVE  LET s == Stated(all, l, d) IN
             /\ \A i \in DOMAIN s : /\ s[i].from = all[d].date /\ s[i].value \in Nat
                                    /\ s[i].key = k => s[i].value \in ValuesOf(all, k, d)
             /\ \A v \in ValuesOf(all, k, d) : \E i \in DOMAIN s : s[i].key = k /\ s[i].value = v
             /\ \A i, j \in DOMAIN s : i < j /\ s[i].key = s[j].key => s[i].value < s[j].value
  <2> DEFINE s == Stated(all, l, d)
             n == Cardinality(Claimed(all[d]))
             claims == TopClaims(all[d])
             one(i) == FactOf(d, all[d], claims[i], 1)
  <2>1. /\ n \in Nat /\ DOMAIN s = 1 .. n
        /\ \A i \in 1 .. n : s[i] \in Facts(Versions(all, l)) /\ s[i].from = all[d].date
        /\ \A i, j \in 1 .. n : i < j /\ s[i].key = s[j].key => s[i].value < s[j].value
    BY <1>4, StatedIs
  <2>2. DOMAIN s = DOMAIN claims /\ \A i \in DOMAIN s : s[i].key = one(i).key /\ s[i].value = one(i).value
    BY DEF Stated, FactOf
  <2>3. ValuesOf(all, k, d) = {f.value : f \in {x \in {one(i) : i \in DOMAIN claims} : x.key = k}}
    BY DEF ValuesOf
  <2> HIDE DEF s, n, claims, one
  <2>4. \A v : v \in ValuesOf(all, k, d) <=> \E i \in DOMAIN s : s[i].key = k /\ s[i].value = v
    BY <2>2, <2>3
  <2>5. \A i \in DOMAIN s : s[i].value \in Nat
    BY <2>1 DEF Facts
  <2> QED BY <2>1, <2>4, <2>5 DEF s
<1>5. ASSUME NEW p \in P
      PROVE  /\ e[p].from = all[docs[p[1]]].date /\ e[p].value \in Nat
             /\ e[p].key = k => e[p].value \in ValuesOf(all, k, docs[p[1]])
  <2> DEFINE d == docs[p[1]]
  <2>1. d \in DOMAIN all /\ e[p] = Stated(all, l, d)[p[2]] /\ p[2] \in DOMAIN Stated(all, l, d)
    BY <1>1, <1>2, <1>3
  <2> HIDE DEF d
  <2>2. /\ e[p].from = all[d].date /\ e[p].value \in Nat
        /\ e[p].key = k => e[p].value \in ValuesOf(all, k, d)
    BY <1>4, <2>1
  <2> QED BY <2>2 DEF d
<1>6. ASSUME NEW m \in DOMAIN docs, NEW v \in ValuesOf(all, k, docs[m])
      PROVE  SaidIn(Of(P, e, k), e, m, v)
  <2> DEFINE d == docs[m]
  <2>1. d \in DOMAIN all /\ v \in ValuesOf(all, k, d)
    BY <1>3
  <2> HIDE DEF d
  <2>2. PICK i \in DOMAIN Stated(all, l, d) : Stated(all, l, d)[i].key = k /\ Stated(all, l, d)[i].value = v
    BY <1>4, <2>1
  <2>3. <<m, i>> \in P /\ <<m, i>>[1] = m /\ <<m, i>>[2] = i
    BY <1>1, <2>2 DEF d
  <2>4. e[<<m, i>>] = Stated(all, l, d)[i]
    BY <1>2, <2>3 DEF d
  <2> QED BY <2>2, <2>3, <2>4 DEF SaidIn, Of
<1>7. ASSUME NEW p \in P, NEW q \in P, e[p].key = k, e[q].key = k, p[1] = q[1], p = q \/ Precedes(p, q)
      PROVE  e[p].value <= e[q].value
  <2>1. CASE p = q
    BY <1>5, <2>1
  <2>2. CASE p # q
    <3> DEFINE d == docs[p[1]]
    <3>1. /\ d \in DOMAIN all
          /\ e[p] = Stated(all, l, d)[p[2]] /\ p[2] \in DOMAIN Stated(all, l, d)
          /\ e[q] = Stated(all, l, d)[q[2]] /\ q[2] \in DOMAIN Stated(all, l, d)
      BY <1>1, <1>2, <1>3, <1>7
    <3>2. p[2] < q[2]
      BY <1>1, <1>7, <2>2 DEF Precedes
    <3> HIDE DEF d
    <3>3. e[p].value < e[q].value
      BY <1>4, <1>7, <3>1, <3>2
    <3> QED BY <1>5, <3>3
  <2> QED BY <2>1, <2>2
<1>8. \A p \in P : p[1] \in DOMAIN docs /\ p[1] \in Nat /\ p[2] \in Nat /\ p = <<p[1], p[2]>>
  BY <1>1
<1> QED BY <1>5, <1>6, <1>7, <1>8 DEF docs, e, P

\* The places at which a key is spoken of, and the documents that do.
LEMMA SpokenOf ==
    ASSUME NEW all, NEW l, Readable(all), NEW k, NEW t \in Nat \ {0}
    PROVE  LET P == Places(all, l)
               e == Words(all, l)
               values(n) == ValuesOf(all, k, ByDate(all)[n])
           IN  /\ \A p \in Before(P, e, k, t) : p[1] \in KnownBy(all, k, t) /\ e[p].value \in values(p[1])
               /\ \A p \in After(P, e, k, t) : p[1] \in KnownLater(all, k, t) /\ e[p].value \in values(p[1])
               /\ \A n \in KnownBy(all, k, t) : \A v \in values(n) :
                    SaidIn(Before(P, e, k, t), e, n, v)
               /\ \A n \in KnownLater(all, k, t) : \A v \in values(n) :
                    SaidIn(After(P, e, k, t), e, n, v)
               /\ KnownBy(all, k, t) \subseteq Nat /\ KnownLater(all, k, t) \subseteq Nat
<1> DEFINE docs == ByDate(all)
           e == Words(all, l)
           P == Places(all, l)
           values(n) == ValuesOf(all, k, docs[n])
<1>1. /\ \A p \in P : /\ p[1] \in DOMAIN docs /\ p[1] \in Nat
                      /\ e[p].from = all[docs[p[1]]].date
                      /\ e[p].key = k => e[p].value \in values(p[1])
      /\ \A m \in DOMAIN docs : \A v \in values(m) : SaidIn(Of(P, e, k), e, m, v)
  <2>1. \A p \in P : /\ p[1] \in DOMAIN docs /\ p[1] \in Nat
                     /\ e[p].from = all[docs[p[1]]].date
                     /\ e[p].key = k => e[p].value \in values(p[1])
    BY PlacesHold
  <2>2. \A m \in DOMAIN docs : \A v \in values(m) : SaidIn(Of(P, e, k), e, m, v)
    BY PlacesHold
  <2> HIDE DEF docs, e, P, values
  <2> QED BY <2>1, <2>2
<1>2. DOMAIN docs \subseteq Nat
  BY PlacesAre
<1>3. /\ KnownBy(all, k, t) = {n \in DOMAIN docs : all[docs[n]].date \in 1 .. t /\ values(n) # {}}
      /\ KnownLater(all, k, t) = {n \in DOMAIN docs : all[docs[n]].date > t /\ values(n) # {}}
  BY DEF KnownBy, KnownLater
<1> HIDE DEF docs, e, P, values
<1>6. /\ \A p \in Before(P, e, k, t) : p[1] \in KnownBy(all, k, t) /\ e[p].value \in values(p[1])
      /\ \A p \in After(P, e, k, t) : p[1] \in KnownLater(all, k, t) /\ e[p].value \in values(p[1])
  BY <1>1, <1>3 DEF Before, After
<1>7. /\ \A n \in KnownBy(all, k, t) : \A v \in values(n) : SaidIn(Before(P, e, k, t), e, n, v)
      /\ \A n \in KnownLater(all, k, t) : \A v \in values(n) : SaidIn(After(P, e, k, t), e, n, v)
  BY <1>1, <1>3 DEF Before, After, SaidIn, Of
<1> QED BY <1>2, <1>3, <1>6, <1>7 DEF docs, e, P, values

\* The newest word by a day stands in the newest document known, and is the
\* greatest it says; the next word is the least of the next document.
LEMMA NewestIsLast ==
    ASSUME NEW all, NEW l, Readable(all), NEW k, NEW t \in Nat \ {0}, NEW p
    PROVE  LET P == Places(all, l)
               e == Words(all, l)
               values(n) == ValuesOf(all, k, ByDate(all)[n])
           IN  /\ LastIn(Before(P, e, k, t), p) =>
                    Max(values(Max(KnownBy(all, k, t)))) = e[p].value
               /\ FirstIn(After(P, e, k, t), p) =>
                    Min(values(Min(KnownLater(all, k, t)))) = e[p].value
<1> DEFINE docs == ByDate(all)
           e == Words(all, l)
           P == Places(all, l)
           values(n) == ValuesOf(all, k, docs[n])
           B == Before(P, e, k, t)
           A == After(P, e, k, t)
           KB == KnownBy(all, k, t)
           KA == KnownLater(all, k, t)
<1>1. /\ \A q \in B : q[1] \in KB /\ e[q].value \in values(q[1])
      /\ \A q \in A : q[1] \in KA /\ e[q].value \in values(q[1])
      /\ \A n \in KB : \A v \in values(n) : SaidIn(B, e, n, v)
      /\ \A n \in KA : \A v \in values(n) : SaidIn(A, e, n, v)
      /\ KB \subseteq Nat /\ KA \subseteq Nat
  <2>1. \A q \in B : q[1] \in KB /\ e[q].value \in values(q[1])
    BY SpokenOf
  <2>2. \A q \in A : q[1] \in KA /\ e[q].value \in values(q[1])
    BY SpokenOf
  <2>3. \A n \in KB : \A v \in values(n) : SaidIn(B, e, n, v)
    BY SpokenOf
  <2>4. \A n \in KA : \A v \in values(n) : SaidIn(A, e, n, v)
    BY SpokenOf
  <2>5. KB \subseteq Nat /\ KA \subseteq Nat
    BY SpokenOf
  <2> HIDE DEF KA, KB, A, B, e, values
  <2> QED BY <2>1, <2>2, <2>3, <2>4, <2>5
<1>2. /\ \A q \in P : q[1] \in Nat /\ q[2] \in Nat /\ e[q].value \in Nat
      /\ \A q, r \in P : /\ e[q].key = k /\ e[r].key = k /\ q[1] = r[1]
                         /\ q = r \/ Precedes(q, r)
                         => e[q].value <= e[r].value
  <2>1. \A q \in P : q[1] \in Nat /\ q[2] \in Nat /\ e[q].value \in Nat
    BY PlacesHold
  <2>2. \A q, r \in P : /\ e[q].key = k /\ e[r].key = k /\ q[1] = r[1]
                        /\ q = r \/ Precedes(q, r)
                        => e[q].value <= e[r].value
    BY PlacesHold
  <2> HIDE DEF P, e
  <2> QED BY <2>1, <2>2
<1>3. /\ \A q \in B : q \in P /\ e[q].key = k
      /\ \A q \in A : q \in P /\ e[q].key = k
  BY DEF Before, After
<1>4. \A n : values(n) = ValuesOf(all, k, ByDate(all)[n])
  OBVIOUS
<1> HIDE DEF docs, e, P, values, B, A, KB, KA
<1>6. (\A n \in KB : values(n) \subseteq Nat) /\ (\A n \in KA : values(n) \subseteq Nat)
  BY <1>1, <1>2, <1>3 DEF SaidIn
<1>7. ASSUME LastIn(B, p) PROVE Max(values(Max(KB))) = e[p].value
  <2>1. p \in B /\ \A q \in B : q = p \/ Precedes(q, p)
    BY <1>7 DEF LastIn
  <2>2. \A n \in KB : p[1] >= n
    <3> SUFFICES ASSUME NEW n \in KB PROVE p[1] >= n
      OBVIOUS
    <3>1. PICK m \in B : m[1] = n
      <4>1. values(n) # {}
        BY DEF KB, KnownBy, values, docs
      <4> QED BY <1>1, <4>1 DEF SaidIn
    <3> QED BY <1>2, <1>3, <2>1, <3>1 DEF Precedes
  <2>3. Max(KB) = p[1] /\ p[1] \in KB
    BY <1>1, <2>1, <2>2, GreatestIs
  <2> DEFINE n == p[1]
             x == e[p].value
             S == values(n)
  <2>4. \A v \in S : x >= v
    <3> SUFFICES ASSUME NEW v \in S PROVE x >= v
      OBVIOUS
    <3>1. PICK q \in B : q[1] = n /\ e[q].value = v
      BY <1>1, <2>3 DEF SaidIn
    <3>2. e[q].value <= e[p].value
      BY <1>2, <1>3, <2>1, <3>1
    <3> QED BY <1>2, <1>3, <2>1, <3>1, <3>2
  <2>5. S \in SUBSET Nat /\ x \in S
    BY <1>1, <1>6, <2>1, <2>3
  <2> HIDE DEF S, x
  <2>6. Max(S) = x
    BY <2>4, <2>5, GreatestIs
  <2> QED BY <2>3, <2>6 DEF S, x
<1>8. ASSUME FirstIn(A, p) PROVE Min(values(Min(KA))) = e[p].value
  <2>1. p \in A /\ \A q \in A : q = p \/ Precedes(p, q)
    BY <1>8 DEF FirstIn
  <2>2. \A n \in KA : p[1] <= n
    <3> SUFFICES ASSUME NEW n \in KA PROVE p[1] <= n
      OBVIOUS
    <3>1. PICK m \in A : m[1] = n
      <4>1. values(n) # {}
        BY DEF KA, KnownLater, values, docs
      <4> QED BY <1>1, <4>1 DEF SaidIn
    <3> QED BY <1>2, <1>3, <2>1, <3>1 DEF Precedes
  <2>3. Min(KA) = p[1] /\ p[1] \in KA
    BY <1>1, <2>1, <2>2, GreatestIs
  <2> DEFINE n == p[1]
             x == e[p].value
             S == values(n)
  <2>4. \A v \in S : x <= v
    <3> SUFFICES ASSUME NEW v \in S PROVE x <= v
      OBVIOUS
    <3>1. PICK q \in A : q[1] = n /\ e[q].value = v
      BY <1>1, <2>3 DEF SaidIn
    <3>2. e[p].value <= e[q].value
      BY <1>2, <1>3, <2>1, <3>1
    <3> QED BY <1>2, <1>3, <2>1, <3>1, <3>2
  <2>5. S \in SUBSET Nat /\ x \in S
    BY <1>1, <1>6, <2>1, <2>3
  <2> HIDE DEF S, x
  <2>6. Min(S) = x
    BY <2>4, <2>5, GreatestIs
  <2> QED BY <2>3, <2>6 DEF S, x
<1> QED BY <1>4, <1>7, <1>8 DEF e, P, B, A, KB, KA

(* The facts of a store tell of any key and day what its documents tell.    *)
LEMMA PastIs ==
    ASSUME NEW all, NEW l, Readable(all), NEW k, NEW t \in Nat \ {0}
    PROVE  PastIsTold(all, FactsFor(all, l), k, t)
<1> DEFINE fs == FactsFor(all, l)
           e == Words(all, l)
           P == Places(all, l)
           B == Before(P, e, k, t)
           A == After(P, e, k, t)
           KB == KnownBy(all, k, t)
           KA == KnownLater(all, k, t)
           docs == ByDate(all)
           held == {fs[i].value : i \in {x \in AsOf(fs, t) : fs[x].key = k}}
           now == Active(fs, k, t)
<1>1. PastTold(P, e, fs, k, t)
  BY FactsAreTold DEF Told, Places
<1>2. held = {fs[i].value : i \in now}
  BY DEF AsOf, Active
<1>3. /\ \A q \in B : q[1] \in KB
      /\ \A q \in A : q[1] \in KA
      /\ \A n \in KB : \A v \in ValuesOf(all, k, docs[n]) : SaidIn(B, e, n, v)
  <2>1. \A q \in B : q[1] \in KB
    BY SpokenOf
  <2>2. \A q \in A : q[1] \in KA
    BY SpokenOf
  <2>3. \A n \in KB : \A v \in ValuesOf(all, k, docs[n]) : SaidIn(B, e, n, v)
    BY SpokenOf
  <2> HIDE DEF KB, KA, A, B, e
  <2> QED BY <2>1, <2>2, <2>3
<1>4. \A n \in KB : ValuesOf(all, k, docs[n]) # {}
  BY DEF KnownBy
<1>5. \A p : /\ LastIn(B, p) => Max(ValuesOf(all, k, docs[Max(KB)])) = e[p].value
             /\ FirstIn(A, p) => Min(ValuesOf(all, k, docs[Min(KA)])) = e[p].value
  BY NewestIsLast
<1> HIDE DEF fs, e, P, docs, held, now
<1>6. KB = {} <=> B = {}
  <2> HIDE DEF KB, B
  <2> QED BY <1>3, <1>4 DEF SaidIn
<1>7. CASE KB = {}
  <2>1. held = {}
    BY <1>1, <1>2, <1>6, <1>7 DEF PastTold, now
  <2> QED BY <1>7, <2>1 DEF PastIsTold, held, fs
<1>8. CASE KB # {}
  <2>1. PICK p : /\ LastIn(B, p) /\ \A i \in now : fs[i].value = e[p].value
                 /\ now = {} => \E r : FirstIn(A, r) /\ e[r].value = e[p].value
    BY <1>1, <1>6, <1>8 DEF PastTold, now
  <2> DEFINE newest == Max(ValuesOf(all, k, docs[Max(KB)]))
  <2>2. newest = e[p].value
    BY <1>5, <2>1
  <2> HIDE DEF newest
  <2>3. CASE now # {}
    <3>1. held = {newest}
      BY <1>2, <2>1, <2>2, <2>3
    <3> QED BY <1>8, <3>1 DEF PastIsTold, held, fs, newest, docs
  <2>4. CASE now = {}
    <3>1. PICK r : FirstIn(A, r) /\ e[r].value = e[p].value
      BY <2>1, <2>4
    <3>2. KA # {} /\ Min(ValuesOf(all, k, docs[Min(KA)])) = newest
      BY <1>3, <1>5, <2>2, <3>1 DEF FirstIn
    <3>3. held = {}
      BY <1>2, <2>4
    <3> QED BY <1>8, <3>2, <3>3 DEF PastIsTold, held, fs, newest, docs
  <2> QED BY <2>3, <2>4
<1> QED BY <1>7, <1>8

-----------------------------------------------------------------------------
(***************************************************************************)
(* The invariant: the facts are those of the records last saved, and what  *)
(* is not dirty has not changed since.                                     *)
(***************************************************************************)

Finite(docs) == \A d \in DOMAIN docs : FiniteChunks(docs[d])

\* The facts were made of the records saved.
Recounted ==
    /\ IsAFunction(saved.records) /\ Finite(saved.records)
    /\ \E l : facts = FactsFor(saved.records, l)
    /\ \A d \in DOMAIN records \ dirty : d \in DOMAIN saved.records /\ records[d] = saved.records[d]

FactsInv ==
    /\ StatesInv
    /\ Finite(sources) /\ Finite(records)
    /\ IsAFunction(records)
    /\ (saved = None /\ DOMAIN records = {}) \/ Recounted

LEMMA FactsInit == Init => FactsInv
<1> SUFFICES ASSUME Init PROVE FactsInv
  OBVIOUS
<1>1. StatesInv
  BY StatesInit
<1>2. sources = <<>> /\ records = <<>> /\ saved = None
  BY DEF Init
<1>3. Finite(sources) /\ Finite(records) /\ IsAFunction(records) /\ DOMAIN records = {}
  BY <1>2 DEF Finite, IsAFunction
<1> QED BY <1>1, <1>2, <1>3 DEF FactsInv

LEMMA UpsertKeepsFacts ==
    ASSUME FactsInv, NEW d \in Docs, NEW doc \in Contents[d], Upsert(d, doc)
    PROVE  FactsInv'
<1>1. StatesInv'
  BY UpsertKeepsStates DEF FactsInv
<1>2. /\ sources' = With(sources, d, doc) /\ dirty' = dirty \cup {d}
      /\ records' = records /\ facts' = facts /\ saved' = saved
  BY DEF Upsert
<1>3. /\ DOMAIN sources' = DOMAIN sources \cup {d}
      /\ \A x \in DOMAIN sources' : sources'[x] = IF x = d THEN doc ELSE sources[x]
  BY <1>2 DEF With
<1>4. FiniteChunks(doc)
  BY FiniteAssumption DEF FiniteChunks
<1>5. Finite(sources')
  BY <1>3, <1>4 DEF FactsInv, Finite
<1>6. Recounted => Recounted'
  BY <1>2 DEF Recounted
<1> QED BY <1>1, <1>2, <1>5, <1>6 DEF FactsInv

LEMMA RemoveKeepsFacts ==
    ASSUME FactsInv, NEW d \in Docs, RemoveDocument(d)
    PROVE  FactsInv'
<1>1. StatesInv'
  BY RemoveKeepsStates DEF FactsInv
<1>2. /\ sources' = Without(sources, {d}) /\ records' = Without(records, {d}) /\ dirty' = dirty \ {d}
      /\ facts' = facts /\ saved' = saved
  BY DEF RemoveDocument
<1>3. /\ DOMAIN sources' = DOMAIN sources \ {d} /\ DOMAIN records' = DOMAIN records \ {d}
      /\ \A x \in DOMAIN sources' : sources'[x] = sources[x]
      /\ \A x \in DOMAIN records' : records'[x] = records[x]
      /\ IsAFunction(records')
  BY <1>2 DEF Without, IsAFunction
<1>4. Finite(sources') /\ Finite(records')
  BY <1>3 DEF FactsInv, Finite
<1>5. Recounted => Recounted'
  BY <1>2, <1>3 DEF Recounted
<1>6. saved = None /\ DOMAIN records = {} => saved' = None /\ DOMAIN records' = {}
  BY <1>2, <1>3
<1> QED BY <1>1, <1>2, <1>3, <1>4, <1>5, <1>6 DEF FactsInv

LEMMA RefreshKeepsFacts ==
    ASSUME FactsInv, NEW order \in Orders, Refresh(order)
    PROVE  FactsInv'
<1>1. StatesInv'
  BY RefreshKeepsStates DEF FactsInv
<1>2. /\ records' = Over([d \in dirty |-> sources[d]], records)
      /\ sources' = sources /\ dirty' = {}
      /\ facts' = FactsFor(records', life')
      /\ saved' = [records |-> records', metas |-> life'.metas]
  BY DEF Refresh
<1>3. /\ DOMAIN records' = DOMAIN records \cup dirty
      /\ \A d \in dirty : records'[d] = sources[d]
      /\ \A d \in DOMAIN records \ dirty : records'[d] = records[d]
      /\ IsAFunction(records')
  BY <1>2 DEF Over, IsAFunction
<1>4. dirty \subseteq DOMAIN sources
  BY DEF FactsInv, StatesInv, KnowledgeInv, PendingKnown
<1>5. Finite(records') /\ Finite(sources')
  BY <1>2, <1>3, <1>4 DEF FactsInv, Finite
<1>6. saved'.records = records'
  BY <1>2
<1>7. Recounted'
  BY <1>2, <1>3, <1>5, <1>6 DEF Recounted
<1> QED BY <1>1, <1>3, <1>5, <1>7 DEF FactsInv

LEMMA ReopenKeepsFacts ==
    ASSUME FactsInv, NEW order \in Orders, Reopen(order)
    PROVE  FactsInv'
<1>1. StatesInv'
  BY ReopenKeepsStates DEF FactsInv
<1>2. /\ sources' = RestoredAll(saved.records) /\ records' = saved.records /\ dirty' = {}
      /\ facts' = FactsFor(saved.records, life') /\ saved' = saved /\ saved # None
  BY DEF Reopen
<1>3. Recounted
  BY <1>2 DEF FactsInv
<1>4. Known(saved.records)
  BY <1>2 DEF FactsInv, StatesInv, KnowledgeInv, SavedIsSound
<1>5. DOMAIN sources' = DOMAIN saved.records
      /\ \A d \in DOMAIN sources' : sources'[d].chunks = saved.records[d].chunks
  <2>1. \A d \in DOMAIN saved.records : saved.records[d] \in SourceDocuments
    BY <1>4 DEF Known
  <2> QED BY <1>2, <2>1 DEF RestoredAll, Restored, SourceDocuments
<1>6. Finite(sources')
  BY <1>3, <1>5 DEF Recounted, Finite, FiniteChunks
<1>7. Recounted' /\ Finite(records') /\ IsAFunction(records')
  BY <1>2, <1>3 DEF Recounted
<1> QED BY <1>1, <1>2, <1>6, <1>7 DEF FactsInv

LEMMA FactsNext == FactsInv /\ [Next]_vars => FactsInv'
<1> SUFFICES ASSUME FactsInv, [Next]_vars PROVE FactsInv'
  OBVIOUS
<1>1. ASSUME NEW d \in Docs, RemoveDocument(d) PROVE FactsInv'
  BY <1>1, RemoveKeepsFacts
<1>2. ASSUME NEW d \in Docs, NEW doc \in Contents[d], Upsert(d, doc) PROVE FactsInv'
  BY <1>2, UpsertKeepsFacts
<1>3. ASSUME NEW order \in Orders, Refresh(order) PROVE FactsInv'
  BY <1>3, RefreshKeepsFacts
<1>4. ASSUME NEW order \in Orders, Reopen(order) PROVE FactsInv'
  BY <1>4, ReopenKeepsFacts
<1>5. CASE UNCHANGED vars
  <2>1. StatesInv'
    BY <1>5, StatesNext DEF FactsInv
  <2>2. Recounted => Recounted'
    BY <1>5 DEF vars, Recounted
  <2> QED BY <1>5, <2>1, <2>2 DEF vars, FactsInv
<1> QED BY <1>1, <1>2, <1>3, <1>4, <1>5 DEF Next

(* The facts of a store are those of its records as last refreshed.       *)
THEOREM FactsInvHolds == Spec => []FactsInv
<1> QED BY FactsInit, FactsNext, PTL DEF Spec

\* With nothing pending the facts are those of the records.
LEMMA SettledIsRecounted ==
    ASSUME FactsInv, Settled, DOMAIN records # {}
    PROVE  Readable(records) /\ \E l : facts = FactsFor(records, l)
<1>1. Recounted
  BY DEF FactsInv
<1>2. MadeOf(sources)
  BY SettledIsBase DEF FactsInv, Settled
<1>3. dirty = {} /\ DOMAIN records = DOMAIN sources /\ DOMAIN records = DOMAIN saved.records
  BY <1>2 DEF Settled, MadeOf
<1>4. \A d \in DOMAIN records : records[d] = saved.records[d]
  BY <1>1, <1>3 DEF Recounted
<1>5. records = saved.records
  BY <1>1, <1>3, <1>4 DEF FactsInv, Recounted, IsAFunction
<1>6. Known(records) /\ IsFiniteSet(DOMAIN records)
  BY <1>3 DEF FactsInv, StatesInv, KnowledgeInv, SourcesKnown
<1> QED BY <1>1, <1>5, <1>6 DEF Recounted, Readable, Stored, FactsInv, Finite

(* Asked of any day, the facts tell no two values of a key and none but the *)
(* newest known by then; they tell nothing only when nothing was known, or  *)
(* when that value was stated again later and the fact moved on.            *)
THEOREM FactsTellThePastHolds == Spec => []FactsTellThePast
<1>1. FactsInv => FactsTellThePast
  <2> DEFINE docs == ByDate(records)
             stated(d) == {FactOf(d, records[d], TopClaims(records[d])[i], 1) :
                             i \in DOMAIN TopClaims(records[d])}
             all == UNION {stated(d) : d \in DOMAIN records}
  <2>1. SUFFICES ASSUME FactsInv, Settled, NEW k \in {f.key : f \in all},
                        NEW t \in {f.from : f \in all} \ {0}
                 PROVE  PastIsTold(records, facts, k, t)
    BY DEF FactsTellThePast, PastIsTold, ValuesOf, KnownBy, KnownLater
  <2>2. DOMAIN records # {}
    OBVIOUS
  <2>3. Readable(records) /\ \E l : facts = FactsFor(records, l)
    BY <2>1, <2>2, SettledIsRecounted
  <2>4. t \in Nat \ {0}
    <3>1. PICK d \in DOMAIN records : \E f \in stated(d) : t = f.from
      OBVIOUS
    <3>2. t = records[d].date
      BY <3>1 DEF FactOf
    <3>3. records[d].date \in Nat
      BY <2>3 DEF Readable, Stored, Known, SourceDocuments
    <3> QED BY <3>2, <3>3
  <2> HIDE DEF all
  <2> QED BY <2>3, <2>4, PastIs
<1> QED BY <1>1, FactsInvHolds, PTL
=============================================================================
