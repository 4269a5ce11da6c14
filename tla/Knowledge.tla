------------------------------ MODULE Knowledge ------------------------------
(* What a store derives from its documents (src/pipeline.rs): documents are   *)
(* put in and taken out between refreshes; a refresh rebuilds the records of  *)
(* the dirty ones, moves the versions of their chunks on, and makes facts and *)
(* relations anew; records and versions are saved and loaded again.           *)
EXTENDS ChunkLifecycle, SemanticRelations, TemporalFacts

CONSTANTS Docs,      \* document ids
          Contents,  \* what an upsert of an id may bring
          Settings,  \* SupersessionOptions a store may have
          Orders,    \* what an unordered map may put first
          MaxChanges \* bound: upserts and removals

Chunks == [span : Nat, text : Nat, heading : Nat, terms : SUBSET Nat, entities : SUBSET Nat]

Sentences ==
  [heading : BOOLEAN, claims : Seq([subject : STRING, predicate : STRING, object : Nat])]

\* SourceDocument: what it holds, where it comes from and what it says of itself.
SourceDocuments ==
  [chunks : SUBSET Chunks, headings : Seq(Nat), sentences : Seq(Sentences), term : Nat,
   group : Nat, date : Nat, kind : {"document", "memory"}, scope : Nat, user : Nat,
   parent : Nat, concept : Nat, cue : BOOLEAN, supersedes : Nat]

ASSUME KnowledgeAssumption ==
  /\ Docs \subseteq Nat \ {0} /\ MaxChanges \in Nat
  /\ \A d \in Docs : Contents[d] \subseteq SourceDocuments
  /\ \A s \in Settings : ValidOptions(s)

\* None is no chunk.
ASSUME NoneAssumption == \A d \in Docs : \A doc \in Contents[d] : None \notin Ids(d, doc.chunks)

\* A document has finitely many chunks, each with finitely many terms.
ASSUME FiniteAssumption ==
  \A d \in Docs : \A doc \in Contents[d] :
    IsFiniteSet(doc.chunks) /\ \A c \in doc.chunks : IsFiniteSet(c.terms \cup c.entities)

\* An order gives every document a place of its own.
ASSUME OrdersAssumption ==
  \A o \in Orders : \A x, y \in Docs : o[x] \in Nat /\ (o[x] = o[y] => x = y)

VARIABLES options,    \* the supersession settings
          sources,    \* source_docs
          records,    \* records: of the documents as last refreshed
          dirty,      \* dirty_docs
          tombstones, \* ids removed and not brought back, never cleared
          life,       \* chunk_lifecycle and chunk_latest_by_lineage
          facts,      \* temporal_facts
          states,     \* the document states of semantic_relations
          saved,      \* records.json
          changes

vars == <<options, sources, records, dirty, tombstones, life, facts, states, saved, changes>>

ChunksIn(all, d) == IF d \in DOMAIN all THEN all[d].chunks ELSE {}

\* A fact carries the version of the chunk it was read from.
FactsFor(all, lifecycle) ==
  LET version(d) == LET id == ChunkId(d, SourceChunk(all[d]))
                    IN  IF id \in DOMAIN lifecycle.metas THEN lifecycle.metas[id].version ELSE 1
  IN  FactsOf(all, version)

\* Nothing changed since the last refresh.
Settled == dirty = {} /\ DOMAIN records = DOMAIN sources /\ DOMAIN states = DOMAIN sources

\* The metadata that names a replaced document is not restored.
Restored_DropsLink(record) == [record EXCEPT !.concept = Topic(record), !.supersedes = 0]

\* source_document_from_record: the concept of a document is not in its record.
Restored(record) == [record EXCEPT !.concept = Topic(record)]

RestoredAll(all) == [d \in DOMAIN all |-> Restored(all[d])]

Init ==
  /\ options \in Settings
  /\ sources = <<>> /\ records = <<>> /\ saved = None
  /\ dirty = {} /\ tombstones = {}
  /\ life = EmptyLifecycle /\ facts = <<>> /\ states = <<>>
  /\ changes = 0

\* IndexStore::upsert.
Upsert(d, doc) ==
  /\ changes < MaxChanges
  /\ sources' = With(sources, d, doc)
  /\ dirty' = dirty \cup {d}
  /\ tombstones' = tombstones \ {d}
  /\ changes' = changes + 1
  /\ UNCHANGED <<options, records, life, facts, states, saved>>

\* IndexStore::remove: the record goes at once, its versions at the refresh.
RemoveDocument(d) ==
  /\ changes < MaxChanges
  /\ d \in DOMAIN sources
  /\ sources' = Without(sources, {d})
  /\ records' = Without(records, {d})
  /\ dirty' = dirty \ {d}
  /\ tombstones' = tombstones \cup {d}
  /\ changes' = changes + 1
  /\ UNCHANGED <<options, life, facts, states, saved>>

\* The versions after a refresh: dirty documents first, then tombstones.
Refreshed(lifecycle) ==
  LET moved == FoldSet(LAMBDA d, l : UpdateChunks(l, d, ChunksIn(records, d), sources[d].chunks),
                       lifecycle, dirty)
  IN  FoldSet(LAMBDA d, l : RemoveChunks(l, d), moved, tombstones)

\* prepare_pending_changes and persist_compatibility_state.
Refresh(order) ==
  /\ ~Settled
  /\ records' = Over([d \in dirty |-> sources[d]], records)
  /\ life' = Refreshed(life)
  /\ dirty' = {}
  /\ facts' = FactsFor(records', life')
  /\ states' = DocumentStates(sources, options, order)
  /\ saved' = [records |-> records', metas |-> life'.metas]
  /\ UNCHANGED <<options, sources, tombstones, changes>>

\* load_semantic_state and build_with_store_paths.
Reopen(order) ==
  /\ saved # None
  /\ sources' = RestoredAll(saved.records) /\ records' = saved.records
  /\ dirty' = {} /\ tombstones' = {}
  /\ LET metas == Bootstrapped(saved.metas, [d \in DOMAIN saved.records |-> saved.records[d].chunks]) IN
     \E latest \in LatestChoices(metas) : life' = [metas |-> metas, latest |-> latest]
  /\ facts' = FactsFor(saved.records, life')
  /\ states' = DocumentStates(RestoredAll(saved.records), options, order)
  /\ UNCHANGED <<options, saved, changes>>

Next ==
  \/ \E d \in Docs : RemoveDocument(d) \/ \E doc \in Contents[d] : Upsert(d, doc)
  \/ \E order \in Orders : Refresh(order) \/ Reopen(order)

Spec == Init /\ [][Next]_vars
-----------------------------------------------------------------------------
(* Properties *)

(* Every chunk of a refreshed document is remembered, under its own document  *)
(* and lineage, and is a latest one (so that the document counts as current), *)
(* however often its text went back and forth, whatever was removed and put   *)
(* back in between, and whichever latest chunk a restart chose.               *)
CurrentChunksAreLatest ==
  Settled =>
    \A d \in DOMAIN records : \A c \in records[d].chunks :
      /\ ChunkId(d, c) \in DOMAIN life.metas
      /\ LET meta == life.metas[ChunkId(d, c)]
         IN  meta.latest /\ meta.doc = d /\ meta.lineage = Lineage(d, c)
      /\ DocumentIsLatest(life, d, records[d].chunks)

(* Versions count: a chunk that replaced another stands one version above it, *)
(* in the same lineage, so that what replaced what never runs in a circle.    *)
VersionsCount ==
  \A id \in DOMAIN life.metas :
    LET old == life.metas[id].supersedes IN
    old # None /\ old \in DOMAIN life.metas =>
      /\ life.metas[id].version = life.metas[old].version + 1
      /\ life.metas[id].lineage = life.metas[old].lineage

(* A lineage has one latest chunk.                                            *)
OneLatestPerLineage ==
  \A x, y \in DOMAIN life.metas :
    life.metas[x].latest /\ life.metas[y].latest /\ life.metas[x].lineage = life.metas[y].lineage
      => x = y

\* The documents that replace d by a link of their own.
Replacements(d) ==
  {e \in DOMAIN sources : ExplicitLink(e, sources) /\ sources[e].supersedes = d}

(* Only a link hides the newest word on a subject, and a link always does:    *)
(* the document of the last claim of a scope, subject and predicate stays     *)
(* visible unless another document names it, as does a document that says     *)
(* anything besides a claim that was replaced; a document named by a link is  *)
(* superseded by one that names it, whatever conflicts follow.                *)
NewestWordStands ==
  Settled /\ options.enabled =>
    LET claims == SortedClaims(sources)
        newest == {claims[i].doc : i \in {n \in DOMAIN claims :
                     \A m \in n + 1 .. Len(claims) : ClaimKey(claims[m]) # ClaimKey(claims[n])}}
        text(d) == {i \in DOMAIN sources[d].sentences : ~sources[d].sentences[i].heading}
        speaking == {d \in DOMAIN sources :
                       Cardinality(ExtractClaims(d, sources[d])) # 1 \/ Cardinality(text(d)) > 1}
    IN  \A d \in DOMAIN states :
          IF Replacements(d) # {}
          THEN states[d].status = "Superseded" /\ states[d].by \in Replacements(d)
          ELSE d \in newest \cup speaking => states[d].status # "Superseded"

(* A restart leaves every document of a group the status it had, though its   *)
(* claims are extracted again from documents made of records, which do not    *)
(* keep the concept (without a group the concept may be its scope, and two    *)
(* services under one generic heading then share theirs).                     *)
StatesSurviveReopen ==
  Settled /\ saved # None /\ (\A d \in DOMAIN sources : sources[d].group # 0) =>
    \A order \in Orders :
      LET again == DocumentStates(RestoredAll(saved.records), options, order)
      IN  \A d \in DOMAIN states : again[d].status = states[d].status

(* as_of tells no two values of one key, and none but the newest known by     *)
(* then; it tells nothing only when nothing was known yet, or when that value *)
(* was stated again later and the fact moved to the later date.               *)
FactsTellThePast ==
  LET docs == ByDate(records)
      stated(d) == {FactOf(d, records[d], TopClaims(records[d])[i], 1) : i \in DOMAIN TopClaims(records[d])}
      all == UNION {stated(d) : d \in DOMAIN records}
      values(k, d) == {f.value : f \in {x \in stated(d) : x.key = k}}
      known(k, t) == {n \in DOMAIN docs : records[docs[n]].date \in 1 .. t /\ values(k, docs[n]) # {}}
      later(k, t) == {n \in DOMAIN docs : records[docs[n]].date > t /\ values(k, docs[n]) # {}}
  IN  Settled =>
      \A k \in {f.key : f \in all}, t \in {f.from : f \in all} \ {0} :
        LET active == {facts[i].value : i \in {x \in AsOf(facts, t) : facts[x].key = k}} IN
        IF known(k, t) = {} THEN active = {}
        ELSE LET newest == Max(values(k, docs[Max(known(k, t))]))
             IN  \/ active = {newest}
                 \/ /\ active = {} /\ later(k, t) # {}
                    /\ Min(values(k, docs[Min(later(k, t))])) = newest
=============================================================================
