---------------------------- MODULE ChunkLifecycle ----------------------------
(* The versions of chunks (src/pipeline.rs): what a store remembers of every  *)
(* chunk it has held and which chunk is the latest of its lineage.  A chunk   *)
(* id digests the document, the span and the text; the lineage key leaves the *)
(* text out, so an edit in place is a new chunk of an old lineage.            *)
EXTENDS Integers, FiniteSets, FiniteSetsExt

CONSTANT None  \* no chunk, no record

\* Maps: the entries of f before those of g, f with v at x, f without S.
Over(f, g) == [x \in DOMAIN f \cup DOMAIN g |-> IF x \in DOMAIN f THEN f[x] ELSE g[x]]
With(f, x, v) == [y \in DOMAIN f \cup {x} |-> IF y = x THEN v ELSE f[y]]
Without(f, S) == [x \in DOMAIN f \ S |-> f[x]]

\* stable_chunk_id and chunk_lineage_key.
ChunkId(d, c) == <<d, c.span, c.text>>
Lineage(d, c) == <<d, c.span>>

Ids(d, chunks) == {ChunkId(d, c) : c \in chunks}
Lineages(d, chunks) == {Lineage(d, c) : c \in chunks}

\* ChunkLifecycleMeta of a chunk never seen before.
FreshMeta(d, c, version, supersedes) ==
  [doc |-> d, lineage |-> Lineage(d, c), version |-> version, latest |-> TRUE,
   supersedes |-> supersedes]

EmptyLifecycle == [metas |-> <<>>, latest |-> <<>>]

\* The latest chunk of the lineage of c, when it is still remembered.
Replaced(life, d, c) ==
  IF Lineage(d, c) \notin DOMAIN life.latest THEN None
  ELSE LET id == life.latest[Lineage(d, c)]
       IN  IF id \in DOMAIN life.metas THEN id ELSE None

\* Mutant: every chunk seen for the first time is version 1.
NewMeta_Restart(life, d, c) == FreshMeta(d, c, 1, Replaced(life, d, c))

\* The meta a chunk seen for the first time gets.
NewMeta(life, d, c) ==
  LET old == Replaced(life, d, c)
  IN  FreshMeta(d, c, IF old = None THEN 1 ELSE life.metas[old].version + 1, old)

\* Mutant: a chunk seen before is left as it is.
Kept_AsItIs(meta, present, retired) == [meta EXCEPT !.latest = @ /\ ~retired]

\* A chunk seen before: the latest again when the document has it.
Kept(meta, present, retired) == [meta EXCEPT !.latest = present \/ (@ /\ ~retired)]

\* update_chunk_lifecycle_for_doc: a chunk seen before is the latest again (the
\* one it takes over from is not touched); another replaces the latest of its
\* lineage; lineages of the previous record that are gone have none.
UpdateChunks(life, d, old, new) ==
  LET fresh == {c \in new : ChunkId(d, c) \notin DOMAIN life.metas}
      replaced == {Replaced(life, d, c) : c \in fresh}
      gone == {c \in old : Lineage(d, c) \notin Lineages(d, new)}
      retired == (replaced \cup Ids(d, gone)) \cap DOMAIN life.metas
      made == [id \in Ids(d, fresh) |-> NewMeta(life, d, CHOOSE c \in fresh : ChunkId(d, c) = id)]
      known == [id \in DOMAIN life.metas |->
                  Kept(life.metas[id], id \in Ids(d, new), id \in retired)]
      latest == [l \in Lineages(d, new) |-> ChunkId(d, CHOOSE c \in new : Lineage(d, c) = l)]
  IN  [metas |-> Over(made, known),
       latest |-> Over(latest, Without(life.latest, Lineages(d, gone)))]

\* remove_chunk_lifecycle_for_doc.
RemoveChunks(life, d) ==
  LET own == {id \in DOMAIN life.metas : life.metas[id].doc = d}
      ended == {l \in DOMAIN life.latest :
                  life.latest[l] \in own /\ life.metas[life.latest[l]].lineage = l}
  IN  [metas |-> Without(life.metas, own), latest |-> Without(life.latest, ended)]

\* A store that knows records and no lifecycle starts it (version 1 of each).
Bootstrapped(metas, chunksOf) ==
  IF DOMAIN metas # {} THEN metas
  ELSE LET all == UNION {{<<d, c>> : c \in chunksOf[d]} : d \in DOMAIN chunksOf}
       IN  [id \in {ChunkId(p[1], p[2]) : p \in all} |->
              LET p == CHOOSE x \in all : ChunkId(x[1], x[2]) = id
              IN  FreshMeta(p[1], p[2], 1, None)]

\* The latest chunk of each lineage after a load: with several, the last one
\* the map yields.
LatestChoices(metas) ==
  LET current == {id \in DOMAIN metas : metas[id].latest}
      of(l) == {id \in current : metas[id].lineage = l}
      lineages == {metas[id].lineage : id \in current}
  IN  {f \in [lineages -> current] : \A l \in lineages : f[l] \in of(l)}

\* document_lifecycle: a document is current when no chunk of it is superseded.
DocumentIsLatest(life, d, chunks) ==
  LET known == Ids(d, chunks) \cap DOMAIN life.metas
  IN  chunks # {} /\ \A id \in known : life.metas[id].latest

DocumentVersion(life, d, chunks) ==
  Max({1} \cup {life.metas[id].version : id \in Ids(d, chunks) \cap DOMAIN life.metas})
=============================================================================
