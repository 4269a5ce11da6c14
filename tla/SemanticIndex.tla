---------------------------- MODULE SemanticIndex ----------------------------
(* What an index is built from (src/index.rs): the semantic aggregate the     *)
(* pipeline keeps document by document, the postings derived from it or from  *)
(* the records themselves, the line intervals of chunks, and the same index   *)
(* loaded again from its binary core.  Postings are relations, a row per key  *)
(* and chunk or document: a key whose last row goes is gone.  Keys are        *)
(* normalised tokens, scores thousandths, 0 and {} stand for "none".          *)
EXTENDS Ranking

CONSTANTS Docs,        \* document ids
          NoRecord,    \* an id without a record
          MaxPostings, \* MAX_DOC_POSTINGS
          Extends      \* pairs of tokens, the first a longer spelling of the second

ASSUME IndexAssumption ==
  /\ Docs \subseteq Nat \ {0}
  /\ NoRecord \notin Docs
  /\ MaxPostings \in Nat \ {0}

Present(records) == {d \in Docs : records[d] # NoRecord}

\* A record without chunks gets one that stands for the whole document.
ChunksOf(r) ==
  IF r.chunks # {} THEN r.chunks
  ELSE {[id |-> 0, terms |-> r.terms, heading |-> r.heading, entities |-> r.entities,
         from |-> 1, to |-> Max({r.lines, 1}), date |-> r.date]}

\* stable_chunk_id digests the document id with the heading, content and lines.
ChunkId(d, c) == <<d, c.id>>
-----------------------------------------------------------------------------
(* SemanticDocState and SemanticAggregate *)

TermRows(at, c) ==
  {[key |-> t, at |-> at, score |-> 800] : t \in c.terms}
    \cup {[key |-> t, at |-> at, score |-> 400] : t \in c.heading}

EntityRows(at, c) == {[key |-> t, at |-> at, score |-> 900] : t \in c.entities}

RowsOfClaim(d, claim) ==
  {[key |-> t, at |-> d, score |-> Max({claim.confidence, 100}), of |-> claim] : t \in claim.tokens}

ClaimRows(d, r) == UNION {RowsOfClaim(d, claim) : claim \in r.claims}

Label(d, tokens) == IF tokens = {} THEN {} ELSE {[key |-> tokens, at |-> d]}

\* build_semantic_doc_state: every posting of one document.
DocState(d, r, claimScoring) ==
  LET chunks == ChunksOf(r) IN
  [chunks |-> {[id |-> ChunkId(d, c), doc |-> d, from |-> c.from, to |-> c.to] : c \in chunks},
   chunkTerms |-> UNION {TermRows(ChunkId(d, c), c) : c \in chunks},
   chunkEntities |-> UNION {EntityRows(ChunkId(d, c), c) : c \in chunks},
   docTerms |-> UNION {TermRows(d, c) : c \in chunks},
   docEntities |-> UNION {EntityRows(d, c) : c \in chunks},
   claims |-> IF claimScoring THEN ClaimRows(d, r) ELSE {},
   topics |-> Label(d, r.topic),
   types |-> Label(d, r.type)]

EmptyAggregate ==
  [chunks |-> {}, chunkTerms |-> {}, chunkEntities |-> {}, docTerms |-> {},
   docEntities |-> {}, claims |-> {}, topics |-> {}, types |-> {}]

\* insert_doc_state.
InsertDoc(aggregate, state) == [f \in DOMAIN aggregate |-> aggregate[f] \cup state[f]]

\* Mutant: the document rows go and the chunk postings stay.
RemoveDoc_KeepsChunkRows(aggregate, d) ==
  [f \in DOMAIN aggregate |->
     CASE f = "chunks" -> {c \in aggregate[f] : c.doc # d}
       [] f \in {"chunkTerms", "chunkEntities"} -> aggregate[f]
       [] OTHER -> {row \in aggregate[f] : row.at # d}]

\* remove_doc: the rows of the chunks it lists, then the rows of the document.
RemoveDoc(aggregate, d) ==
  LET ids == {c.id : c \in {x \in aggregate.chunks : x.doc = d}} IN
  [f \in DOMAIN aggregate |->
     CASE f = "chunks" -> {c \in aggregate[f] : c.doc # d}
       [] f \in {"chunkTerms", "chunkEntities"} -> {row \in aggregate[f] : row.at \notin ids}
       [] OTHER -> {row \in aggregate[f] : row.at # d}]

\* The aggregate of a set of records from nothing.
AggregateOf(records, claimScoring) ==
  LET state == [d \in Present(records) |-> DocState(d, records[d], claimScoring)]
  IN  [f \in DOMAIN EmptyAggregate |-> UNION {state[d][f] : d \in Present(records)}]
-----------------------------------------------------------------------------
(* MemoryIndex *)

\* Best first; what scores the same as an unordered map gives it.
Best(S, score, order) ==
  Ranked(S, LAMBDA x, y : score[x] > score[y] \/ (score[x] = score[y] /\ order[x] < order[y]))

DocOf(chunks, id) == (CHOOSE c \in chunks : c.id = id).doc

\* derive_doc_postings: the best score of a key in each document, cut at the
\* cap; equal scores keep the order of an unordered map.
DocPostings(rows, chunks, order) ==
  LET keys == {row.key : row \in rows}
      best(k) == {[key |-> k, at |-> d,
                   score |-> Max({row.score : row \in {x \in rows :
                                     x.key = k /\ DocOf(chunks, x.at) = d}})] :
                    d \in {DocOf(chunks, row.at) : row \in {x \in rows : x.key = k}}}
      listed(S) == Best(S, [x \in S |-> x.score], [x \in S |-> order[x.at]])
  IN  UNION {Elements(Take(listed(best(k)), MaxPostings)) : k \in keys}

\* The tables every construction ends with.
Assembled(records, core, options, order) ==
  [records |-> records,
   table |-> core.table,
   chunks |-> core.chunks,
   chunkTerms |-> core.chunkTerms,
   chunkEntities |-> core.chunkEntities,
   terms |-> DocPostings(core.chunkTerms, core.chunks, order),
   entities |-> DocPostings(core.chunkEntities, core.chunks, order),
   claims |-> IF options.claims THEN core.claims ELSE {},
   filters |-> UNION {{[pair |-> p, at |-> d] : p \in records[d].filters} :
                        d \in core.table \cap Present(records)},
   options |-> options]

\* from_records_internal with the aggregate: its chunks of the documents given,
\* and its rows whose chunk is among them.
FromAggregate(records, aggregate, options, order) ==
  LET table == Present(records)
      chunks == {c \in aggregate.chunks : c.doc \in table}
      ids == {c.id : c \in chunks}
  IN  Assembled(records,
        [table |-> table, chunks |-> chunks,
         chunkTerms |-> {row \in aggregate.chunkTerms : row.at \in ids},
         chunkEntities |-> {row \in aggregate.chunkEntities : row.at \in ids},
         claims |-> aggregate.claims], options, order)

\* from_records_internal without it: chunk by chunk.
FromRecords(records, options, order) ==
  LET own == AggregateOf(records, options.claims)
  IN  Assembled(records,
        [table |-> Present(records), chunks |-> own.chunks, chunkTerms |-> own.chunkTerms,
         chunkEntities |-> own.chunkEntities, claims |-> own.claims], options, order)

\* to_bytes.
CoreOf(index) ==
  [table |-> index.table, chunks |-> index.chunks, chunkTerms |-> index.chunkTerms,
   chunkEntities |-> index.chunkEntities, claims |-> index.claims]

\* Mutant: the document postings of the core are of its chunks' last rows only.
LoadCore_TermsOnly(core, records, options, order) ==
  [Assembled(records, core, [options EXCEPT !.ngram = FALSE, !.lcs = FALSE], order)
     EXCEPT !.entities = {}]

\* load_from_core_with_options: the two text comparisons are off in what it returns.
LoadCore(core, records, options, order) ==
  Assembled(records, core, [options EXCEPT !.ngram = FALSE, !.lcs = FALSE], order)

\* doc_ids_matching_filters: the pairs no posting knows are left out.
MatchingIds(index, pairs) ==
  LET known == {p \in pairs : \E row \in index.filters : row.pair = p}
  IN  {d \in index.table : known # {} /\ \A p \in known : [pair |-> p, at |-> d] \in index.filters}
-----------------------------------------------------------------------------
(* Lines *)

Overlaps(c, a, b) == c.from <= b /\ a <= c.to

Middle(c) == c.from + (c.to - c.from) \div 2

\* build_rec sorts the middles of its intervals; that equal ones are told apart
\* by the chunk makes a ranking of it and does not move the median.
SortsBefore(x, y) ==
  Middle(x) < Middle(y) \/ (Middle(x) = Middle(y) /\ x.id[2] < y.id[2])

Center(S) == Middle(Ranked(S, SortsBefore)[Cardinality(S) \div 2 + 1])

\* IntervalTree: a node keeps the intervals around the median of the middles;
\* the walk enters a side when the range reaches over the centre.
TreeQuery(entries, a, b) ==
  LET walk[S \in SUBSET entries] ==
        IF S = {} THEN {}
        ELSE LET left == {c \in S : c.to < Center(S)}
                 right == {c \in S : c.from > Center(S)}
             IN  {c \in S \ (left \cup right) : Overlaps(c, a, b)}
                   \cup (IF a <= Center(S) THEN walk[left] ELSE {})
                   \cup (IF b >= Center(S) THEN walk[right] ELSE {})
  IN  walk[entries]

\* The intervals build_runtime_helpers gives the tree of a document.
Intervals(index, d) ==
  {[c EXCEPT !.from = Max({c.from, 1})] :
     c \in {x \in index.chunks : x.doc = d /\ x.to >= x.from /\ x.to > 0}}

\* impacted_chunks_for_line_range.
ImpactedChunks(index, d, a, b) ==
  IF d \notin index.table THEN {}
  ELSE {c.id : c \in TreeQuery(Intervals(index, d), Max({a, 1}), Max({a, b}))}
=============================================================================
