----------------------------- MODULE MemoryIndex -----------------------------
(* The single index of a store (src/index.rs, with the calls src/pipeline.rs  *)
(* makes): documents change the aggregate one by one, a refresh builds an     *)
(* index of it and saves the core beside the records, a restart loads both,   *)
(* and queries are answered from the index last built or loaded.              *)
EXTENDS IndexScoring

CONSTANTS Records,   \* the records a document may have
          Options,   \* the options of a store
          Queries,   \* the queries asked
          Orders,    \* what an unordered map may put first
          Ranges,    \* the line ranges asked about
          NoIndex,   \* no index built, or no answer
          MaxChanges \* bound: upserts and removals

Chunks ==
  [id : Nat, terms : SUBSET Nat, heading : SUBSET Nat, entities : SUBSET Nat,
   from : Nat, to : Nat, date : Nat]

\* DocRecord: its chunks, what was read from it, and where it comes from.
DocRecords ==
  [chunks : SUBSET Chunks, terms : SUBSET Nat, heading : SUBSET Nat, entities : SUBSET Nat,
   lines : Nat, date : Nat, topic : SUBSET Nat, type : SUBSET Nat,
   claims : SUBSET [tokens : SUBSET Nat, confidence : Nat], filters : SUBSET Nat,
   links : SUBSET Nat, temporal : BOOLEAN, number : BOOLEAN, text : Seq(Nat),
   predicates : SUBSET STRING, penalty : Nat, group : Nat]

\* What a query asks and how: ids is an allow-list, 0 stands for no day.
Questions ==
  [terms : Seq(Nat), expanded : SUBSET Nat, phrase : Nat, stopwords : SUBSET Nat,
   units : SUBSET Nat, intent : STRING, counting : BOOLEAN, explicit : BOOLEAN,
   recency : BOOLEAN, hint : STRING, start : Nat, end : Nat, reference : Nat, window : Nat,
   phrases : Seq(Expressions), hard : BOOLEAN, ids : {Unscoped} \cup SUBSET Nat,
   pairs : SUBSET Nat, topK : Nat]

ASSUME MemoryIndexAssumption ==
  /\ IsFiniteSet(Docs) /\ Records \subseteq DocRecords
  /\ NoRecord \notin Records /\ MaxChanges \in Nat
  /\ Options \subseteq [claims : BOOLEAN, ngram : BOOLEAN, lcs : BOOLEAN]

\* A record has finitely many chunks, lines count from 1, and a chunk id digests
\* all that tells a chunk of a document from another (chunking.rs, ids.rs).
ASSUME ChunksAssumption ==
  /\ Ranges \subseteq Nat \X Nat
  /\ \A r \in Records :
       /\ IsFiniteSet(r.chunks)
       /\ \A x, y \in r.chunks : x.from \in 1 .. x.to /\ (x.id = y.id => x = y)

\* Whatever is listed for a record, a chunk, a claim or a query is finite.
ASSUME ListsAssumption ==
  /\ \A r \in Records :
       /\ IsFiniteSet(r.claims)
       /\ \A S \in {r.terms, r.heading, r.entities} : IsFiniteSet(S)
       /\ \A c \in r.chunks : \A S \in {c.terms, c.heading, c.entities} : IsFiniteSet(S)
       /\ \A claim \in r.claims : IsFiniteSet(claim.tokens)
  /\ \A q \in Queries : IsFiniteSet(q.expanded)

\* An unordered map gives its keys in some order, each key its own place.
ASSUME OrdersAssumption ==
  \A order \in Orders :
    /\ Docs \subseteq DOMAIN order
    /\ \A x, y \in DOMAIN order : order[x] \in Nat /\ (order[x] = order[y] => x = y)

\* The words of a question are expressions of time, read from days that count
\* from the first of the calendar; none of them means the day before it, whose
\* number is no date.
ASSUME QueriesAssumption ==
  /\ Queries \subseteq Questions
  /\ \A q \in Queries : q.phrases # <<>> => TargetOf(q) # 0

VARIABLES options,   \* PipelineOptions
          records,   \* the records of the store
          aggregate, \* semantic_aggregate
          index,     \* the index queries go to
          saved,     \* records.json and core.bin
          answer,    \* the last answer since a document changed, with its query
          changes

vars == <<options, records, aggregate, index, saved, answer, changes>>

Init ==
  /\ options \in Options
  /\ records = [d \in Docs |-> NoRecord]
  /\ aggregate = EmptyAggregate
  /\ index = NoIndex /\ saved = NoIndex /\ answer = NoIndex
  /\ changes = 0

\* A document added or replaced: its old rows go first.
Upsert(d, r) ==
  /\ changes < MaxChanges
  /\ records' = [records EXCEPT ![d] = r]
  /\ aggregate' = InsertDoc(RemoveDoc(aggregate, d), DocState(d, r, options.claims))
  /\ changes' = changes + 1 /\ answer' = NoIndex
  /\ UNCHANGED <<options, index, saved>>

RemoveDocument(d) ==
  /\ changes < MaxChanges
  /\ d \in Present(records)
  /\ records' = [records EXCEPT ![d] = NoRecord]
  /\ aggregate' = RemoveDoc(aggregate, d)
  /\ changes' = changes + 1 /\ answer' = NoIndex
  /\ UNCHANGED <<options, index, saved>>

\* build_compatibility_index, published and saved.
Refresh(order) ==
  /\ Present(records) # {}
  /\ index' = FromAggregate(records, aggregate, options, order)
  /\ saved' = [records |-> records, core |-> CoreOf(index')]
  /\ answer' = NoIndex
  /\ UNCHANGED <<options, records, aggregate, changes>>

\* The process ends and opens the directory again: the core is loaded without
\* claim scoring, the aggregate is made anew from the records.
Reopen(order) ==
  /\ saved # NoIndex
  /\ records' = saved.records
  /\ aggregate' = AggregateOf(saved.records, options.claims)
  /\ index' = LoadCore(saved.core, saved.records, [options EXCEPT !.claims = FALSE], order)
  /\ UNCHANGED <<options, saved, answer, changes>>

Query(q, order) ==
  /\ index # NoIndex /\ answer = NoIndex
  /\ answer' = [query |-> q, order |-> order, hits |-> TemporalAnswer(index, q, order)]
  /\ UNCHANGED <<options, records, aggregate, index, saved, changes>>

Next ==
  \/ \E d \in Docs : RemoveDocument(d) \/ \E r \in Records : Upsert(d, r)
  \/ \E order \in Orders : Refresh(order) \/ Reopen(order)
  \/ \E q \in Queries, order \in Orders : Query(q, order)

Spec == Init /\ [][Next]_vars
-----------------------------------------------------------------------------
(* Properties *)

(* Keeping the aggregate document by document comes to the same as building   *)
(* it from the records at once (remove_doc undoes insert_doc_state, whatever  *)
(* else was inserted), the postings of an index made from it, or loaded from  *)
(* a core, are those of its records, and the interval trees over its chunks   *)
(* name exactly the chunks whose lines a range touches; one given backwards   *)
(* counts as its first line.  An index made chunk by chunk is the same one.   *)
(* A query changes none of this: it is looked at before one is answered.      *)
IndexIsOfItsRecords ==
  answer = NoIndex =>
  /\ aggregate = AggregateOf(records, options.claims)
  /\ index # NoIndex =>
       LET direct == AggregateOf(index.records, index.options.claims) IN
       /\ <<index.chunks, index.chunkTerms, index.chunkEntities, index.claims>>
            = <<direct.chunks, direct.chunkTerms, direct.chunkEntities, direct.claims>>
       /\ \A order \in Orders :
            FromRecords(records, options, order) = FromAggregate(records, aggregate, options, order)
       /\ \A d \in index.table, range \in Ranges :
            ImpactedChunks(index, d, range[1], range[2])
              = {c.id : c \in {x \in direct.chunks : x.doc = d /\ Overlaps(x, range[1], Max({range[1], range[2]}))}}

(* No pass of the scoring brings in a document the query may not see: when a  *)
(* query is answered every hit is in the allow-list, was a candidate by some  *)
(* posting or word of its own, and under a hard filter lies between the two   *)
(* bounds, whichever was given first, and in the window around the target.    *)
(* It has every filter pair asked for, if each of them is carried by some     *)
(* document.  Of other queries this would be false, though the comments of    *)
(* query_with_filters and doc_ids_matching_filters promise it: a pair that no *)
(* document carries is dropped, and a hit may lack it.                        *)
IsInScope(ix, q, order, hit) ==
  LET date == DateOf(ix.records[hit.doc])
      target == TargetOf(q)
  IN
  /\ q.pairs = {} /\ q.ids # Unscoped => hit.doc \in q.ids
  /\ (\A p \in q.pairs : \E d \in ix.table : p \in ix.records[d].filters)
       => q.pairs \subseteq ix.records[hit.doc].filters
  /\ \E row \in PostingRows(ix, q, order) : row.doc = hit.doc
  /\ q.hard /\ ~Untimed(q, target) =>
       /\ date > 0
       /\ q.start > 0 /\ q.end > 0 => date \in Min({q.start, q.end}) .. Max({q.start, q.end})
       /\ target > 0 => Distance(date, target) <= Max({q.window, 1})

AnswerStaysInScope ==
  [][answer' \notin {answer, NoIndex} =>
       \A hit \in Elements(answer'.hits) : IsInScope(index, answer'.query, answer'.order, hit)]_vars

(* An untimed answer of an index no larger than the final window is short     *)
(* only when it has nothing left to give: it has as many hits as asked for,   *)
(* or every candidate its group has room for, so that a group at its limit    *)
(* never costs another group its place.                                       *)
Room(ix, q, order) ==
  LET candidates == {row.doc : row \in Scoped(ix, q, order)}
      group(g) == {d \in candidates : ix.records[d].group = g}
      groups == {ix.records[d].group : d \in candidates} \ {0}
  IN  Cardinality(group(0)) + Sum(LAMBDA g : AtMost(Cardinality(group(g)), GroupLimit), groups)

AnswerIsFull ==
  [][answer' \notin {answer, NoIndex} =>
       LET q == answer'.query IN
       Untimed(q, TargetOf(q)) /\ Cardinality(index.table) <= FinalWindow =>
         Cardinality(Elements(answer'.hits)) = AtMost(Room(index, q, answer'.order), q.topK)]_vars

\* Where a day lies in the calendar, by days, weeks, months or years.
PlaceOf(unit, date) ==
  CASE unit = "day" -> date
    [] unit = "week" -> (WeekStart(date) + 6) \div 7
    [] unit = "month" -> 12 * Year(date) + Month(date)
    [] unit = "year" -> Year(date)

\* The day lies where the words of an expression put it, seen from the anchor.
InPeriod(p, anchor, target) ==
  CASE p.kind = "weekday" /\ p.n < 0 ->
         Weekday(target) = p.weekday /\ anchor - target \in 1 .. 7
    [] p.kind = "weekday" /\ p.n >= 0 ->
         Weekday(target) = p.weekday /\ PlaceOf("week", target) = PlaceOf("week", anchor) + p.n
    [] OTHER -> PlaceOf(p.unit, target) = PlaceOf(p.unit, anchor) + p.n

Silent == [dates |-> {}, monthDays |-> {}, weekdays |-> {}, phrases |-> <<>>]

(* The day a question is resolved to lies in the period its words name, seen  *)
(* from the anchor: "last month" on the 31st is never this month, a year from *)
(* a 29 February is next year, "last Monday" is the latest one before the     *)
(* anchor and "next Monday" is in the next week; and a document of that day   *)
(* has a temporal term in common with the question as augmented, since the    *)
(* three readings of time in temporal.rs keep tables of their own.            *)
TargetIsInThePeriod ==
  answer # NoIndex /\ Len(answer.query.phrases) = 1 /\ answer.query.phrases[1].kind # "other" =>
    LET phrases == answer.query.phrases
        anchor == RelativeAnchor(answer.query)
        target == ResolveTarget(phrases, anchor).date
    IN  /\ InPeriod(phrases[1], anchor, target)
        /\ AugmentTokens(phrases, anchor) \cap TemporalTerms(target, Silent) # {}

(* A restart does not change an answer: the index loaded from the saved core  *)
(* ranks as the one that was saved, unless the options ask for claim scoring  *)
(* or a text comparison, which a loaded index does without, or a key is in    *)
(* more documents than the cap lets it list, when an unordered map decides    *)
(* which of its equals are cut.                                               *)
Uncut(ix) ==
  \A rows \in {ix.chunkTerms, ix.chunkEntities} : \A key \in Keys(rows) :
    Cardinality({DocOf(ix.chunks, row.at) : row \in {x \in rows : x.key = key}}) <= MaxPostings

AnswerSurvivesReopen ==
  answer # NoIndex /\ ~options.claims /\ ~options.ngram /\ ~options.lcs /\ Uncut(index)
     => answer.hits = TemporalAnswer(index, answer.query, answer.order)
=============================================================================
