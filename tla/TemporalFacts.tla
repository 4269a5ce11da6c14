---------------------------- MODULE TemporalFacts ----------------------------
(* What was true when (src/temporal_fact.rs, with the claims of              *)
(* src/claim_extractor.rs): the claims of every record become facts, dated by *)
(* the record; a later fact of the same subject, predicate and group ends the *)
(* one before it.  Dates are days, 0 is "undated" or "open".                  *)
EXTENDS Ranking

\* probable_topic: the first heading, else the top term.
Topic(record) == IF record.headings # <<>> THEN record.headings[1] ELSE record.term

\* chunk_claims: what a chunk says of its heading.
ChunkClaims(record, chunk) ==
  {[subject |-> t, predicate |-> "mentions", object |-> chunk.heading] :
      t \in ({Topic(record)} \ {0}) \cap (chunk.terms \cup {chunk.heading})}
    \cup {[subject |-> chunk.heading, predicate |-> "timestamp", object |-> t] :
            t \in {record.date} \ {0}}
    \cup {[subject |-> chunk.heading, predicate |-> "mentions_entity", object |-> e] : e \in chunk.entities}
    \cup {[subject |-> chunk.heading, predicate |-> "important_term", object |-> t] : t \in chunk.terms}

\* Predicates in alphabetical order.
PredicateRank(p) ==
  CASE p = "important_term" -> 1 [] p = "mentions" -> 2 [] p = "mentions_entity" -> 3 [] OTHER -> 4

ClaimOrder(x, y) ==
  LET a == <<x.subject, PredicateRank(x.predicate), x.object>>
      b == <<y.subject, PredicateRank(y.predicate), y.object>>
  IN  \E i \in 1 .. 3 : a[i] < b[i] /\ \A j \in 1 .. i - 1 : a[j] = b[j]

\* ConservativeClaimExtractor: the claims of all chunks, each once, sorted.
TopClaims(record) ==
  Ranked(UNION {ChunkClaims(record, c) : c \in record.chunks}, ClaimOrder)

\* best_source_chunk: chunks carry their record's date, so it is the first one.
SourceChunk(record) == CHOOSE c \in record.chunks : \A x \in record.chunks : c.span <= x.span

\* ingest_claim: the fact a claim of a record states.
FactOf(d, record, claim, version) ==
  [key |-> <<claim.subject, claim.predicate, record.group>>, value |-> claim.object,
   from |-> record.date, to |-> 0, doc |-> d, version |-> version, latest |-> TRUE]

LatestOf(facts, key) == {i \in DOMAIN facts : facts[i].key = key /\ facts[i].latest}

\* Mutant: the fact before is marked as past and left open.
Ended_Open(fact, next) == [fact EXCEPT !.latest = FALSE]

\* A fact another value follows: it ends where the next begins.
Ended(fact, next) ==
  [fact EXCEPT !.latest = FALSE, !.to = IF @ = 0 THEN next.from ELSE @]

\* ingest_fact: the same value again moves the latest fact to the newer date,
\* another value ends it and comes after it.
IngestFact(facts, fact) ==
  LET current == LatestOf(facts, fact.key) IN
  IF current = {} THEN Append(facts, fact)
  ELSE LET i == CHOOSE x \in current : TRUE
           dated == fact.from > 0 /\ facts[i].from > 0
       IN  IF facts[i].value = fact.value
           THEN [facts EXCEPT ![i] = IF dated => fact.from >= facts[i].from THEN fact ELSE @]
           ELSE Append([facts EXCEPT ![i] = Ended(@, fact)], fact)

\* The records in the order of their dates, undated ones first.
ByDate(records) ==
  Ranked(DOMAIN records, LAMBDA x, y :
    records[x].date < records[y].date \/ (records[x].date = records[y].date /\ x < y))

\* from_records: every fact from nothing, record after record, claim after claim.
FactsOf(records, version(_)) ==
  LET stated(d) == LET claims == TopClaims(records[d])
                   IN  [i \in DOMAIN claims |-> FactOf(d, records[d], claims[i], version(d))]
  IN  Seqs!FoldLeft(LAMBDA facts, d : Seqs!FoldLeft(IngestFact, facts, stated(d)), <<>>, ByDate(records))

ActiveAt(fact, date) == fact.from > 0 /\ fact.from <= date /\ (fact.to > 0 => date < fact.to)

\* as_of: what held on a date.
AsOf(facts, date) == {i \in DOMAIN facts : ActiveAt(facts[i], date)}

\* The order of events; subjects and predicates break ties.
EventBefore(facts, i, j) ==
  LET a == <<facts[i].from, facts[i].key[1], PredicateRank(facts[i].key[2]), facts[i].doc, i>>
      b == <<facts[j].from, facts[j].key[1], PredicateRank(facts[j].key[2]), facts[j].doc, j>>
  IN  \E n \in 1 .. 5 : a[n] < b[n] /\ \A m \in 1 .. n - 1 : a[m] = b[m]

Events(facts) == Ranked({i \in DOMAIN facts : facts[i].from > 0}, LAMBDA i, j : EventBefore(facts, i, j))

\* timeline_events_between: the bounds in either order, both included.
EventsBetween(facts, start, end) ==
  IF start = 0 \/ end = 0 THEN <<>>
  ELSE SelectSeq(Events(facts), LAMBDA i : facts[i].from \in Min({start, end}) .. Max({start, end}))

\* timeline_window_around: the first event nearest the anchor and its neighbours.
WindowAround(facts, anchor, before, after) ==
  LET events == Events(facts)
      days(n) == IF facts[events[n]].from >= anchor THEN facts[events[n]].from - anchor
                 ELSE anchor - facts[events[n]].from
      nearest == {n \in DOMAIN events : \A m \in DOMAIN events : days(n) <= days(m)}
      at == Min(nearest)
  IN  IF anchor = 0 \/ events = <<>> THEN <<>>
      ELSE SubSeq(events, Max({1, at - before}), Min({Len(events), at + after}))

\* adjacent_pairs_between: neighbours no further apart than the limit.
AdjacentPairs(facts, start, end, limit) ==
  LET events == EventsBetween(facts, start, end)
  IN  {<<events[n], events[n + 1]>> :
         n \in {m \in 1 .. Len(events) - 1 : facts[events[m + 1]].from - facts[events[m]].from <= limit}}

\* timeline: the facts about a subject by their dates.
Timeline(facts, subject) ==
  LET before(i, j) ==
        LET a == <<facts[i].from, facts[i].to, PredicateRank(facts[i].key[2]), i>>
            b == <<facts[j].from, facts[j].to, PredicateRank(facts[j].key[2]), j>>
        IN  \E n \in 1 .. 4 : a[n] < b[n] /\ \A m \in 1 .. n - 1 : a[m] = b[m]
  IN  Ranked({i \in DOMAIN facts : facts[i].key[1] = subject}, before)
=============================================================================
