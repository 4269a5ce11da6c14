--------------------------- MODULE SegmentCatalog ---------------------------
(* What the coordinator of a segmented index knows of its segments without   *)
(* opening them: a routing summary and a connection profile per segment, the *)
(* number of segments that hold a term, and the scores routing and expansion *)
(* compute from them (src/segments.rs).  A corpus is a function from segment *)
(* identifiers to sets of documents.  Identifiers and terms are integers, in *)
(* the order of the strings they stand for; weights, logarithms and scores   *)
(* are hundredths.  A document is a record                                   *)
(*   id, terms and entities (weight of every term, 0 when absent), people    *)
(*   (the entities labelled as persons), topic (0 for none), headings,       *)
(*   content (the sequence of its tokens), date (a day, 0 for none),         *)
(*   temporal (its temporal terms), group, hit (its score in its segment)    *)
(*   and graph (what links and entities gave it there)                       *)
EXTENDS Ranking

CONSTANTS Terms,           \* the normalised vocabulary
          ActionTerms,     \* looks_like_action
          TimeTerms,       \* looks_like_time_token
          EnrichmentTerms, \* is_segment_enrichment_candidate
          Label,           \* the terms of near, recent, before, after, same and the hints
          PostingsPerTerm, \* ROUTING_POSTINGS_PER_TERM
          PoolLimit,       \* ROUTING_CANDIDATE_POOL_LIMIT
          MemoryLimit      \* LOCAL_MEMORY_RECORD_TERM_LIMIT and ..._SEGMENT_TERM_LIMIT

ASSUME CatalogAssumption ==
  /\ Terms \subseteq Nat \ {0} /\ IsFiniteSet(Terms)
  /\ (ActionTerms \cup TimeTerms \cup EnrichmentTerms) \subseteq Terms
  /\ \A name \in DOMAIN Label : Label[name] \in Terms
  /\ {PostingsPerTerm, PoolLimit, MemoryLimit} \subseteq Nat \ {0}

NoWeight == [t \in Terms |-> 0]

\* The natural logarithm of a count, in hundredths; ln(k) - ln(k - 1) is close
\* to 2 / (2k - 1).
LnOf(n) ==
  IF n \in 1 .. 6 THEN <<0, 69, 110, 139, 161, 179>>[n]
  ELSE 179 + Sum(LAMBDA k : 20000 \div (2 * k - 1), 7 .. n) \div 100

\* 100 * sqrt(n), for the bonus of a segment that covers several terms.
SqrtOf(n) == Max({r \in 0 .. 100 * n : r * r <= 10000 * n})

-----------------------------------------------------------------------------
(* Routing summaries *)

Importance(doc, t) ==
  40 + doc.terms[t] * 10 + doc.entities[t] * 14 + (IF doc.topic = t THEN 800 ELSE 0)

\* What the next token of a document leaves of the activity v of a term: it
\* decays, and an important token reinforces what is still active.
ActiveAfter(doc, t, v, token) ==
  LET decayed == (v * 82) \div 100
      kept    == IF decayed >= 15 THEN decayed ELSE 0
      near    == IF kept > 0 /\ Importance(doc, token) > 40
                 THEN (Importance(doc, token) * 8) \div 100 ELSE 0
  IN  kept + near + (IF token = t THEN Importance(doc, token) ELSE 0)

\* A record's local memory: the terms that were most active along its text.
GatedLocalMemory(doc) ==
  LET n == Len(doc.content)
      Activity(t) ==
        LET active[i \in 0 .. n] ==
              IF i = 0 THEN 0 ELSE ActiveAfter(doc, t, active[i - 1], doc.content[i])
        IN  active
      memory == [t \in Terms |-> Total([i \in 1 .. n |-> Activity(t)[i]])]
  IN  Normalised(Retained(Normalised(memory), MemoryLimit))

Summary(docs) ==
  LET Overall(weight(_)) == Normalised([t \in Terms |->
                            Sum(LAMBDA d : weight(d)[t], docs)])
      Memory == Normalised([t \in Terms |->
                  Sum(LAMBDA d : Merged(NoWeight, GatedLocalMemory(d), 35)[t], docs)])
  IN  [terms    |-> Overall(LAMBDA d : d.terms),
       entities |-> Overall(LAMBDA d : d.entities),
       topics   |-> Overall(LAMBDA d : [t \in Terms |-> IF d.topic = t THEN 100 ELSE 0]),
       memory   |-> Normalised(Retained(Memory, MemoryLimit))]

Covers(summary, t) ==
  \/ summary.terms[t] > 0 \/ summary.entities[t] > 0
  \/ summary.topics[t] > 0 \/ summary.memory[t] > 0

LocalTermWeight(summary, t) ==
  summary.terms[t] + (summary.entities[t] * 180 + summary.topics[t] * 120
                      + summary.memory[t] * 150) \div 100

EvidenceMultiplier(summary, t) ==
  100 + (IF summary.entities[t] > 0 THEN 45 ELSE 0)
      + (IF summary.memory[t] > 0 THEN 35 ELSE 0)
      + (IF summary.topics[t] > 0 THEN 15 ELSE 0)

EvidenceTypes(summary, t) ==
  {kind \in {"entity", "term", "topic", "local_memory"} :
     \/ kind = "entity" /\ summary.entities[t] > 0
     \/ kind = "term" /\ summary.terms[t] > 0
     \/ kind = "topic" /\ summary.topics[t] > 0
     \/ kind = "local_memory" /\ summary.memory[t] > 0}

-----------------------------------------------------------------------------
(* Connection profiles *)

\* The dates of a segment's documents and the window of a temporal query.
NearQueryDate(docs, ctx) ==
  ctx.end > 0 /\ \E d \in docs : d.date > 0 /\ d.date - ctx.end \in -ctx.window .. ctx.window

\* A date is an evidence value of its own, apart from every term.
DateKey(day) == 1000 + day
NearKey == 2000

ConnectionProfile(docs) ==
  LET Important(d) == Support(d.terms)
  IN  [people   |-> UNION {d.people : d \in docs},
       subjects |-> UNION {Support(d.entities) \cup d.headings
                             \cup ({d.topic} \ {0}) : d \in docs},
       times    |-> (UNION {d.temporal : d \in docs})
                      \cup {DateKey(d.date) : d \in {e \in docs : e.date > 0}},
       actions  |-> UNION {(Important(d) \cup Elements(d.content)) \cap ActionTerms : d \in docs},
       objects  |-> UNION {(Important(d) \ ActionTerms) \cap EnrichmentTerms : d \in docs}]

WithQueryDate(profile, docs, ctx) ==
  [profile EXCEPT !.times = @ \cup (IF NearQueryDate(docs, ctx) THEN {NearKey} ELSE {})]

Kinds == {"people", "subjects", "times", "actions", "objects"}

SharedKinds(p, q) == {k \in Kinds : p[k] \cap q[k] # {}}

\* Weighted size of what two profiles share: at most cap[k] values of kind k.
SharedScore(p, q, weight) ==
  LET cap == [people |-> 3, subjects |-> 4, times |-> 2, actions |-> 3, objects |-> 4]
  IN  Sum(LAMBDA k : AtMost(Cardinality(p[k] \cap q[k]), cap[k]) * weight[k], Kinds)

\* Two segments are connected through two kinds of evidence that pair well; 0
\* stands for no connection.
ConnectionScore(p, q) ==
  LET shared == SharedKinds(p, q)
      strong == \/ {"people", "times"} \cap shared # {}
                \/ {"subjects", "objects"} \subseteq shared
                \/ {"actions", "objects"} \subseteq shared
  IN  IF Cardinality(shared) >= 2 /\ strong
      THEN SharedScore(p, q, [people |-> 140, subjects |-> 90, times |-> 110,
                              actions |-> 60, objects |-> 50])
      ELSE 0

TypedEvidenceScore(query, profile) ==
  LET shared == SharedKinds(query, profile)
      pair(kinds, bonus) == IF kinds \subseteq shared THEN bonus ELSE 0
      pairs == pair({"people"}, 100) + pair({"times"}, 80)
               + pair({"subjects", "actions"}, 75) + pair({"subjects", "objects"}, 55)
               + pair({"actions", "objects"}, 90)
  IN  IF Cardinality(shared) < 2 \/ pairs = 0 THEN 0
      ELSE SharedScore(query, profile, [people |-> 140, subjects |-> 75, times |-> 100,
                                        actions |-> 70, objects |-> 55])
           + pairs + (Cardinality(shared) - 1) * 35

\* The profile of a query: capitalised tokens are people unless they name a
\* time, and every token is a time, an action or both a subject and an object.
QueryProfile(q) ==
  LET plain == q.terms \ (TimeTerms \cup ActionTerms)
  IN  [people   |-> q.capitals \ TimeTerms,
       times    |-> q.terms \cap TimeTerms,
       actions  |-> (q.terms \cap ActionTerms) \ TimeTerms,
       subjects |-> plain,
       objects  |-> plain]

-----------------------------------------------------------------------------
(* The catalog of a corpus *)

Catalog(corpus) ==
  LET summary == [s \in DOMAIN corpus |-> Summary(corpus[s])]
  IN  [summary |-> summary,
       profile |-> [s \in DOMAIN corpus |-> ConnectionProfile(corpus[s])],
       holders |-> [t \in Terms |-> {s \in DOMAIN corpus : Covers(summary[s], t)}]]

SegmentIds(cat) == DOMAIN cat.summary

Idf(cat, t) ==
  LnOf(Cardinality(SegmentIds(cat)) + 1) - LnOf(Cardinality(cat.holders[t]) + 1) + 100

IsUniqueTo(cat, t, s) == cat.holders[t] = {s}

\* The first postings of a term: the segments where it weighs most.
TopPostings(cat, t) ==
  Elements(Take(ByScore(cat.holders[t], LAMBDA s : LocalTermWeight(cat.summary[s], t)),
                PostingsPerTerm))

\* bounded_candidate_segment_ids: what the inverted catalog proposes.
BoundedCandidates(cat, terms) ==
  LET proposed == UNION {TopPostings(cat, t) : t \in terms}
      weight(s) == Sum(LAMBDA t : LocalTermWeight(cat.summary[s], t) * Idf(cat, t),
                       {t \in terms : s \in TopPostings(cat, t)})
  IN  Take(ByScore(proposed, weight), PoolLimit)

\* typed_candidate_segment_ids: segments that share a typed value, the lowest
\* identifiers of each value only.
TypedCandidates(cat, profile) ==
  LET Holders(k, v) == {s \in SegmentIds(cat) : v \in cat.profile[s][k]}
      First(S) == {s \in S : Cardinality({r \in S : r < s}) < PostingsPerTerm}
  IN  UNION {UNION {First(Holders(k, v)) : v \in profile[k]} : k \in Kinds}

\* The query terms a set of segments covers.
CoveredTerms(cat, terms, S) == {t \in terms : cat.holders[t] \cap S # {}}
=============================================================================
