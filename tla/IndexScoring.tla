---------------------------- MODULE IndexScoring -----------------------------
(* How an index answers a query (src/index.rs, query_with_lexical_hits_timed  *)
(* and its temporal caller): postings make documents candidates, features of  *)
(* the candidates and of the best of them add to their scores, and groups of  *)
(* documents are ranked before the answer is taken from them.  "order" breaks *)
(* the ties the code leaves to the order of an unordered map.                 *)
EXTENDS SemanticIndex, QueryTime

CONSTANTS Unscoped,      \* no allow-list
          GraphWindow,   \* ENTITY_GRAPH_MAX_CANDIDATES
          RerankWindow,  \* TEXT_RERANK_WINDOW
          FinalWindow,   \* FINAL_RERANK_WINDOW
          GroupLimit,    \* MAX_RESULTS_PER_GROUP
          Today          \* the day of the query

ASSUME ScoringAssumption ==
  {GraphWindow, RerankWindow, FinalWindow, GroupLimit, Today} \subseteq Nat \ {0}

Distance(a, b) == IF a > b THEN a - b ELSE b - a

\* The allow-list of a query: a bitmap, here that of its filter pairs, comes
\* before a set of ids, which counts only where the index knows them.
InScope(index, q, d) ==
  CASE q.pairs # {} -> d \in MatchingIds(index, q.pairs)
    [] q.pairs = {} /\ q.ids # Unscoped -> d \in q.ids \cap index.table
    [] OTHER -> TRUE

\* doc_temporal_date: of the first dated chunk, else of the document; 0 if none.
DateOf(r) ==
  LET dated == {c \in ChunksOf(r) : c.date > 0}
  IN  IF dated = {} THEN r.date
      ELSE (CHOOSE c \in dated : \A o \in dated : c.from <= o.from).date
-----------------------------------------------------------------------------
(* Candidates *)

Keys(rows) == {row.key : row \in rows}

\* An exact key of a trie, else for a token long enough one key it begins.
Found(rows, t, order) ==
  LET longer == {k \in Keys(rows) : <<k, t>> \in Extends}
  IN  CASE t \in Keys(rows) -> {[key |-> t, share |-> 1000]}
        [] t \notin Keys(rows) /\ longer # {} ->
             {[key |-> CHOOSE k \in longer : \A o \in longer : order[k] <= order[o],
               share |-> 250]}
        [] OTHER -> {}

QueryEntities(index, q) ==
  ({q.phrase} \cup Elements(q.terms)) \cap Keys(index.entities)

\* lexical_bm25: external; a document matches by what its chunks hold.
LexicalScore(index, q, d) ==
  Sum(LAMBDA t : Sum(LAMBDA c : (IF t \in c.heading THEN 140 ELSE 0)
                                + (IF t \in c.terms THEN 200 ELSE 0)
                                + (IF t \in c.entities THEN 240 ELSE 0),
                     ChunksOf(index.records[d])),
      Elements(q.terms))

Row(part, d, at, t, value) ==
  [part |-> part, doc |-> d, at |-> at, term |-> t, of |-> {}, value |-> value]

\* Every addition of the posting pass, one row each; at is the position of the
\* term in the query, 0 for an expanded term.
PostingRows(index, q, order) ==
  LET named == QueryEntities(index, q)
      scaled(row, weight, share) == (weight * row.score * share) \div 1000000
      entity(i, t, weight, sure) ==
        UNION {{Row("entity", row.at, i, t,
                    (scaled(row, weight, f.share) * (IF t \in named THEN sure ELSE 100)) \div 100) :
                  row \in {x \in index.entities : x.key = f.key}} : f \in Found(index.entities, t, order)}
      term(i, t, weight) ==
        UNION {{Row("term", row.at, i, t, scaled(row, weight, f.share)) :
                  row \in {x \in index.terms : x.key = f.key}} : f \in Found(index.terms, t, order)}
      claim(i, t, weight) ==
        {[Row("claim", row.at, i, t, (weight * row.score) \div 1000) EXCEPT !.of = {row.of}] :
           row \in {x \in index.claims : x.key = t /\ x.at \in index.table}}
      asked(i) == LET t == q.terms[i]
                  IN  entity(i, t, 1200, 140) \cup term(i, t, 800) \cup claim(i, t, 700)
      expanded(t) ==
        (IF t \in Keys(index.entities) THEN entity(0, t, 450, 120) ELSE {})
          \cup (IF t \in Keys(index.terms) THEN term(0, t, 350) ELSE {})
          \cup claim(0, t, 420)
      phrase == IF q.phrase \notin Keys(index.entities) THEN {}
                ELSE {Row("entity", row.at, -1, q.phrase, (1500 * row.score * 125) \div 100000) :
                        row \in {x \in index.entities : x.key = q.phrase}}
      lexical == {Row("lexical", d, 0, 0, LexicalScore(index, q, d)) :
                    d \in {x \in index.table \cap Present(index.records) :
                             LexicalScore(index, q, x) > 0}}
  IN  lexical \cup phrase \cup (UNION {asked(i) : i \in DOMAIN q.terms})
        \cup UNION {expanded(t) : t \in q.expanded \ Elements(q.terms)}

\* Mutant: the allow-list is not asked about the rows of expanded terms.
Scoped_AskedOnly(index, q, order) ==
  {row \in PostingRows(index, q, order) : row.at = 0 \/ InScope(index, q, row.doc)}

\* score_doc: a document outside the allow-list is no candidate.
Scoped(index, q, order) ==
  {row \in PostingRows(index, q, order) : InScope(index, q, row.doc)}

Matched(rows, d, part) ==
  {row.term : row \in {x \in rows : x.doc = d /\ x.part = part /\ x.at # 0}}
-----------------------------------------------------------------------------
(* Features of a candidate *)

\* routing_content_terms and routing_unit_terms.
ContentTerms(q) == Elements(q.terms) \ q.stopwords
UnitTerms(q) == Elements(q.terms) \cap q.units

Flag(b, n) == IF b THEN n ELSE 0

\* seed_routing_candidates.
SeedScore(index, q, d) ==
  LET r == index.records[d]
      text == Elements(r.text)
      terms == Cardinality(ContentTerms(q) \cap text)
      named == Cardinality(r.entities \cap QueryEntities(index, q))
      unit == UnitTerms(q) \cap text # {}
      dated == DateOf(r) > 0
      score ==
        CASE q.intent = "count" -> terms * 240 + named * 350 + Flag(dated, 50) + Flag(r.temporal, 40)
          [] q.intent = "sum" -> terms * 200 + named * 120 + Flag(r.number, 300) + Flag(unit, 180)
                                   + Flag(dated, 40)
          [] q.intent = "sequence" -> terms * 200 + named * 120 + Flag(dated, 280)
                                        + Flag(r.temporal, 140) + Flag(r.number, 80)
          [] OTHER -> 0
      fit == CASE q.intent = "sequence" -> dated \/ r.temporal
               [] q.intent = "sum" -> r.number \/ unit
               [] OTHER -> TRUE
  IN  IF r.text # <<>> /\ fit THEN AtMost(score, 850) ELSE 0

\* The best of the claims of a candidate.
ClaimScore(q, r) ==
  LET delta(c) == LET matched == Cardinality(c.tokens \cap Elements(q.terms))
                      sure == Max({c.confidence, 100})
                  IN  IF matched = 0 THEN 0
                      ELSE (450 * matched * sure) \div (1000 * Cardinality(c.tokens))
                           + Flag(matched >= 2, (150 * sure) \div 1000)
  IN  Max({0} \cup {delta(c) : c \in r.claims})

\* recency_boost: a quarter, halved every 30 days of age and on a line between
\* two halvings; a day to come has no age, eight half-lives leave nothing.
Halvings == <<250, 125, 62, 31, 15, 7, 3, 1, 0>>

Recency(date) ==
  LET age == IF date > Today THEN 0 ELSE Today - date
      n == age \div 30 + 1
  IN  IF date = 0 \/ n > 8 THEN 0
      ELSE Halvings[n] - ((Halvings[n] - Halvings[n + 1]) * (age % 30)) \div 30

MetadataScore(index, q, d) ==
  LET r == index.records[d] IN
  350 * Cardinality(r.topic \cap Elements(q.terms))
    + 250 * Cardinality(r.type \cap Elements(q.terms))
    + Flag(index.options.claims, ClaimScore(q, r))
    + Flag(q.recency, Recency(DateOf(r)))

\* The links of the five best candidates, and the entities, which only the
\* candidates near the top are compared by.
GraphScore(index, score, anchors, near, d) ==
  LET weight(a) == (1000 * score[a]) \div (1000 + score[a])
      shared == index.records[d].entities \cap UNION {index.records[a].entities : a \in anchors}
  IN  AtMost(Sum(LAMBDA a : (220 * weight(a)) \div 1000,
                 {x \in anchors : d \in index.records[x].links}), 600)
      + Flag(d \in near, AtMost(80 * Cardinality(shared), 600))

\* build_ngrams, for pairs.
Pairs(s) == {<<s[i], s[i + 1]>> : i \in 1 .. Len(s) - 1}

PairRatio(a, b) ==
  IF Len(a) < 2 \/ Len(b) < 2 THEN 0
  ELSE (1000 * Cardinality({i \in 1 .. Len(a) - 1 : <<a[i], a[i + 1]>> \in Pairs(b)})) \div (Len(a) - 1)

\* The length of a longest common subsequence, cell by cell.
CommonLength(a, b) ==
  LET cell[p \in (0 .. Len(a)) \X (0 .. Len(b))] ==
        CASE p[1] = 0 \/ p[2] = 0 -> 0
          [] p[1] > 0 /\ p[2] > 0 /\ a[p[1]] = b[p[2]] -> cell[<<p[1] - 1, p[2] - 1>>] + 1
          [] OTHER -> Max({cell[<<p[1], p[2] - 1>>], cell[<<p[1] - 1, p[2]>>]})
  IN  cell[<<Len(a), Len(b)>>]

LcsRatio(a, b) == IF a = <<>> \/ b = <<>> THEN 0 ELSE (1000 * CommonLength(a, b)) \div Len(a)

OverlapRatio(a, b) ==
  IF a = <<>> \/ b = <<>> THEN 0
  ELSE (1000 * Cardinality({i \in DOMAIN a : a[i] \in Elements(b)})) \div Len(a)

\* The text comparison of one document in the rerank window.
TextScore(index, q, d) ==
  LET text == index.records[d].text
  IN  (80 * OverlapRatio(q.terms, text)) \div 1000
      + Flag(index.options.ngram, (80 * PairRatio(q.terms, text)) \div 1000)
      + Flag(index.options.lcs, (50 * LcsRatio(q.terms, text)) \div 1000)

\* The score of every candidate, pass after pass.
Scores(index, q, rows, order) ==
  LET docs == {row.doc : row \in rows} \cap Present(index.records)
      hybrid == [d \in docs |-> Sum(LAMBDA row : row.value, {x \in rows : x.doc = d})
                                  + SeedScore(index, q, d) + MetadataScore(index, q, d)]
      ranking == Best(docs, hybrid, order)
      anchors == Elements(Take(ranking, 5))
      near == Elements(Take(ranking, GraphWindow))
      window == Elements(Take(ranking, AtMost(RerankWindow, FinalWindow)))
      follow == q.intent \notin {"count", "sum"}
      sequence == q.terms # <<>> /\ (q.intent = "none" \/ q.explicit)
  IN  [d \in docs |-> hybrid[d] + Flag(follow, GraphScore(index, hybrid, anchors, near, d))
                        + Flag(sequence /\ d \in window, TextScore(index, q, d))]
-----------------------------------------------------------------------------
(* Groups *)

GroupKey(r, d) == IF r.group = 0 THEN <<"doc", d>> ELSE <<"group", r.group>>

\* aggregate_group_score.
AggregateScore(scores, counting) ==
  LET decay == IF counting THEN <<450, 280, 160, 80>> ELSE <<300, 180, 100, 50>>
      support == Sum(LAMBDA i : (decay[i] * scores[i + 1]) \div 1000,
                     {i \in 1 .. 4 : i < Len(scores)})
      backing == Cardinality({i \in 2 .. Len(scores) :
                                scores[i] >= Max({(scores[1] * 350) \div 1000, 150})})
  IN  (scores[1] * (IF counting THEN 750 ELSE 1000)) \div 1000 + support
      + AtMost(backing, 4) * (IF counting THEN 80 ELSE 50)

\* The score of a group: its documents, best first, with what they matched.
GroupScore(index, q, rows, score, items) ==
  LET named == QueryEntities(index, q)
      entities == UNION {Matched(rows, d, "entity") : d \in Elements(items)}
      terms == UNION {Matched(rows, d, "term") \cup Matched(rows, d, "claim") : d \in Elements(items)}
      exact == {d \in Elements(items) : Matched(rows, d, "entity") \cap named # {}}
      backing == {d \in Elements(items) : score[d] >= Max({(score[items[1]] * 350) \div 1000, 150})}
      dated == {d \in Elements(items) : DateOf(index.records[d]) > 0}
      days == {DateOf(index.records[d]) : d \in dated}
      near == CASE Cardinality(dated) < 2 -> 0
                [] Cardinality(dated) >= 2 /\ Max(days) - Min(days) <= 7 -> 80
                [] Cardinality(dated) >= 2 /\ Max(days) - Min(days) \in 8 .. 30 -> 40
                [] OTHER -> 0
  IN  AggregateScore([i \in DOMAIN items |-> score[items[i]]], q.counting)
      + AtMost(Cardinality(exact), 3) * 100 + AtMost(Cardinality(entities \cap named), 3) * 80
      + AtMost(Cardinality(entities), 4) * 40 + AtMost(Cardinality(terms), 6) * 15
      + AtMost(Cardinality(backing), 4) * (IF q.counting THEN 60 ELSE 30)
      + (IF q.counting THEN (near * 3) \div 2 ELSE near)

\* evidence_features_for_doc; a document without any trace of the query has none.
Evidence(index, q, d) ==
  LET r == index.records[d]
      text == Elements(r.text)
      terms == Cardinality(ContentTerms(q) \cap text)
      unit == UnitTerms(q) \cap text # {}
      time == DateOf(r) > 0 \/ r.temporal
      signal == q.intent \in r.predicates
      by(sum, sequence, count) ==
        CASE q.intent = "sum" -> sum [] q.intent = "sequence" -> sequence [] OTHER -> count
      raw == AtMost(terms, 6) * 180 + Flag(signal, 550) + Flag(time, by(120, 450, 120))
               + Flag(r.number, by(450, 120, 80)) + Flag(unit, by(300, 160, 60)) - r.penalty
      weighed == IF ~signal /\ terms < 2 THEN raw \div 4 ELSE raw
  IN  [score |-> IF r.text = <<>> \/ (terms = 0 /\ ~r.number /\ ~unit) THEN 0 ELSE NonNegative(weighed),
       terms |-> terms, number |-> r.number, unit |-> unit, time |-> time, signal |-> signal,
       penalty |-> r.penalty]

\* group_evidence_boost over the documents of a group that have evidence.
EvidenceBoost(intent, evidence) ==
  LET docs == {d \in DOMAIN evidence : evidence[d].score > 0}
      total(f) == Sum(LAMBDA d : evidence[d][f], docs)
      count(f) == Cardinality({d \in docs : evidence[d][f]})
      n == Cardinality(docs)
      shared == AtMost(total("score"), 4000) + AtMost(n, 4) * 220 + AtMost(total("terms"), 8) * 40
                  + AtMost(count("signal"), 3) * 240
      own == CASE intent = "count" -> AtMost(NonNegative(n - 1), 3) * 220
               [] intent = "sum" -> AtMost(count("number"), 3) * 300 + AtMost(count("unit"), 3) * 180
               [] OTHER -> AtMost(count("time"), 4) * 300 + AtMost(count("number"), 2) * 120
  IN  IF n = 0 THEN 0 ELSE NonNegative(shared + own - AtMost(total("penalty"), 1500))

\* A question with an intent weighs a group by its evidence as well.
Weighed(index, q, items, plain) ==
  IF q.intent = "none" THEN plain
  ELSE (plain * 800) \div 1000
         + EvidenceBoost(q.intent, [d \in Elements(items) |-> Evidence(index, q, d)])

\* The groups of the ranked documents.
Grouped(index, ranked) ==
  LET key(d) == GroupKey(index.records[d], d)
  IN  [k \in {key(d) : d \in Elements(ranked)} |-> Within(ranked, {d \in Elements(ranked) : key(d) = k})]

\* Mutant: a group at its limit ends the answer.
Taken_StopsAtLimit(groups, limit, index) ==
  LET full(s) == index.records[s[1]].group # 0 /\ Len(s) >= GroupLimit
      first == Min({i \in DOMAIN groups : full(groups[i])} \cup {Len(groups)})
      allowed(s) == IF index.records[s[1]].group = 0 THEN s ELSE Take(s, GroupLimit)
  IN  Take(Seqs!FlattenSeq([i \in 1 .. first |-> allowed(groups[i])]), limit)

\* The answer: group after group, each with an id held to its limit.
Taken(groups, limit, index) ==
  LET allowed(s) == IF index.records[s[1]].group = 0 THEN s ELSE Take(s, GroupLimit)
  IN  Take(Seqs!FlattenSeq([i \in DOMAIN groups |-> allowed(groups[i])]), limit)

\* Groups are sorted by their score, then by their worth: the second sort keeps
\* the order of equals.
SortedGroups(order, items, plain, worth) ==
  LET sorted == Best(DOMAIN items, plain, [k \in DOMAIN items |-> order[items[k][1]]])
  IN  Best(DOMAIN items, worth, [k \in DOMAIN items |-> CHOOSE i \in DOMAIN sorted : sorted[i] = k])

Reranked(index, q, topK, order, score, items, plain) ==
  LET worth == [k \in DOMAIN items |-> Weighed(index, q, items[k], plain[k])]
      groups == SortedGroups(order, items, plain, worth)
      answer == Taken([i \in DOMAIN groups |-> items[groups[i]]],
                      AtMost(topK, Cardinality(index.table)), index)
  IN  [i \in DOMAIN answer |-> [doc |-> answer[i], score |-> score[answer[i]]]]

AnswerFrom(index, q, topK, order, rows, score) ==
  LET ranked == Take(Best({d \in DOMAIN score : score[d] > 0}, score, order),
                     AtMost(FinalWindow, Cardinality(index.table)))
      items == Grouped(index, ranked)
  IN  Reranked(index, q, topK, order, score, items,
               [k \in DOMAIN items |-> GroupScore(index, q, rows, score, items[k])])

\* query_with_lexical_hits_timed.
Answer(index, q, topK, order) ==
  LET rows == Scoped(index, q, order)
  IN  AnswerFrom(index, q, topK, order, rows, Scores(index, q, rows, order))
-----------------------------------------------------------------------------
(* The temporal caller *)

\* normalize_temporal_bounds.
Bounds(q) == IF q.start > 0 /\ q.end > 0 /\ q.start > q.end
             THEN [start |-> q.end, end |-> q.start] ELSE [start |-> q.start, end |-> q.end]

\* A question counts its time from the reference date, else from the start or
\* the end it was given as they were given, else from today.
RelativeAnchor(q) ==
  CASE q.reference > 0 -> q.reference
    [] q.reference = 0 /\ q.start > 0 -> q.start
    [] q.reference = 0 /\ q.start = 0 /\ q.end > 0 -> q.end
    [] OTHER -> Today

\* The day the question is about; 0 if its text names no time.
TargetOf(q) == ResolveTarget(q.phrases, RelativeAnchor(q)).date

Untimed(q, target) == target = 0 /\ q.start = 0 /\ q.end = 0 /\ q.hint = "none"

\* The temporal query asks the index for more, and for recency only when no
\* time is asked for.
IndexQuery(q, target) == [q EXCEPT !.recency = ~q.explicit /\ Untimed(q, target)]

SearchDepth(q) ==
  IF q.intent = "none" THEN Max({5 * q.topK, 20}) ELSE Max({10 * q.topK, 25})

\* A part of a weight that falls with the distance in days.
Nearness(days, window, weight) == (weight * NonNegative(window - days)) \div window

HintScore(q, date) ==
  LET days == Distance(date, Today)
  IN  CASE q.hint = "past" -> Flag(date <= Today, 30)
        [] q.hint = "present" -> Flag(days <= 30, Nearness(days, 30, 250))
        [] q.hint = "ongoing" -> Flag(days <= 14, Nearness(days, 14, 300))
        [] q.hint = "mixed" -> Flag(days <= 30, Nearness(days, 30, 150))
        [] OTHER -> 0

InRange(q, date) ==
  LET b == Bounds(q) IN (b.start = 0 \/ date >= b.start) /\ (b.end = 0 \/ date <= b.end)

InWindow(q, target, date) == target = 0 \/ Distance(date, target) <= Max({q.window, 1})

\* What a hard filter lets through.
Kept(q, target, date) == ~q.hard \/ (date > 0 /\ InRange(q, date) /\ InWindow(q, target, date))

TimeScore(q, target, date) ==
  IF date = 0 THEN 0
  ELSE Flag(InRange(q, date), 150)
       + Flag(target > 0 /\ InWindow(q, target, date),
              Nearness(Distance(date, target), Max({q.window, 1}), 450))
       + Flag(q.explicit /\ target = 0 /\ q.start = 0 /\ q.end = 0, HintScore(q, date))

\* The answer of the index by the time of its documents: some are dropped, the
\* others move, and equals keep their places.
InTime(index, q, target, found) ==
  LET date(hit) == DateOf(index.records[hit.doc])
      kept == Within(found, {hit \in Elements(found) : Kept(q, target, date(hit))})
      moved == [i \in DOMAIN kept |->
                  [kept[i] EXCEPT !.score = @ + TimeScore(q, target, date(kept[i]))]]
      places == Best(DOMAIN moved, [i \in DOMAIN moved |-> moved[i].score], [i \in DOMAIN moved |-> i])
  IN  [i \in DOMAIN places |-> moved[places[i]]]

TargetedAnswer(index, q, target, order) ==
  LET found == Answer(index, IndexQuery(q, target), SearchDepth(q), order)
  IN  Take(IF Untimed(q, target) THEN found ELSE InTime(index, q, target, found), q.topK)

\* query_with_temporal_context_at_and_statistics_with_local_terms.
TemporalAnswer(index, q, order) == TargetedAnswer(index, q, TargetOf(q), order)
=============================================================================
