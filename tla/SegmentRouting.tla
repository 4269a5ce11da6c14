--------------------------- MODULE SegmentRouting ---------------------------
(* How the coordinator ranks the segments of an index for a query: the seven  *)
(* routing strategies of src/segments.rs, the pool each draws its candidates  *)
(* from, the allow-list of documents and the boost of a temporal query.  A    *)
(* route is a record of a segment and its score.                              *)
EXTENDS SegmentCatalog

Strategies == {"SparseOverlap", "KlDivergence", "LocalDistinctiveness",
               "CoverageLocalDistinctiveness", "TeamCoverageLocalDistinctiveness",
               "CoverageTeamSelection", "TypedEvidence"}

\* Every document is allowed: the query carries no allow-list.
AllowAll == {0}

HasAllowed(docs, allowed) == allowed = AllowAll \/ \E d \in docs : d.id \in allowed

NoScore == -100000 \* the score of a segment without any distribution

SparseOverlapScore(summary, terms) ==
  Sum(LAMBDA t : summary.terms[t], terms)
    + (Sum(LAMBDA t : summary.entities[t], terms) * 130
       + Sum(LAMBDA t : summary.topics[t], terms) * 70) \div 100

\* ln of a share given in hundredths, in hundredths; nothing at all is smoothed
\* to one millionth.
LnShare(p) ==
  IF p = 0 THEN -1382
  ELSE IF p < 10 THEN -300 + 10 * p ELSE IF p < 50 THEN -250 + 4 * p ELSE p - 100

KlDivergenceScore(summary, terms) ==
  LET combined == Normalised([t \in Terms |->
        summary.terms[t] + (summary.entities[t] * 130 + summary.topics[t] * 70
                            + summary.memory[t] * 50 + 99) \div 100])
      n == Cardinality(terms)
  IN  IF n = 0 THEN 0
      ELSE IF Support(combined) = {} THEN NoScore
      ELSE Sum(LAMBDA t : LnShare(combined[t]) - LnShare(100 \div n), terms) \div n

LocalDistinctivenessScore(cat, s, terms) ==
  Sum(LAMBDA t : LocalTermWeight(cat.summary[s], t) * Idf(cat, t), terms) \div 100

\* The terms of a query a segment holds, and their weight by rarity and evidence.
Held(cat, s, terms) == {t \in terms : LocalTermWeight(cat.summary[s], t) > 0}

EvidenceWeight(cat, s, terms) ==
  Sum(LAMBDA t : (LocalTermWeight(cat.summary[s], t) * Idf(cat, t)
                   * EvidenceMultiplier(cat.summary[s], t)) \div 10000, terms)

RareShare(cat, part, terms) ==
  (100 * Sum(LAMBDA t : Idf(cat, t), part)) \div Max({1, Sum(LAMBDA t : Idf(cat, t), terms)})

TermShare(part, terms) == (100 * Cardinality(part)) \div Cardinality(terms)

CoverageScore(cat, s, terms) ==
  LET held == Held(cat, s, terms)
      rare == RareShare(cat, held, terms)
  IN  IF held = {} THEN 0
      ELSE (EvidenceWeight(cat, s, held) * (100 + rare)) \div 100 + 2 * rare
           + TermShare(held, terms) + (SqrtOf(Cardinality(held) - 1) * 75) \div 100

\* What a segment adds to the terms already covered.
TeamCoverageGain(cat, s, terms, covered) ==
  LET new  == Held(cat, s, terms) \ covered
      rare == RareShare(cat, new, terms)
  IN  IF new = {} THEN 0
      ELSE (EvidenceWeight(cat, s, new) * (100 + rare)) \div 100
           + (rare * 250) \div 100 + TermShare(new, terms)
-----------------------------------------------------------------------------
(* Coverage-team selection: terms, kinds of evidence, connections and time *)

ConnectionTerms(summary) ==
  TopTerms(summary.entities, 16) \cup TopTerms(summary.topics, 8)
    \cup (TopTerms(summary.memory, 16) \cap EnrichmentTerms)

HasTemporalSignal(docs) == \E d \in docs : d.date > 0 \/ d.temporal # {}

NoCoverage == [terms |-> {}, evidence |-> {}, connections |-> {}, temporal |-> FALSE]

EvidenceKeys(cat, s, terms) ==
  UNION {{<<k, t>> : k \in EvidenceTypes(cat.summary[s], t)} : t \in terms}

\* add_segment: a selected segment joins the team.
TeamWith(cat, corpus, s, terms, team) ==
  [terms       |-> team.terms \cup Held(cat, s, terms),
   evidence    |-> team.evidence \cup EvidenceKeys(cat, s, terms),
   connections |-> team.connections \cup ConnectionTerms(cat.summary[s]),
   temporal    |-> team.temporal \/ HasTemporalSignal(corpus[s])]

TeamGain(cat, corpus, s, terms, team) ==
  LET held    == Held(cat, s, terms)
      new     == held \ team.terms
      rare    == RareShare(cat, new, terms)
      keys    == EvidenceKeys(cat, s, held) \ team.evidence
      links   == AtMost(Cardinality(ConnectionTerms(cat.summary[s]) \ team.connections), 4)
      bonus   == [entity |-> 75, local_memory |-> 65, topic |-> 45, term |-> 30]
      weight  == (EvidenceWeight(cat, s, new) * 135
                   + EvidenceWeight(cat, s, held \cap team.terms) * 18) \div 100
                 + Sum(LAMBDA k : (bonus[k[1]] * Idf(cat, k[2])) \div 100, keys)
      timely  == IF HasTemporalSignal(corpus[s]) /\ ~team.temporal THEN 90 ELSE 0
  IN  IF terms = {} THEN 0
      ELSE IF new = {} /\ keys = {} /\ links = 0 THEN timely
      ELSE (weight * (100 + rare)) \div 100 + (rare * 280) \div 100 + TermShare(new, terms)
           + Cardinality(keys) * 45 + links * 20 + timely
-----------------------------------------------------------------------------
(* Ranking the segments *)

Route(s, score) == [segment |-> s, score |-> score]

\* Routes, best first.
ByRoute(R) ==
  Ranked(R, LAMBDA a, b : a.score > b.score \/ (a.score = b.score /\ a.segment < b.segment))

Segments(routes) == {routes[i].segment : i \in DOMAIN routes}

\* bounded_routing_candidates: the proposals, or the first segments in order.
RoutingPool(cat, terms) ==
  LET proposed == BoundedCandidates(cat, terms)
  IN  IF proposed # <<>> THEN Elements(proposed)
      ELSE Elements(Take(ByScore(SegmentIds(cat), LAMBDA s : 0), PoolLimit))

BaseScores(cat, terms) == [s \in RoutingPool(cat, terms) |-> CoverageScore(cat, s, terms)]

\* What the head of an order still has open; when nothing, what is left of it all.
Open(order, routes, width) ==
  LET left(w) == Elements(Take(order, w)) \ Segments(routes)
  IN  IF left(width) = {} THEN left(Len(order)) ELSE left(width)

BaseOrder(base) == ByScore(DOMAIN base, LAMBDA s : base[s])

\* The next segment of a greedy team: the best of those open in the head of the
\* base order, by what it adds to the team and by a share of its own score.
Grown(base, done, width, Gain(_), share, Joined(_)) ==
  LET Value(s) == Gain(s) + (base[s] * share) \div 100
      best     == ByScore(Open(BaseOrder(base), done.routes, width), Value)[1]
  IN  [routes |-> Append(done.routes, Route(best, Value(best))), team |-> Joined(best)]

CoveringTeam(cat, terms, base, n, done) ==
  Grown(base, done, Max({n * 3, 8}),
        LAMBDA s : TeamCoverageGain(cat, s, terms, done.team), 200,
        LAMBDA s : done.team \cup Held(cat, s, terms))

TeamCoverageRoutes(cat, terms) ==
  LET base == BaseScores(cat, terms)
      team[n \in 0 .. Len(BaseOrder(base))] ==
        IF n = 0 THEN [routes |-> <<>>, team |-> {}]
        ELSE CoveringTeam(cat, terms, base, n, team[n - 1])
  IN  team[Len(BaseOrder(base))].routes

EvidenceTeam(cat, corpus, terms, base, n, done) ==
  Grown(base, done, Max({n * 5, 16}),
        LAMBDA s : TeamGain(cat, corpus, s, terms, done.team), 160,
        LAMBDA s : TeamWith(cat, corpus, s, terms, done.team))

CoverageTeamRoutes(cat, corpus, terms) ==
  LET base == BaseScores(cat, terms)
      team[n \in 0 .. Len(BaseOrder(base))] ==
        IF n = 0 THEN [routes |-> <<>>, team |-> NoCoverage]
        ELSE EvidenceTeam(cat, corpus, terms, base, n, team[n - 1])
  IN  team[Len(BaseOrder(base))].routes

\* Typed routing scores the segments that share a typed value with the query
\* or that the catalog proposes; with no such segment, all of them.
TypedEvidenceRoutes(cat, q) ==
  LET profile  == QueryProfile(q)
      proposed == TypedCandidates(cat, profile) \cup Elements(BoundedCandidates(cat, q.terms))
      pool     == IF proposed = {} THEN SegmentIds(cat) ELSE proposed
  IN  ByRoute({Route(s, CoverageScore(cat, s, q.terms)
                        + (TypedEvidenceScore(profile, cat.profile[s]) * 115) \div 100)
                 : s \in pool})

\* Sparse and local routing read the inverted catalog and score nothing when it
\* proposes nothing; the divergence is computed for every segment.
ScoredRoutes(cat, q, strategy) ==
  LET proposed == Elements(BoundedCandidates(cat, q.terms))
      Score(s) == CASE strategy = "SparseOverlap" -> SparseOverlapScore(cat.summary[s], q.terms)
                    [] strategy = "KlDivergence" -> KlDivergenceScore(cat.summary[s], q.terms)
                    [] strategy = "LocalDistinctiveness" ->
                         LocalDistinctivenessScore(cat, s, q.terms)
                    [] strategy = "CoverageLocalDistinctiveness" ->
                         CoverageScore(cat, s, q.terms)
  IN  ByRoute(IF strategy = "KlDivergence" THEN {Route(s, Score(s)) : s \in SegmentIds(cat)}
              ELSE IF proposed = {} THEN {Route(s, 0) : s \in SegmentIds(cat)}
              ELSE {Route(s, Score(s)) : s \in proposed})

Routes(cat, corpus, q, strategy) ==
  CASE strategy = "TeamCoverageLocalDistinctiveness" -> TeamCoverageRoutes(cat, q.terms)
    [] strategy = "CoverageTeamSelection" -> CoverageTeamRoutes(cat, corpus, q.terms)
    [] strategy = "TypedEvidence" -> TypedEvidenceRoutes(cat, q)
    [] OTHER -> ScoredRoutes(cat, q, strategy)

RouteHasSignal(route, strategy, terms) ==
  terms # {} /\ IF strategy = "KlDivergence" THEN route.score > NoScore ELSE route.score > 0
-----------------------------------------------------------------------------
(* Temporal queries *)

Distance(a, b) == IF a >= b THEN a - b ELSE b - a

\* segment_temporal_route_boost: documents near the query date lift a segment.
TemporalBoost(docs, ctx) ==
  LET Near(d) == Distance(d.date, ctx.end)
      Proximity(d) ==
        IF Near(d) > ctx.window THEN 0 ELSE 125 - (125 * Near(d)) \div ctx.window
      Hinted(d) == CASE ctx.hint = "past" /\ d.date <= ctx.end -> 18
                     [] ctx.hint \in {"present", "ongoing"} /\ Near(d) <= 30 -> 22
                     [] ctx.hint = "mixed" /\ Near(d) <= 30 -> 12
                     [] OTHER -> 0
      Lift(d) == (IF d.temporal # {} THEN 8 ELSE 0)
                 + IF d.date = 0 THEN 0
                   ELSE IF ctx.end = 0 THEN 5 ELSE Proximity(d) + Hinted(d)
  IN  IF ~ctx.explicit /\ ctx.hint = "none" THEN 0 ELSE AtMost(Sum(Lift, docs), 200)

\* Routes that forget the allow-list of documents.
TemporalRoutes_Unscoped(corpus, routes, ctx) ==
  ByRoute({Route(r.segment, r.score + TemporalBoost(corpus[r.segment], ctx)) : r \in Elements(routes)})

\* The routes of an enriched query: eligible segments, lifted and sorted again.
TemporalRoutes(corpus, routes, ctx) ==
  LET eligible == {r \in Elements(routes) : HasAllowed(corpus[r.segment], ctx.allowed)}
  IN  ByRoute({Route(r.segment, r.score + TemporalBoost(corpus[r.segment], ctx)) : r \in eligible})
=============================================================================
