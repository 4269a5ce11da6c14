---------------------------- MODULE SegmentQuery ----------------------------
(* One query over a published snapshot: the allow-list the query plan derives *)
(* from filters and supersession (src/query_plan.rs, src/pipeline.rs), the    *)
(* plan of segments, their execution in batches or all at once, and the       *)
(* reduction of their hits into one answer (src/segments.rs).  What a segment *)
(* answers on its own is an input: every document carries its score.          *)
EXTENDS SegmentExpansion

CONSTANTS Publications, \* what is published: documents and a persisted manifest
          Requests,     \* the queries
          Concurrency,  \* MAX_LOCAL_SEGMENT_QUERY_CONCURRENCY
          TermLimit,    \* SEGMENT_ENRICHMENT_TERM_LIMIT
          Panics        \* whether the query of a segment may panic

\* A document of a snapshot, as SegmentCatalog describes it; hit may be negative.
IsDocument(d) ==
  /\ d.id \in Nat \ {0} /\ {d.group, d.date, d.graph} \subseteq Nat /\ d.hit \in Int
  /\ {d.terms, d.entities} \subseteq [Terms -> Nat]
  /\ d.topic \in Terms \cup {0} /\ d.content \in Seq(Terms)
  /\ d.people \cup d.headings \cup d.temporal \subseteq Terms

IsRequest(r) ==
  /\ r.strategy \in Strategies /\ r.terms \cup r.capitals \subseteq Terms
  /\ {r.topK, r.limit, r.maxLimit, r.end, r.window} \subseteq Nat

ASSUME QueryAssumption == {Concurrency, TermLimit} \subseteq Nat \ {0} /\ Panics \in BOOLEAN

\* What is published is finite, and an identifier names one document.
ASSUME PublicationAssumption == \A p \in Publications :
  /\ IsFiniteSet(p.docs) /\ \A d \in p.docs : IsDocument(d)
  /\ \A d, e \in p.docs : d.id = e.id => d = e
  /\ IsFiniteSet(DOMAIN p.manifest) /\ DOMAIN p.manifest \subseteq Nat

ASSUME RequestAssumption == \A r \in Requests : IsRequest(r)

VARIABLES corpus,   \* the documents of each segment
          catalog,  \* the catalog published with them
          request,  \* the query
          stage,    \* "new", "planned", "reducing", "answered" or "panicked"
          ctx,      \* the temporal context handed to the segments, with the allow-list
          routed,   \* the ranked routes the plan was taken from
          plan,     \* the routes to execute, in order
          outcomes, \* what the executed segments returned, in plan order
          answer    \* the results, best first

queryVars == <<corpus, catalog, request, stage, ctx, routed, plan, outcomes, answer>>

Documents == UNION {corpus[s] : s \in DOMAIN corpus}

NoContext == [explicit |-> FALSE, hint |-> "none", start |-> FALSE, end |-> 0, window |-> 7,
              allowed |-> AllowAll]
-----------------------------------------------------------------------------
(* The allow-list of a prepared query *)

\* The pairs of a filter map that some document of an index carries: the code
\* looks every pair up in the postings and skips the ones without.
Carries(d, filters, k) == k \in DOMAIN d.filters /\ d.filters[k] = filters[k]

KnownPairs(docs, filters) == {k \in DOMAIN filters : \E d \in docs : Carries(d, filters, k)}

\* doc_ids_matching_filters of one index.
IndexMatches(docs, filters) ==
  LET known == KnownPairs(docs, filters)
  IN  CASE DOMAIN filters = {} -> AllowAll
        [] DOMAIN filters # {} /\ known = {} -> {}
        [] OTHER -> {d.id : d \in {e \in docs : \A k \in known : Carries(e, filters, k)}}

\* doc_ids_matching_filters of a segmented snapshot, segment by segment.
SnapshotMatches(docsOf, filters) ==
  IF DOMAIN filters = {} THEN AllowAll
  ELSE UNION {IndexMatches(docsOf[s], filters) : s \in DOMAIN docsOf}

\* semantic_allowed_doc_ids: an ordinary query keeps what is not superseded.
SemanticAllowed(docs, historical) ==
  IF historical \/ ~\E d \in docs : d.superseded THEN AllowAll
  ELSE {d.id : d \in {e \in docs : ~e.superseded}}

Intersected(left, right) ==
  CASE left = AllowAll -> right
    [] right = AllowAll -> left
    [] OTHER -> left \cap right

Allowed(docsOf, r) ==
  Intersected(SnapshotMatches(docsOf, r.filters),
              SemanticAllowed(UNION {docsOf[s] : s \in DOMAIN docsOf}, r.historical))

\* With one segment there is nothing to route: its filter bitmap is the only
\* allow-list of the search.
OneSegmentAllowed(docsOf, r) == SnapshotMatches(docsOf, r.filters)

\* The context of a request: its temporal reading and the allow-list.
WindowOf(hint) ==
  CASE hint = "past" -> 365 [] hint = "ongoing" -> 14 [] hint \in {"present", "mixed"} -> 30 [] OTHER -> 7

PreparedContext(r, allowed) ==
  [NoContext EXCEPT !.explicit = r.explicit, !.allowed = allowed,
                    !.hint = IF r.explicit THEN r.hint ELSE "none",
                    !.window = WindowOf(r.hint)]

\* A caller of the library gives the context itself, and its own allow-list.
GivenContext(r) ==
  [explicit |-> r.explicit, hint |-> r.hint, start |-> FALSE, end |-> r.end,
   window |-> Max({r.window, 1}), allowed |-> r.scope]
-----------------------------------------------------------------------------
(* Local enrichment *)

\* The terms of documents that hold a query term, by how often they occur there.
LocalFrequency(docs, terms, t) ==
  Sum(LAMBDA source :
        LET posting == {d \in docs : d.terms[source] > 0}
        IN  Sum(LAMBDA d : (Max({d.terms[t], 10}) * 55) \div (100 * Cardinality(posting)),
                {d \in posting : d.terms[t] > 0}),
      terms)

\* Labels a temporal query adds for the dates of a segment.
DateLabel(docs, c, t) ==
  LET dated == {d \in docs : d.date > 0}
      near == Cardinality({d \in dated : Distance(d.date, c.end) <= c.window})
      at(name, n, weight) == IF Label[name] = t THEN n * weight ELSE 0
  IN  IF c.end = 0 THEN 0
      ELSE (IF c.hint = "none" THEN 0 ELSE at(c.hint, 1, 60))
           + at("near", near, 240) + at("recent", near, 120)
           + at("before", Cardinality({d \in dated : d.date < c.end}), 90)
           + at("after", Cardinality({d \in dated : d.date > c.end}), 90)
           + at("same", Cardinality({d \in dated : d.date = c.end}), 100)

TemporalWeight(docs, c, terms, t) ==
  IF ~TemporalActive(c) THEN 0
  ELSE 190 * Cardinality({d \in docs : t \in d.temporal \ terms}) + DateLabel(docs, c, t)

\* enriched_query: the heaviest terms only this segment holds, or temporal ones.
AddedTerms(docs, s, terms, c) ==
  LET sum == catalog.summary[s]
      lexical(t) == 100 * LocalFrequency(docs, terms, t) + sum.memory[t] * 160
                    + sum.entities[t] * 140 + sum.topics[t] * 110 + sum.terms[t] * 80
      weight(t) == lexical(t) + 100 * TemporalWeight(docs, c, terms, t)
      open == {t \in EnrichmentTerms \ terms :
                 weight(t) > 0 /\ (lexical(t) = 0 \/ IsUniqueTo(catalog, t, s))}
  IN  Elements(Take(ByScore(open, weight), TermLimit))
-----------------------------------------------------------------------------
(* Hits and their reduction *)

Hit(d, score) == [doc |-> d, id |-> d.id, group |-> d.group, score |-> score]

ByHit(H) ==
  Ranked(H, LAMBDA a, b : a.score > b.score \/ (a.score = b.score /\ a.id < b.id))

CandidateLimit == 2 * request.topK

\* What a segment answers on its own: its best allowed documents.
Hits(s, c) ==
  Take(ByHit({Hit(d, d.hit) : d \in {e \in corpus[s] :
                 e.hit > 0 /\ (c.allowed = AllowAll \/ e.id \in c.allowed)}}), CandidateLimit)

ResultTerms(d) ==
  Support(d.terms) \cup Support(d.entities) \cup d.temporal \cup ({d.topic} \ {0})

\* normalize_positive_score.
Share(score, most) ==
  IF most > 0 THEN AtMost((100 * NonNegative(score)) \div most, 100) ELSE NonNegative(score)

\* aggregate_segment_results_by_session: every document of a group gets the
\* score of the group, its best document backed by the next four, by what they
\* matched and by what the links and entities of the index gave them.
SessionScore(hits, terms) ==
  LET ranked  == ByHit(hits)
      support == Sum(LAMBDA i : NonNegative(ranked[i].score) * 35,
                     2 .. AtMost(Len(ranked), 5)) \div 100
      matched == Cardinality(UNION {ResultTerms(h.doc) \cap terms : h \in hits})
      people  == Cardinality(UNION {Support(h.doc.entities) \cap terms : h \in hits})
  IN  ranked[1].score + support + (AtMost(matched, 8) * 25) \div 10
      + AtMost(people, 6) * 5 + AtMost(Len(ranked), 4) * 4
      + (AtMost(Sum(LAMBDA h : h.doc.graph, hits), 150) * 20) \div 100

BySession(hits, terms) ==
  LET group(g) == {h \in hits : h.group = g}
      groups   == ByScore({h.group : h \in hits}, LAMBDA g : SessionScore(group(g), terms))
      member(n) == LET g == groups[n]
                       ranked == ByHit(group(g))
                   IN  [i \in DOMAIN ranked |->
                          [ranked[i] EXCEPT !.score = SessionScore(group(g), terms)]]
      all[n \in 0 .. Len(groups)] == IF n = 0 THEN <<>> ELSE all[n - 1] \o member(n)
  IN  all[Len(groups)]

\* finalize_segment_results.
Finalized(hits, aggregate) ==
  Take(IF aggregate THEN BySession(hits, request.terms) ELSE ByHit(hits), request.topK)

-----------------------------------------------------------------------------
(* Route-aware selection *)

DateScore(d, c) ==
  LET delta == d.date - c.end
      far   == Distance(d.date, c.end)
      hinted == CASE c.hint = "past" /\ delta <= 0 -> 40
                  [] c.hint \in {"present", "ongoing"} /\ far <= c.window -> 40
                  [] c.hint = "mixed" /\ far <= 4 * c.window -> 20
                  [] OTHER -> 0
  IN  IF ~c.explicit /\ c.hint = "none" /\ c.end = 0 THEN 0
      ELSE (IF d.temporal = {} THEN 0 ELSE 40)
           + IF d.date = 0 THEN 0
             ELSE IF c.end = 0 THEN 20
             ELSE hinted + IF far <= c.window THEN 100 - (100 * far) \div c.window ELSE 0

\* RouteAwareCandidate: a hit with its evidence and its score before coverage.
Candidate(hit, route, best, bestRoute, added) ==
  LET sum     == catalog.summary[route.segment]
      terms   == ResultTerms(hit.doc)
      queried == terms \cap request.terms
      gained  == terms \cap added
      local   == Sum(LAMBDA t : (LocalTermWeight(sum, t) * EvidenceMultiplier(sum, t)) \div 100,
                     terms)
  IN  [hit |-> hit, segment |-> route.segment, evidence |-> queried \cup gained,
       base |-> Share(hit.score, best) + (Share(route.score, bestRoute) * 35) \div 100
                + Cardinality(queried) * 18 + Cardinality(gained) * 14
                + (AtMost(local, 300) * 12) \div 100 + DateScore(hit.doc, ctx) \div 10
                - (IF queried \cup gained = {} THEN 18 ELSE 0)]

SelectionScore(c, covered, represented) ==
  c.base + 16 * Cardinality(c.evidence \ covered)
    + IF c.segment \in represented THEN 0 ELSE 28

\* A selection that reports the score before coverage.
Picked_BaseScore(done) ==
  LET score(c) == SelectionScore(c, done.covered, done.segments)
      rank     == [c \in done.left |-> <<score(c), -c.hit.id>>]
      best     == ByRank(done.left, rank)[1]
  IN  [hits     |-> Append(done.hits, [best.hit EXCEPT !.score = best.base]),
       left     |-> done.left \ {best},
       covered  |-> done.covered \cup best.evidence,
       segments |-> done.segments \cup {best.segment}]

\* One candidate more, the best by what it still adds; the score it is selected
\* with becomes its score.
Picked(done) ==
  LET score(c) == SelectionScore(c, done.covered, done.segments)
      rank     == [c \in done.left |-> <<score(c), -c.hit.id>>]
      best     == ByRank(done.left, rank)[1]
  IN  [hits     |-> Append(done.hits, [best.hit EXCEPT !.score = score(best)]),
       left     |-> done.left \ {best},
       covered  |-> done.covered \cup best.evidence,
       segments |-> done.segments \cup {best.segment}]

NothingPicked(candidates) ==
  [hits |-> <<>>, left |-> candidates, covered |-> {}, segments |-> {}]

\* select_route_aware_top_k: one candidate after the other.
RouteAwareSelection(candidates) ==
  LET most == AtMost(request.topK, Cardinality(candidates))
      pick[n \in 0 .. most] ==
        IF n = 0 THEN NothingPicked(candidates) ELSE Picked(pick[n - 1])
  IN  pick[most].hits
-----------------------------------------------------------------------------
(* Publishing a segmented snapshot *)

\* build_segments_by_group_id: one segment per group.
GroupSegments(docs) == [g \in {d.group : d \in docs} |-> {d \in docs : d.group = g}]

\* from_records_by_manifest: every entry names documents that exist, none is
\* empty, no document is assigned twice and none is left out.
ValidManifest(docs, manifest) ==
  /\ \A s \in DOMAIN manifest : manifest[s] # {} /\ manifest[s] \subseteq {d.id : d \in docs}
  /\ \A s, r \in DOMAIN manifest : s # r => manifest[s] \cap manifest[r] = {}
  /\ UNION {manifest[s] : s \in DOMAIN manifest} = {d.id : d \in docs}

Published(p) ==
  IF ValidManifest(p.docs, p.manifest)
  THEN [s \in DOMAIN p.manifest |-> {d \in p.docs : d.id \in p.manifest[s]}]
  ELSE GroupSegments(p.docs)

QueryInit ==
  /\ \E p \in Publications : corpus = Published(p)
  /\ catalog = Catalog(corpus)
  /\ request \in Requests
  /\ stage = "new"
  /\ ctx = NoContext
  /\ routed = <<>> /\ plan = <<>> /\ outcomes = <<>> /\ answer = <<>>
-----------------------------------------------------------------------------
(* Planning *)

IsEmptyRequest == request.topK = 0 \/ request.limit = 0

Planned(c, routes, chosen) ==
  /\ stage = "new" /\ ~IsEmptyRequest
  /\ stage' = "planned" /\ ctx' = c /\ routed' = routes /\ plan' = chosen
  /\ UNCHANGED <<corpus, catalog, request, outcomes, answer>>

\* A request for nothing is answered with nothing.
AnswerEmpty ==
  /\ stage = "new" /\ IsEmptyRequest
  /\ stage' = "answered"
  /\ UNCHANGED <<corpus, catalog, request, ctx, routed, plan, outcomes, answer>>

\* One published segment: its own search is the answer.
SearchOneSegment ==
  /\ stage = "new" /\ ~IsEmptyRequest
  /\ request.mode \in {"segmented", "adaptive"} /\ Cardinality(DOMAIN corpus) = 1
  /\ \E s \in DOMAIN corpus :
       LET c == PreparedContext(request, OneSegmentAllowed(corpus, request))
       IN  ctx' = c /\ answer' = Take(Hits(s, c), request.topK)
  /\ stage' = "answered"
  /\ UNCHANGED <<corpus, catalog, request, routed, plan, outcomes>>

\* A plan that takes routing for the list of all segments.
DefaultPlan_RoutedOnly(ranked, c, executeAll) ==
  LET routes == Within(ranked, {r \in Elements(ranked) : HasAllowed(corpus[r.segment], c.allowed)})
  IN  [routes |-> routes, chosen |-> Take(routes, request.limit)]

\* query_top_segments: the routes with a signal, up to the limit; the others
\* when none has one, or to fill the plan when every segment is to be searched.
DefaultPlan(ranked, c, executeAll) ==
  LET eligible(s) == HasAllowed(corpus[s], c.allowed)
      known    == Within(ranked, {r \in Elements(ranked) : eligible(r.segment)})
      unrouted == {s \in DOMAIN corpus : eligible(s) /\ s \notin Segments(known)}
      routes   == IF executeAll
                  THEN known \o ByRoute({Route(s, 0) : s \in unrouted}) ELSE known
      signal   == {r \in Elements(routes) : RouteHasSignal(r, request.strategy, request.terms)}
      chosen   == Take(Within(routes, signal), request.limit)
      room     == IF executeAll \/ chosen = <<>> THEN request.limit - Len(chosen) ELSE 0
  IN  [routes |-> routes,
       chosen |-> chosen \o Take(Within(routes, Elements(routes) \ signal), room)]

PlanSegmented(ranked) ==
  /\ request.mode = "segmented" /\ Cardinality(DOMAIN corpus) > 1
  /\ \E c \in {PreparedContext(request, Allowed(corpus, request))} :
     \E p \in {DefaultPlan(ranked, c, FALSE)} : Planned(c, p.routes, p.chosen)

PlanAll(ranked) ==
  /\ request.mode = "all"
  /\ \E c \in {GivenContext(request)} :
     \E p \in {DefaultPlan(ranked, c, TRUE)} : Planned(c, p.routes, p.chosen)

PlanAdaptive(c, ranked) ==
  /\ request.mode = "adaptive" /\ Cardinality(DOMAIN corpus) > 1
  /\ Planned(c, ranked,
             AdaptiveRoutes(catalog, request.terms, ranked, request.limit, request.maxLimit))

PlanAdaptiveRouteAware(c, ranked) ==
  /\ request.mode = "adaptive_route_aware"
  /\ Planned(c, ranked,
             AdaptiveRoutes(catalog, request.terms, ranked, request.limit, request.maxLimit))

\* The library's other enriched queries take the head of the routes as it is.
TopRoutes(mode, c, ranked) ==
  request.mode = mode /\ Planned(c, ranked, Take(ranked, request.limit))

PlanEnriched(c, ranked) == TopRoutes("enriched", c, ranked)
PlanRouteAware(c, ranked) == TopRoutes("route_aware", c, ranked)
PlanSessionAggregated(c, ranked) == TopRoutes("session", c, ranked)

PlanTemporalPath(c, ranked) ==
  /\ request.mode = "temporal_path"
  /\ Planned(c, ranked, TemporalPathRoutes(corpus, Take(ranked, request.limit), request.limit, c))

PlanConnected(c, ranked) ==
  /\ request.mode = "connected"
  /\ Planned(c, ranked,
             ConnectedRoutes(catalog, corpus, Take(ranked, request.limit), ranked,
                             request.limit, c))

PlanRecovery(c, ranked) ==
  /\ request.mode = "recovery"
  /\ Planned(c, ranked,
             RecoveredRoutes(catalog, request.terms, Take(ranked, request.limit), ranked))

\* Only the store prepares a context; a caller of the library gives one.
EnrichedContext ==
  IF request.mode = "adaptive" THEN PreparedContext(request, Allowed(corpus, request))
  ELSE GivenContext(request)

PlanWithin(c, ranked) ==
  \/ PlanAdaptive(c, ranked) \/ PlanAdaptiveRouteAware(c, ranked)
  \/ PlanEnriched(c, ranked) \/ PlanRouteAware(c, ranked) \/ PlanSessionAggregated(c, ranked)
  \/ PlanTemporalPath(c, ranked) \/ PlanConnected(c, ranked) \/ PlanRecovery(c, ranked)

\* A query with routes, ranked for it by its strategy; an enriched one lifts
\* them by time and drops those its allow-list excludes.
Plan ==
  /\ stage = "new"
  /\ \E routes \in {Routes(catalog, corpus, request, request.strategy)} :
       \/ PlanSegmented(routes)
       \/ PlanAll(routes)
       \/ \E c \in {EnrichedContext} : \E ranked \in {TemporalRoutes(corpus, routes, c)} :
            PlanWithin(c, ranked)

\* The layout of one index: no segments, the allow-list is all there is.
SearchSingleIndex ==
  /\ stage = "new" /\ request.mode = "single" /\ ~IsEmptyRequest
  /\ LET c == PreparedContext(request,
                Intersected(IndexMatches(Documents, request.filters),
                            SemanticAllowed(Documents, request.historical)))
         found == {Hit(d, d.hit) : d \in {e \in Documents :
                     e.hit > 0 /\ (c.allowed = AllowAll \/ e.id \in c.allowed)}}
     IN  ctx' = c /\ answer' = Take(ByHit(found), request.topK)
  /\ stage' = "answered"
  /\ UNCHANGED <<corpus, catalog, request, routed, plan, outcomes>>
-----------------------------------------------------------------------------
(* Execution *)

DefaultModes == {"segmented", "all"}
RouteAwareModes == {"route_aware", "adaptive_route_aware"}
SessionModes == {"session", "connected"}

Outcome(s, failed) == [segment |-> s, failed |-> failed, hits |-> IF failed THEN <<>> ELSE Hits(s, ctx)]

\* execute_selected_segments: one batch of at most Concurrency segments in
\* parallel; the panic of a segment is caught and becomes its failure.
ExecuteBatch ==
  /\ stage = "planned" /\ request.mode \in DefaultModes /\ Len(outcomes) < Len(plan)
  /\ LET batch == Len(outcomes) + 1 .. AtMost(Len(outcomes) + Concurrency, Len(plan))
     IN  \E failed \in IF Panics THEN SUBSET batch ELSE {{}} :
           outcomes' = outcomes \o [i \in 1 .. Cardinality(batch) |->
             Outcome(plan[Len(outcomes) + i].segment, Len(outcomes) + i \in failed)]
  /\ UNCHANGED <<corpus, catalog, request, stage, ctx, routed, plan, answer>>

ReduceDefault ==
  /\ stage = "planned" /\ request.mode \in DefaultModes /\ Len(outcomes) = Len(plan)
  /\ answer' = Finalized(UNION {Elements(outcomes[i].hits) : i \in DOMAIN outcomes}, TRUE)
  /\ stage' = "answered"
  /\ UNCHANGED <<corpus, catalog, request, ctx, routed, plan, outcomes>>

\* The enriched path runs every segment of the plan in parallel and catches
\* nothing: a panic ends the query.
ExecuteEnriched ==
  /\ stage = "planned" /\ request.mode \notin DefaultModes
  /\ outcomes' = [i \in DOMAIN plan |-> Outcome(plan[i].segment, FALSE)]
  /\ stage' = "reducing"
  /\ UNCHANGED <<corpus, catalog, request, ctx, routed, plan, answer>>

PanicEnriched ==
  /\ stage = "planned" /\ request.mode \notin DefaultModes /\ Panics /\ plan # <<>>
  /\ stage' = "panicked"
  /\ UNCHANGED <<corpus, catalog, request, ctx, routed, plan, outcomes, answer>>

BestRoute == Max({0} \cup {r.score : r \in Elements(plan)})

Candidates ==
  UNION {LET hits == Elements(outcomes[i].hits)
             best == Max({0} \cup {h.score : h \in hits})
             added == AddedTerms(corpus[plan[i].segment], plan[i].segment, request.terms, ctx)
         IN  {Candidate(h, plan[i], best, BestRoute, added) : h \in hits} : i \in DOMAIN plan}

\* The hits of the plan; a session reduction first lifts them by their route.
EnrichedHits(lifted) ==
  UNION {{[h EXCEPT !.score = @ + IF lifted THEN (Share(plan[i].score, BestRoute) * 25) \div 100
                                            ELSE 0]
            : h \in Elements(outcomes[i].hits)} : i \in DOMAIN plan}

ReduceEnriched ==
  /\ stage = "reducing"
  /\ answer' = IF request.mode \in RouteAwareModes
               THEN Finalized(Elements(RouteAwareSelection(Candidates)), FALSE)
               ELSE Finalized(EnrichedHits(request.mode \in SessionModes),
                              request.mode \in SessionModes)
  /\ stage' = "answered"
  /\ UNCHANGED <<corpus, catalog, request, ctx, routed, plan, outcomes>>

\* What an answer of the default path says of its own completeness.
IsComplete ==
  LET successful == {i \in DOMAIN outcomes : ~outcomes[i].failed}
  IN  successful = DOMAIN outcomes /\ Cardinality(successful) = Len(plan)

Terminated == stage \in {"answered", "panicked"} /\ UNCHANGED queryVars

QueryNext == \/ AnswerEmpty \/ SearchOneSegment \/ SearchSingleIndex \/ Plan
        \/ ExecuteBatch \/ ReduceDefault
        \/ ExecuteEnriched \/ PanicEnriched \/ ReduceEnriched
        \/ Terminated

QuerySpec == QueryInit /\ [][QueryNext]_queryVars
-----------------------------------------------------------------------------
(* Properties *)

\* The stages of a query and what each has established: no outcome without a
\* planned route for it, no document of an answer outside the snapshot.
QueryTypeOK ==
  /\ stage \in {"new", "planned", "reducing", "answered", "panicked"}
  /\ Len(outcomes) <= Len(plan)
  /\ \A i \in DOMAIN outcomes : outcomes[i].segment = plan[i].segment
  /\ Segments(plan) \subseteq DOMAIN corpus
  /\ {answer[i].doc : i \in DOMAIN answer} \subseteq Documents
  /\ Len(answer) <= request.topK

\* Routing narrows, widening and recovery work on what routing returned: no
\* query is planned on the same segment twice, and, apart from the two
\* expansions that follow dates and connections, none runs a segment without
\* an allowed document.
PlanIsEligible ==
  /\ \A i, j \in DOMAIN plan : i # j => plan[i].segment # plan[j].segment
  /\ request.mode \notin {"temporal_path", "connected"} =>
       \A s \in Segments(plan) : HasAllowed(corpus[s], ctx.allowed)

\* The swap that recovers missing coverage never gives up a query term the
\* selection covered, and it only happens for one it did not: a segment that
\* alone covers a term is never weak enough to be replaced.
RecoveryGrowsCoverage ==
  request.mode = "recovery" /\ stage # "new" /\ ~IsEmptyRequest =>
    LET before  == Segments(Take(routed, request.limit))
        Reached(S) == CoveredTerms(catalog, request.terms, S)
    IN  /\ Reached(before) \subseteq Reached(Segments(plan))
        /\ Segments(plan) # before => Reached(before) # Reached(Segments(plan))
        /\ Len(plan) = Cardinality(before)

\* A route-aware answer is in the order it was selected in: the score a hit was
\* picked with never exceeds that of a hit picked before it, so the reduction
\* that sorts the selection again leaves it alone.
SelectionOrderIsFinal ==
  request.mode \in RouteAwareModes /\ stage = "answered" /\ ~IsEmptyRequest =>
    answer = RouteAwareSelection(Candidates)

\* An answer over every segment that says it is complete was reduced from a
\* pool that holds the best documents of the whole snapshot: no segment that
\* holds an allowed document was left out, by routing, by the batches or by a
\* failure.
CompleteAnswerSawTheBest ==
  request.mode = "all" /\ request.limit >= Cardinality(DOMAIN corpus)
      /\ stage = "answered" /\ ~IsEmptyRequest /\ IsComplete =>
    LET eligible == {Hit(d, d.hit) : d \in {e \in Documents :
                       e.hit > 0 /\ (request.scope = AllowAll \/ e.id \in request.scope)}}
    IN  Elements(Take(ByHit(eligible), request.topK))
          \subseteq UNION {Elements(outcomes[i].hits) : i \in DOMAIN outcomes}
=============================================================================
