-------------------------- MODULE SegmentExpansion --------------------------
(* How an enriched query widens or corrects the head of its routes before it  *)
(* runs: adaptive widening while it covers more of the query, one swap that   *)
(* recovers missing coverage, segments close in time, and segments connected  *)
(* to a selected one (src/segments.rs).                                       *)
EXTENDS SegmentRouting

CONSTANTS RecoveryPool,       \* MISSING_COVERAGE_RECOVERY_POOL_LIMIT
          NeighborLimit       \* CONNECTED_NEIGHBOR_CANDIDATE_LIMIT

ASSUME ExpansionAssumption == {RecoveryPool, NeighborLimit} \subseteq Nat \ {0}

-----------------------------------------------------------------------------
(* Adaptive widening *)

ScoreIsClose(score, cutoff) ==
  IF cutoff > 0 THEN score * 100 >= cutoff * 80 ELSE Distance(score, cutoff) <= 5

\* A selection with one route more: a route that adds a covered term, while less
\* than 80% of the query is covered or it scores close to the last one.
Widened(cat, terms, routes, most, selected) ==
  LET covered == CoveredTerms(cat, terms, Segments(selected))
      cutoff  == IF selected = <<>> THEN 0 ELSE selected[Len(selected)].score
      Added(r) == Cardinality(CoveredTerms(cat, terms \ covered, {r.segment}))
      Close(r) == ScoreIsClose(r.score, cutoff)
      open == {r \in Elements(Take(routes, most)) :
                 /\ r.segment \notin Segments(selected)
                 /\ Added(r) > 0
                 /\ 100 * Cardinality(covered) < 80 * Cardinality(terms) \/ Close(r)}
      rank == [r \in open |-> <<Added(r), IF Close(r) THEN 1 ELSE 0, r.score, -r.segment>>]
  IN  IF open = {} \/ Len(selected) >= most THEN selected
      ELSE Append(selected, ByRank(open, rank)[1])

\* Widen the base selection as long as it can be, up to the most allowed.
AdaptiveRoutes(cat, terms, routes, baseLimit, maxLimit) ==
  LET base == AtMost(Max({baseLimit, 1}), Len(routes))
      most == AtMost(Max({maxLimit, base}), Len(routes))
      wide[n \in 0 .. Len(routes)] ==
        IF n = 0 THEN Take(routes, base)
        ELSE Widened(cat, terms, routes, most, wide[n - 1])
  IN  IF terms = {} THEN Take(routes, base) ELSE wide[Len(routes)]

-----------------------------------------------------------------------------
(* Recovery of missing coverage *)

\* A weakness that does not look at what only this segment covers.
WeakScore_Shared(cat, terms, route, selected) ==
  LET covered == CoveredTerms(cat, terms, {route.segment})
      kinds == Sum(LAMBDA t : Cardinality(EvidenceTypes(cat.summary[route.segment], t)), covered)
  IN  160 + (IF Cardinality(covered) <= 1 THEN 80 ELSE 0)
        + (IF kinds <= Cardinality(covered) THEN 50 ELSE 0)
        - (NonNegative(route.score) * 3) \div 100

\* How little a selected segment is worth: a high score asks for its removal.
WeakScore(cat, terms, route, selected) ==
  LET s       == route.segment
      covered == CoveredTerms(cat, terms, {s})
      others  == CoveredTerms(cat, terms, Segments(selected) \ {s})
      unique  == Cardinality(covered \ others)
      kinds   == Sum(LAMBDA t : Cardinality(EvidenceTypes(cat.summary[s], t)), covered)
      weight  == Sum(LAMBDA t : LocalTermWeight(cat.summary[s], t), covered)
  IN  IF covered = {} THEN 300
      ELSE (IF unique = 0 THEN 160 ELSE -110 * unique)
           + (IF Cardinality(covered) <= 1 THEN 80 ELSE 0)
           + (IF kinds <= Cardinality(covered) THEN 50 ELSE 0)
           + (IF weight < 75 THEN 70 ELSE 0)
           - (NonNegative(route.score) * 3) \div 100

\* What a segment outside the selection would bring of the missing terms.
RecoveryGain(cat, terms, missing, route) ==
  LET found == CoveredTerms(cat, missing, {route.segment})
  IN  IF found = {} THEN 0
      ELSE EvidenceWeight(cat, route.segment, found)
           + (Sum(LAMBDA t : Idf(cat, t), found) * 45) \div 100
           + TermShare(found, terms) + (NonNegative(route.score) * 8) \div 100

\* The last of the weakest in selection order, as max_by returns it.
Weakest(cat, terms, selected) ==
  LET weak(i) == WeakScore(cat, terms, selected[i], selected)
  IN  CHOOSE i \in DOMAIN selected :
        \A j \in DOMAIN selected : weak(j) < weak(i) \/ (weak(j) = weak(i) /\ j <= i)

\* Swap the weakest selected segment, if it is weak enough, for the segment of
\* the pool that brings most of what is missing, if it brings enough.
RecoveredRoutes(cat, terms, selected, routes) ==
  LET missing == terms \ CoveredTerms(cat, terms, Segments(selected))
      gain(r) == RecoveryGain(cat, terms, missing, r)
      worthy  == {r \in Elements(Take(routes, RecoveryPool)) :
                    r.segment \notin Segments(selected) /\ gain(r) >= 180}
      best    == ByRank(worthy, [r \in worthy |-> <<gain(r), r.score, -r.segment>>])[1]
      weakest == Weakest(cat, terms, selected)
      raised  == Route(best.segment, best.score + (gain(best) * 5) \div 100)
  IN  IF selected = <<>> THEN selected
      ELSE IF \/ terms = {} \/ missing = {} \/ worthy = {}
              \/ WeakScore(cat, terms, selected[weakest], selected) < 150
           THEN ByRoute(Elements(selected))
           ELSE ByRoute((Elements(selected) \ {selected[weakest]}) \cup {raised})

-----------------------------------------------------------------------------
(* Segments close in time *)

TemporalActive(ctx) == ctx.explicit \/ ctx.hint # "none" \/ ctx.start

SegmentDates(docs) == {d.date : d \in {e \in docs : e.date > 0}}

PathRelation(delta, window) ==
  CASE delta \in -window .. window -> "near"
    [] delta < -window /\ delta >= -4 * window -> "before"
    [] delta > window /\ delta <= 4 * window -> "after"
    [] OTHER -> "none"

MatchesHint(relation, date, ctx) ==
  CASE ctx.hint = "past" -> relation \in {"before", "near"} \/ (ctx.end > 0 /\ date <= ctx.end)
    [] ctx.hint \in {"present", "ongoing"} -> relation = "near"
    [] OTHER -> TRUE

PathScore(distance, window, relation) ==
  ((100 - (100 * AtMost(distance, 4 * window)) \div (4 * window)) * 3) \div 2
    + IF relation = "near" THEN 100 ELSE 65

\* The anchors of the selected segments a date relates to, and the best score.
Anchored(corpus, selected, date, ctx) ==
  {PathScore(Distance(date, anchor), ctx.window, PathRelation(date - anchor, ctx.window)) :
     anchor \in {a \in UNION {SegmentDates(corpus[s]) : s \in selected} :
                   LET relation == PathRelation(date - a, ctx.window)
                   IN  relation # "none" /\ MatchesHint(relation, date, ctx)}}

\* expand_temporal_path_segments: append the segments whose first related date
\* scores best, as many again as the limit.
TemporalPathRoutes(corpus, selected, limit, ctx) ==
  LET chosen == Segments(selected)
      Related(s) == {date \in SegmentDates(corpus[s]) : Anchored(corpus, chosen, date, ctx) # {}}
      Score(s) == Max(Anchored(corpus, chosen, Min(Related(s)), ctx))
      near == {Route(s, Score(s)) : s \in {r \in DOMAIN corpus \ chosen : Related(r) # {}}}
  IN  IF ~TemporalActive(ctx) THEN selected
      ELSE selected \o Take(ByRoute(near), Max({limit, 1}))

-----------------------------------------------------------------------------
(* Segments connected to a selected one *)

\* The candidates: the next routes and whatever shares a typed value with a
\* selected segment, whether or not it has a route.
ConnectedCandidates(cat, selected, routes, limit) ==
  LET pool  == AtMost(Max({3 * limit, limit + 5}), NeighborLimit)
      typed == UNION {TypedCandidates(cat, cat.profile[s]) : s \in Segments(selected)}
      all   == (Segments(Take(routes, pool)) \cup typed) \ Segments(selected)
  IN  Elements(Take(ByScore(all, LAMBDA s : 0), NeighborLimit))

RouteOf(routes, s) ==
  IF s \in Segments(routes) THEN CHOOSE r \in Elements(routes) : r.segment = s ELSE Route(s, 0)

\* The best connection of a segment to any other of a set.
ConnectionSupport(profile, s, others) ==
  Max({0} \cup {ConnectionScore(profile[s], profile[r]) : r \in others \ {s}})

\* The selected route with the least support, then the lowest score, then the
\* highest identifier.
LeastSupported(profile, selected) ==
  LET support(r) == ConnectionSupport(profile, r.segment, {t.segment : t \in selected})
  IN  ByRank(selected, [r \in selected |-> <<-support(r), -r.score, r.segment>>])[1]

\* One candidate meets the selection: it is added while there is room; after
\* that it may replace the least supported route, once.
Meet(profile, state, candidate, evidence, limit) ==
  LET route == Route(candidate.segment, candidate.score + (evidence * 10) \div 100)
      least == LeastSupported(profile, state.selected)
  IN  IF state.swapped THEN state
      ELSE IF Cardinality(state.selected) < limit
      THEN [selected |-> state.selected \cup {route}, swapped |-> FALSE]
      ELSE IF route.score + 35 < least.score /\ evidence * 10 < 140 * 18
      THEN state
      ELSE [selected |-> (state.selected \ {least}) \cup {route}, swapped |-> TRUE]

ConnectedRoutes(cat, corpus, selected, routes, limit, ctx) ==
  LET profile  == [s \in DOMAIN corpus |-> WithQueryDate(cat.profile[s], corpus[s], ctx)]
      evidence(s) == ConnectionSupport(profile, s, Segments(selected))
      near     == {s \in ConnectedCandidates(cat, selected, routes, limit) : evidence(s) >= 140}
      rank     == [s \in near |-> <<evidence(s), RouteOf(routes, s).score, -s>>]
      ordered  == ByRank(near, rank)
      met[n \in 0 .. Len(ordered)] ==
        IF n = 0 THEN [selected |-> Elements(selected), swapped |-> FALSE]
        ELSE Meet(profile, met[n - 1], RouteOf(routes, ordered[n]), evidence(ordered[n]), limit)
  IN  IF selected = <<>> THEN selected ELSE ByRoute(met[Len(ordered)].selected)
=============================================================================
