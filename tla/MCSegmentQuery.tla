--------------------------- MODULE MCSegmentQuery ---------------------------
(* Small snapshots for SegmentQuery: three groups of one or two documents     *)
(* over six terms, published by group or by a manifest, and the queries of    *)
(* every mode.                                                                *)
EXTENDS SegmentQuery, TLC

MCTerms == 1 .. 6
MCActionTerms == {4}
MCTimeTerms == {5, 6}
MCEnrichmentTerms == {1, 2, 3, 5, 6}
MCLabel == [near |-> 5, recent |-> 6, before |-> 6, after |-> 6, same |-> 6, past |-> 6,
            present |-> 6, ongoing |-> 6, mixed |-> 6]

Weights(S) == [t \in MCTerms |-> IF t \in S THEN 100 ELSE 0]
NoFilters == [k \in {} |-> 0]

Doc(id, terms, entities, people, topic, content, date, hit) ==
  [id |-> id, group |-> id \div 10, terms |-> Weights(terms), entities |-> Weights(entities),
   people |-> people, topic |-> topic, headings |-> {}, content |-> content, date |-> date,
   temporal |-> IF date = 30 THEN {5} ELSE {}, hit |-> hit, graph |-> IF entities = {} THEN 0 ELSE 40,
   superseded |-> FALSE, filters |-> NoFilters]

\* What a group may hold: a rare term, a common one, a person, an action, dates.
Shapes(g) ==
  {{Doc(10 * g, {1}, {}, {}, 0, <<1>>, 0, 140)},
   {Doc(10 * g, {1, 2}, {2}, {2}, 0, <<2, 1, 2>>, 10, 90)},
   {Doc(10 * g, {3}, {}, {}, 3, <<3>>, 30, 60), Doc(10 * g + 1, {2, 4}, {2}, {2}, 0, <<4>>, 12, 60)},
   {Doc(10 * g, {1, 3}, {3}, {}, 0, <<1, 3>>, 0, 200), Doc(10 * g + 1, {3}, {}, {}, 0, <<>>, 31, 20),
    Doc(10 * g + 2, {1}, {}, {}, 0, <<>>, 0, 10)}}

NoManifest == [s \in {} |-> {}]
Ids(docs) == {d.id : d \in docs}

GroupedPublications ==
  UNION {LET docs == a \cup b \cup c
         IN  {[docs |-> docs, manifest |-> m] :
                m \in {NoManifest, (1 :> Ids(a \cup b) @@ 2 :> Ids(c))}}
           : a \in Shapes(1), b \in Shapes(2), c \in Shapes(3)}

Request(mode, strategy, terms, limit, topK) ==
  [mode |-> mode, strategy |-> strategy, terms |-> terms, capitals |-> terms \cap {2},
   filters |-> NoFilters, historical |-> FALSE, explicit |-> FALSE, hint |-> "none",
   end |-> 0, window |-> 7, scope |-> AllowAll, topK |-> topK, limit |-> limit, maxLimit |-> 3]

Dated(r, hint) == [r EXCEPT !.explicit = TRUE, !.hint = hint, !.end = 12, !.window = 3]
Scoped(r, ids) == [r EXCEPT !.scope = ids]

Queries == {{1, 2}, {1, 2, 3}, {4}, {}}

PlainRequests ==
  {Request("all", strategy, terms, 3, 2) : strategy \in Strategies, terms \in {{1, 2}, {4}, {}}}
  \cup {Scoped(Request("all", "SparseOverlap", {1, 3}, 3, 1), {11, 20, 30, 32})}
  \cup {Request("segmented", strategy, {2, 3}, 2, 2) : strategy \in Strategies}
  \cup {Request("recovery", strategy, terms, limit, 2) :
          strategy \in {"CoverageTeamSelection", "TypedEvidence", "KlDivergence"},
          terms \in {{1, 2, 3}, {1, 3, 4}, {2, 4}}, limit \in {1, 2}}
  \cup {Request("adaptive", "CoverageLocalDistinctiveness", terms, 1, 2) : terms \in Queries}
  \cup {Request(mode, "TypedEvidence", {1, 2, 3}, 2, 3) : mode \in RouteAwareModes}
  \cup {Dated(Request("route_aware", "LocalDistinctiveness", {2, 3}, 3, 3), hint) :
          hint \in {"past", "mixed"}}
  \cup {Scoped(Request(mode, "CoverageLocalDistinctiveness", {1, 2}, 2, 2), {10, 21, 30}) :
          mode \in {"enriched", "session", "connected", "recovery"}}
  \cup {Request("connected", "SparseOverlap", {1, 4}, limit, 2) : limit \in {1, 3}}
  \cup {Dated(Request("temporal_path", "TeamCoverageLocalDistinctiveness", {1, 2}, 1, 2), hint) :
          hint \in {"past", "present", "none"}}
  \cup {Request("single", "SparseOverlap", {1}, 1, 2), Request("enriched", "SparseOverlap", {1}, 0, 2)}

-----------------------------------------------------------------------------
(* Filters and supersession: two documents of one project, the older of them  *)
(* superseded, in one segment or two, and one of another project.             *)

Filed(doc, project, superseded) ==
  [doc EXCEPT !.filters = ("project" :> project), !.superseded = superseded]

FiledDocs ==
  {Filed(Doc(10, {1}, {}, {}, 0, <<>>, 0, 90), 1, TRUE),
   Filed(Doc(11, {1, 2}, {}, {}, 0, <<>>, 0, 60), 1, FALSE),
   Filed(Doc(20, {1, 3}, {}, {}, 0, <<>>, 0, 70), 2, FALSE)}

FiledPublications ==
  {[docs |-> FiledDocs, manifest |-> m] :
     m \in {NoManifest, (1 :> {10, 11, 20}), (1 :> {10} @@ 2 :> {11, 20})}}
  \cup {[docs |-> {d \in FiledDocs : d.group = 1}, manifest |-> NoManifest]}

FiledRequests ==
  {[Request(mode, "SparseOverlap", terms, 2, 2) EXCEPT !.filters = f, !.historical = h] :
     mode \in {"single", "segmented", "adaptive"}, terms \in {{1}, {1, 2}, {3}}, h \in BOOLEAN,
     f \in {NoFilters, ("project" :> 1), ("project" :> 2), ("project" :> 1 @@ "agent" :> 7)}}

MCPublications == GroupedPublications \cup FiledPublications
MCRequests == PlainRequests \cup FiledRequests
=============================================================================
