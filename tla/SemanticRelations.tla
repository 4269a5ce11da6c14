-------------------------- MODULE SemanticRelations --------------------------
(* Which documents speak for the present (src/semantic_relations.rs): claims  *)
(* are read from the sentences of every document, later claims are related to *)
(* the previous claim of the same scope, subject and predicate, links a       *)
(* document makes itself count first, and the relations give every document   *)
(* a status.  Confidences are hundredths; 0 stands for "none".                *)
EXTENDS Ranking

CONSTANT GenericHeadings  \* headings that name no subject of their own

\* SupersessionOptions::validate.
ValidOptions(options) ==
  /\ options.conflict \in 0 .. 100 /\ options.suppress \in 0 .. 100
  /\ options.conflict <= options.suppress

\* semantic_scope: an explicit scope, else the user, else the store.
SemanticScope(doc) ==
  CASE doc.scope # 0 -> <<"scope", doc.scope>>
    [] doc.scope = 0 /\ doc.user # 0 -> <<"user", doc.user>>
    [] OTHER -> <<"store">>

\* scalar_configuration_scope: a value such as "timeout: 5" belongs to a group,
\* a heading or concept of a directory, or only to its document.
ScalarScope(d, doc) ==
  LET base == SemanticScope(doc)
      own == SelectSeq(doc.headings, LAMBDA h : h \notin GenericHeadings)
  IN  CASE doc.scope # 0 -> base
        [] doc.scope = 0 /\ doc.group # 0 -> base \o <<"group", doc.group>>
        [] doc.scope = 0 /\ doc.group = 0 /\ doc.kind = "document" /\ own # <<>> ->
             base \o <<"heading", doc.parent, own[1]>>
        [] doc.scope = 0 /\ doc.group = 0 /\ doc.kind = "document" /\ own = <<>> /\ doc.concept # 0 ->
             base \o <<"concept", doc.parent, doc.concept>>
        [] OTHER -> base \o <<"doc", d>>

\* make_claim_in_scope; a claim is named by its document and its place.
ClaimOf(d, doc, found, place, sentence) ==
  [id |-> <<d, place>>, doc |-> d, subject |-> found.subject, predicate |-> found.predicate,
   object |-> found.object, date |-> doc.date, sentence |-> sentence,
   scope |-> IF found.predicate = "value" THEN ScalarScope(d, doc) ELSE SemanticScope(doc)]

\* extract_claims: sentence after sentence, the first of equal claims stays.
ExtractClaims(d, doc) ==
  LET per(i) == [j \in DOMAIN doc.sentences[i].claims |-> <<doc.sentences[i].claims[j], i>>]
      all == Seqs!FlattenSeq([i \in DOMAIN doc.sentences |-> per(i)])
      same(x, y) == /\ x.subject = y.subject /\ x.predicate = y.predicate /\ x.object = y.object
      first(n) == \A m \in 1 .. n - 1 : ~same(all[m][1], all[n][1])
  IN  {ClaimOf(d, doc, all[n][1], n - 1, all[n][2]) : n \in {m \in DOMAIN all : first(m)}}

\* document_claim: stands for a document without claims.
DocumentClaim(d, doc) ==
  [id |-> <<d, 0>>, doc |-> d, subject |-> doc.concept, predicate |-> "document_state",
   object |-> d, date |-> doc.date, sentence |-> 0, scope |-> SemanticScope(doc)]

\* The order of claims: undated ones first, then by date, document and place.
ClaimBefore(x, y) ==
  \/ x.date < y.date
  \/ x.date = y.date /\ (x.doc < y.doc \/ (x.doc = y.doc /\ x.id[2] < y.id[2]))

SortedClaims(docs) == Ranked(UNION {ExtractClaims(d, docs[d]) : d \in DOMAIN docs}, ClaimBefore)

ClaimKey(claim) == <<claim.scope, claim.subject, claim.predicate>>

\* push_relation names a relation by its two claims and its kind.
RelationOf(source, target, kind, confidence, method) ==
  [id |-> <<source.id, kind, target.id>>, kind |-> kind, source |-> source.doc,
   target |-> target.doc, claim |-> target.id, confidence |-> confidence, method |-> method]

\* The link a document makes itself: to a document the store has, in its scope.
ExplicitLink(d, docs) ==
  LET t == docs[d].supersedes IN
  /\ t \in DOMAIN docs
  /\ SemanticScope(docs[d]) = SemanticScope(docs[t])

\* Explicit links are between the first claims of the two documents; the
\* documents come in the order of an unordered map.
ExplicitRelations(docs, claims, order) ==
  LET first(d) == LET own == {i \in DOMAIN claims : claims[i].doc = d}
                  IN  IF own = {} THEN DocumentClaim(d, docs[d]) ELSE claims[Min(own)]
      links == Ranked({d \in DOMAIN docs : ExplicitLink(d, docs)}, LAMBDA x, y : order[x] < order[y])
  IN  [i \in DOMAIN links |->
         RelationOf(first(links[i]), first(docs[links[i]].supersedes), "Supersedes", 100, "explicit")]

\* How a claim relates to an earlier claim of another document.
Related(docs, claim, previous) ==
  LET source == docs[claim.doc]
      newer == previous.date > 0 /\ claim.date > previous.date
  IN  CASE claim.object = previous.object ->
             RelationOf(claim, previous, "Confirms", 95, "canonical_claim")
        [] claim.object # previous.object /\ source.cue ->
             RelationOf(claim, previous, "Supersedes", 95, "correction_cue")
        [] claim.object # previous.object /\ ~source.cue /\ newer /\ source.kind = docs[previous.doc].kind ->
             RelationOf(claim, previous, "Supersedes", 90, "canonical_claim_and_time")
        [] OTHER -> RelationOf(claim, previous, "ConflictsWith", 75, "canonical_claim_conflict")

\* Each claim against the one before it with its key, unless both are of one
\* document.
ImpliedRelations(docs, claims) ==
  LET before(i) == {j \in 1 .. i - 1 : ClaimKey(claims[j]) = ClaimKey(claims[i])}
      at(i) == IF before(i) = {} \/ claims[Max(before(i))].doc = claims[i].doc THEN <<>>
               ELSE <<Related(docs, claims[i], claims[Max(before(i))])>>
  IN  Seqs!FlattenSeq([i \in DOMAIN claims |-> at(i)])

\* try_from_documents: a relation already there is not pushed again.
Relations(docs, order) ==
  LET claims == SortedClaims(docs)
      all == ExplicitRelations(docs, claims, order) \o ImpliedRelations(docs, claims)
      fresh(i) == \A j \in 1 .. i - 1 : all[j].id # all[i].id
  IN  Seqs!FlattenSeq([i \in DOMAIN all |-> IF fresh(i) THEN <<all[i]>> ELSE <<>>])

\* document_contains_only_target_claim: one claim, and no other text but headings.
OnlyTheClaim(docs, relation) ==
  LET doc == docs[relation.target]
      claims == ExtractClaims(relation.target, doc)
      text == {i \in DOMAIN doc.sentences : ~doc.sentences[i].heading}
  IN  \E c \in claims : claims = {c} /\ c.id = relation.claim /\ text = {c.sentence}

Current == [status |-> "Current", by |-> 0, confidence |-> 0]

\* Mutant: a conflict takes the place of any status.
Conflicted_Always(state, relation) ==
  [status |-> "Conflicted", by |-> 0, confidence |-> relation.confidence]

\* A conflict marks what is not superseded.
Conflicted(state, relation) ==
  IF state.status = "Superseded" THEN state
  ELSE [state EXCEPT !.status = "Conflicted", !.confidence = relation.confidence]

Superseded(state, relation) ==
  IF state.confidence > relation.confidence THEN state
  ELSE [status |-> "Superseded", by |-> relation.source, confidence |-> relation.confidence]

\* One step of build_document_states.
Applied(docs, options, states, relation) ==
  CASE relation.kind = "Supersedes" /\ relation.confidence >= options.suppress ->
         IF relation.method # "explicit" /\ ~OnlyTheClaim(docs, relation)
         THEN [states EXCEPT ![relation.target] = Conflicted(@, relation)]
         ELSE [states EXCEPT ![relation.target] = Superseded(@, relation)]
    [] relation.kind = "ConflictsWith" /\ relation.confidence >= options.conflict ->
         [states EXCEPT ![relation.source] = Conflicted(@, relation),
                        ![relation.target] = Conflicted(@, relation)]
    [] OTHER -> states

\* build_document_states.
DocumentStates(docs, options, order) ==
  IF ~options.enabled THEN [d \in DOMAIN docs |-> Current]
  ELSE Seqs!FoldLeft(LAMBDA states, relation : Applied(docs, options, states, relation),
                [d \in DOMAIN docs |-> Current], Relations(docs, order))
=============================================================================
