----------------------------- MODULE QueryWorkers -----------------------------
(* remote_query.rs: one query answered by several workers.  Each worker holds *)
(* a corpus of its own and answers twice: with the counts of the query's      *)
(* terms, then, under the sum of all counts, with its best documents.         *)
(* aggregate_statistics and reduce_candidates are the code; the coordinator   *)
(* and the network between them, which this repository leaves to              *)
(* lint-service, are external: answers arrive late, twice, in any order, from *)
(* an earlier request, of another generation, or never.                       *)
EXTENDS Ranking, SequencesExt

CONSTANTS Workers, Segments,
          HeldBy,      \* worker -> the segments of its corpus, under local names
          Requests,    \* the request being answered first, then earlier ones
          Fields, Terms,
          TermLists,   \* the terms a coordinator may ask for, as a list
          Counts,      \* segment of a worker -> what it counts
          Documents,   \* worker -> the results its corpus can return, in its order
          TopKs, Generations, CounterMax, MaxAnswers, Deadline

VARIABLES request,     \* the envelope both phases share
          now,
          phase,       \* statistics, candidates, answered or failed
          answers,     \* responses received in this phase, in arrival order
          statistics,  \* the snapshot and its generation
          result       \* the reduced list and the merged completeness

vars == <<request, now, phase, answers, statistics, result>>

Version == 1
Nothing == "nothing"
Report == [expected: SUBSET Segments, successful: SUBSET Segments,
           failures: SUBSET Segments]

\* RemoteSearchResult: names and breakdowns are numbers, group 0 is no group.
Results == [doc : Nat, score : Int, source : Nat, group : Nat, breakdown : Nat]

\* A field counts its documents and its tokens; a term is counted per field.
Tallies == [documents : [Fields -> Nat], tokens : [Fields -> Nat],
            terms     : [Terms -> [Fields -> Nat]]]

ASSUME WorkersAssumption ==
  /\ IsFiniteSet(Segments) /\ HeldBy \in [Workers -> SUBSET Segments]
  /\ CounterMax \in Nat /\ MaxAnswers \in Nat /\ Deadline \in Nat
  /\ TopKs \subseteq Nat /\ Requests \in Seq(STRING) /\ Requests # <<>>
  /\ \A w \in Workers :
       /\ Counts[w] \in [HeldBy[w] -> Tallies]
       /\ Documents[w] \in Seq([segment : HeldBy[w], result : Results])

(* ------------------------------- validation ------------------------------- *)

\* RemoteQueryRequest::validate: the deadline is absolute and shared.
RequestIsValid(req, time) ==
  /\ req.version = Version
  /\ req.id # ""
  /\ req.deadline > time
  /\ req.query # ""
  /\ req.top_k \in 1 .. 100

\* RemoteStatisticsRequest::validate: names are given once each.
StatisticsRequestIsValid(req, time) ==
  /\ RequestIsValid(req, time)
  /\ "" \notin ToSet(req.terms)
  /\ IsInjective(req.terms)

\* RemoteCandidateRequest::validate
CandidateRequestIsValid(req, generation, time) ==
  RequestIsValid(req, time) /\ generation # ""

\* validate_response_identity: an answer to this request by a named worker.
IdentityFits(response, req) ==
  response.version = Version /\ response.id = req.id /\ response.worker # ""

\* RemoteQueryCompleteness::validate, as far as sets leave it to be checked.
ReportIsValid(report) ==
  /\ "" \notin report.expected
  /\ report.successful \subseteq report.expected
  /\ report.failures \subseteq report.expected
  /\ report.failures \cap report.successful = {}

\* RemoteQueryCompleteness::is_complete
IsComplete(report) ==
  report.failures = {} /\ report.expected \subseteq report.successful

MergedReport_FailureForgiven(responses) ==
  LET all(part(_)) == UNION {part(responses[i].completeness) : i \in DOMAIN responses}
      done == all(LAMBDA c : c.successful)
  IN  [expected |-> all(LAMBDA c : c.expected), successful |-> done,
       failures |-> all(LAMBDA c : c.failures) \ done]

\* RemoteQueryCompleteness::merge: segment names are united as they are.
MergedReport(responses) ==
  LET all(part(_)) == UNION {part(responses[i].completeness) : i \in DOMAIN responses}
  IN  [expected   |-> all(LAMBDA c : c.expected),
       successful |-> all(LAMBDA c : c.successful),
       failures   |-> all(LAMBDA c : c.failures)]

\* RemoteStatisticsResponse::validate_against
StatisticsResponseIsValid(response, req) ==
  /\ IdentityFits(response, req)
  /\ response.generation # ""
  /\ ReportIsValid(response.completeness)

\* RemoteCandidateResponse::validate_against
CandidateResponseIsValid(response, req, generation) ==
  /\ IdentityFits(response, req)
  /\ response.generation = generation
  /\ ReportIsValid(response.completeness)

OneAnswerPerWorker(responses) ==
  \A i, j \in DOMAIN responses : responses[i].worker = responses[j].worker => i = j

(* ------------------------------- reductions ------------------------------- *)

SaturatingAdd(a, b) == IF a + b > CounterMax THEN CounterMax ELSE a + b

NoCounts == [documents |-> [f \in Fields |-> 0], tokens |-> [f \in Fields |-> 0],
             terms     |-> [t \in Terms |-> [f \in Fields |-> 0]]]

AddCounts(a, b) ==
  [documents |-> [f \in Fields |-> SaturatingAdd(a.documents[f], b.documents[f])],
   tokens    |-> [f \in Fields |-> SaturatingAdd(a.tokens[f], b.tokens[f])],
   terms     |-> [t \in Terms |->
                    [f \in Fields |-> SaturatingAdd(a.terms[t][f], b.terms[t][f])]]]

Failed == [ok |-> FALSE]

\* aggregate_statistics
AggregateStatistics(req, responses) ==
  IF /\ responses # <<>>
     /\ \A i \in DOMAIN responses : StatisticsResponseIsValid(responses[i], req)
     /\ OneAnswerPerWorker(responses)
     /\ \A i \in DOMAIN responses : responses[i].generation = responses[1].generation
  THEN [ok |-> TRUE, generation |-> responses[1].generation,
        counts |-> FoldSeq(LAMBDA r, sum : AddCounts(sum, r.counts), NoCounts, responses),
        completeness |-> MergedReport(responses)]
  ELSE Failed

\* canonical_result_key: what tells two results for one document apart.
CanonicalKey(entry) == <<entry.source, entry.group, entry.breakdown>>
KeyAbove(a, b) == \E i \in 1 .. 3 : a[i] > b[i] /\ \A j \in 1 .. i - 1 : a[j] = b[j]

Replaces_LaterWins(new, old) == new.score >= old.score

\* Which of two results for one document stays in the map.
Replaces(new, old) ==
  \/ new.score > old.score
  \/ new.score = old.score /\ KeyAbove(CanonicalKey(new), CanonicalKey(old))

ByDocument(responses) ==
  LET keep(entry, map) ==
        IF entry.doc \in DOMAIN map /\ ~Replaces(entry, map[entry.doc]) THEN map
        ELSE [d \in DOMAIN map \cup {entry.doc} |->
                IF d = entry.doc THEN entry ELSE map[d]]
      all == FlattenSeq([i \in DOMAIN responses |-> responses[i].results])
  IN  FoldLeft(LAMBDA map, entry : keep(entry, map), <<>>, all)

ScoreThenDocument(a, b) ==
  a.score > b.score \/ (a.score = b.score /\ a.doc < b.doc)

\* The map, which is in document order, is cut before it is sorted by score.
SortedAndCut_CutFirst(map, top_k) ==
  LET first == {d \in DOMAIN map : Cardinality({e \in DOMAIN map : e < d}) < top_k}
  IN  Ranked({map[d] : d \in first}, ScoreThenDocument)

\* The merge is sorted first and cut to top_k last.
SortedAndCut(map, top_k) ==
  Take(Ranked({map[d] : d \in DOMAIN map}, ScoreThenDocument), top_k)

\* reduce_candidates
ReduceCandidates(req, generation, responses) ==
  IF /\ responses # <<>>
     /\ \A i \in DOMAIN responses :
          CandidateResponseIsValid(responses[i], req, generation)
     /\ OneAnswerPerWorker(responses)
  THEN [ok |-> TRUE, results |-> SortedAndCut(ByDocument(responses), req.top_k),
        completeness |-> MergedReport(responses)]
  ELSE Failed

(* ------------------------- workers and coordinator ------------------------ *)

Init ==
  /\ request \in {[version |-> Version, id |-> Requests[1], deadline |-> Deadline,
                   query |-> "query", top_k |-> k, terms |-> names] :
                    k \in TopKs, names \in TermLists}
  /\ now = 0 /\ phase = "statistics" /\ answers = <<>>
  /\ statistics = Failed /\ result = Failed

Tick == now < Deadline /\ now' = now + 1
        /\ UNCHANGED <<request, phase, answers, statistics, result>>

\* A worker's local coordinator reports segments that answered and that failed.
LocalReport(w, failed) ==
  [expected |-> HeldBy[w], successful |-> HeldBy[w] \ failed, failures |-> failed]

Receive(response) ==
  /\ Len(answers) < MaxAnswers
  /\ answers' = Append(answers, response)
  /\ UNCHANGED <<request, now, phase, statistics, result>>

\* Phase 1 at a worker: the counts of the segments that answered.
CountTerms(w) ==
  /\ phase = "statistics"
  /\ StatisticsRequestIsValid(request, now)
  /\ \E failed \in SUBSET HeldBy[w], g \in Generations :
       Receive([version |-> Version, id |-> request.id, worker |-> w, generation |-> g,
                counts |-> FoldSet(LAMBDA s, sum : AddCounts(sum, Counts[w][s]),
                                   NoCounts, HeldBy[w] \ failed),
                completeness |-> LocalReport(w, failed)])

\* What a worker found in the segments that answered.
Found(w, failed) ==
  LET kept == {i \in DOMAIN Documents[w] : Documents[w][i].segment \notin failed}
      order == Ranked(kept, LAMBDA i, j : i < j)
  IN  [n \in 1 .. Cardinality(kept) |-> Documents[w][order[n]].result]

\* Phase 2 at a worker: what it found, under the generation it knows, each
\* document as RemoteSearchResult::from carries it.
ScoreCandidates(w) ==
  /\ phase = "candidates"
  /\ CandidateRequestIsValid(request, statistics.generation, now)
  /\ \E failed \in SUBSET HeldBy[w], g \in Generations :
       Receive([version |-> Version, id |-> request.id, worker |-> w, generation |-> g,
                results |-> Found(w, failed),
                completeness |-> LocalReport(w, failed)])

\* The network delivers a response again, or one of an earlier
\* request or of another build.
Redeliver ==
  /\ phase \in {"statistics", "candidates"}
  /\ \E i \in DOMAIN answers, id \in ToSet(Requests), version \in {Version, Version + 1} :
       Receive([answers[i] EXCEPT !.id = id, !.version = version])

\* The coordinator stops waiting, with the answers it has.
CloseStatistics ==
  /\ phase = "statistics"
  /\ statistics' = AggregateStatistics(request, answers)
  /\ phase' = IF statistics'.ok THEN "candidates" ELSE "failed"
  /\ answers' = IF statistics'.ok THEN <<>> ELSE answers
  /\ UNCHANGED <<request, now, result>>

CloseCandidates ==
  /\ phase = "candidates"
  /\ result' = ReduceCandidates(request, statistics.generation, answers)
  /\ phase' = IF result'.ok THEN "answered" ELSE "failed"
  /\ UNCHANGED <<request, now, answers, statistics>>

Next ==
  \/ Tick
  \/ \E w \in Workers : CountTerms(w) \/ ScoreCandidates(w)
  \/ Redeliver \/ CloseStatistics \/ CloseCandidates

Spec == Init /\ [][Next]_vars

(* -------------------------------- properties ------------------------------ *)

\* Whatever order the answers arrived in, closing a phase now gives one
\* outcome: the same refusal, the same sums, the same list in the same order.
\* Two workers may hold one document at one score, and sums may saturate.
ArrivalOrderIsIrrelevant ==
  \A order \in Bijection(DOMAIN answers, DOMAIN answers) :
    LET again == [i \in DOMAIN answers |-> answers[order[i]]] IN
    /\ phase = "statistics" =>
         AggregateStatistics(request, again) = AggregateStatistics(request, answers)
    /\ phase \in {"candidates", "answered"} =>
         ReduceCandidates(request, statistics.generation, again)
           = ReduceCandidates(request, statistics.generation, answers)

\* No document a worker returned is left out for one that is worse, and each is
\* returned with the best score any worker gave it.
BestAnswersAreKept ==
  phase = "answered" =>
    LET offered == UNION {ToSet(answers[i].results) : i \in DOMAIN answers}
        listed  == ToSet(result.results)
        best(d) == \A e \in offered : e.doc = d.doc => e.score <= d.score
    IN  /\ listed \subseteq offered
        /\ \A d \in listed : best(d)
        /\ \A d \in offered : (\E e \in listed : e.doc = d.doc) \/
             /\ Len(result.results) = request.top_k
             /\ \A e \in listed : ScoreThenDocument(e, d)

\* An answer that one of its workers knows to be partial never looks complete,
\* in either phase, also where two workers use one name for a segment of theirs
\* and the other worker's segment did answer.
FailureIsNeverHidden ==
  LET merged == IF phase = "statistics" THEN AggregateStatistics(request, answers)
                ELSE result
  IN  merged.ok /\ (\E i \in DOMAIN answers : answers[i].completeness.failures # {})
        => ~IsComplete(merged.completeness)
=============================================================================
