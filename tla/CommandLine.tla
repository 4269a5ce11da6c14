----------------------------- MODULE CommandLine -----------------------------
(* engine.rs: one invocation of the lint-ai command after another, and at the *)
(* same time, over a directory that is being edited.  A query, an index and a *)
(* review share a cache of three files next to the working directory: the     *)
(* records (json), the postings (core) and the lexical directory.  What an    *)
(* index answers with is modelled by the documents each part was built from.  *)
EXTENDS Corpus, FiniteSetsExt

CONSTANTS Processes, Contents, FirstFiles, Ignorable, Limits, Commands, Config,
          QueryTerms,                    \* what every question asks for
          MaxStarts, MaxEdits, MaxFaults

VARIABLES files,    \* path -> what it holds, Absent when there is no file
          config,   \* the configuration file: valid or not, and the paths it ignores
          json, core, lexical,           \* the cache of one set of settings
          run,      \* process -> how far its command is
          starts, edits, faults
commandVars == <<files, config, json, core, lexical, run, starts, edits, faults>>
cache == <<json, core, lexical>>
bounds == <<starts, edits, faults>>

NoFile == [state |-> "none"]
Torn   == [state |-> "torn"]     \* truncated, not yet written

\* The record r with the fields of more, whether r has them or not.
With(r, more) ==
  [k \in DOMAIN r \cup DOMAIN more |-> IF k \in DOMAIN more THEN more[k] ELSE r[k]]
Saved(value) == With(value, [state |-> "saved"])
Idle   == [at |-> "idle"]

(* ------------------------------- fingerprint ------------------------------ *)

\* compute_corpus_fingerprint: name, length, time and content of the files of
\* the walk.  Unlike the corpus, a file too large for a document counts here,
\* also towards the total; what cannot be read has a fixed hash.
FingerprintedPaths(at, limits) ==
  LET visit(state, p) ==
        IF state.done \/ ~Markdown(at, p, limits) THEN state
        ELSE IF state.seen + 1 > limits.files \/ state.total + at[p].size > limits.total
             THEN [state EXCEPT !.done = TRUE]
        ELSE [state EXCEPT !.seen = @ + 1, !.total = @ + at[p].size, !.found = @ \cup {p}]
  IN  FoldLeft(visit, [done |-> FALSE, seen |-> 0, total |-> 0, found |-> {}], Walk).found

\* The content is not looked at, only how long it is.
Fingerprint_LengthOnly(at, limits) ==
  {<<p, at[p].size>> : p \in FingerprintedPaths(at, limits)}

Fingerprint(at, limits) ==
  {<<p, at[p].size, at[p].stamp, IF at[p].readable THEN at[p] ELSE Absent>> :
     p \in FingerprintedPaths(at, limits)}

\* No file the corpus reads lies behind the total the fingerprint stops at.
Covered(at, limits) == ToSet(Walked(at, limits)) \subseteq FingerprintedPaths(at, limits)

(* -------------------------------- the answer ------------------------------- *)

\* score_chunk_for_query and the bonuses of build_llm_context_output, in
\* hundredths: names twice as much as terms, headings, links to the best five
\* documents, names the best five share.
ChunkScore(document, section, anchors, anchorNames) ==
  LET hits(words) == Cardinality(words \cap QueryTerms)
      bonus(n, each) == IF n * each > 60 THEN 60 ELSE n * each
  IN  200 * hits(section.names) + 100 * hits(section.mentions)
      + 40 * hits({section.heading})
      + bonus(Cardinality(document.links \cap anchors), 15)
      + bonus(Cardinality(section.names \cap anchorNames), 10)

\* Candidates best first; equals stay in the order they were collected in.
InOrder(score, candidates) ==
  SetToSortSeq(candidates, LAMBDA a, b :
    \/ score[a] > score[b]
    \/ score[a] = score[b] /\ (a[1] < b[1] \/ (a[1] = b[1] /\ a[2] < b[2])))

\* build_llm_context_output: chunks of the documents found, each a pair of its
\* document's rank and its own place.  "all" takes the best chunks; "by_doc"
\* takes the best chunk of every document in rank order before any second one.
ContextChunks(ranking, strategy, requested) ==
  LET top     == {ranking[i].id : i \in {k \in DOMAIN ranking : k <= 5}}
      names   == UNION {UNION {ranking[i].content[j].names : j \in DOMAIN ranking[i].content} :
                          i \in {k \in DOMAIN ranking : k <= 5}}
      all     == UNION {{i} \X (DOMAIN ranking[i].content) : i \in DOMAIN ranking}
      own     == [c \in all |-> ChunkScore(ranking[c[1]], ranking[c[1]].content[c[2]], top, names)]
      score   == [c \in {d \in all : own[d] > 0} |-> own[c] + 25 * (Len(ranking) - c[1])]
      of(i)   == {c \in DOMAIN score : c[1] = i}
      firsts  == {CHOOSE c \in of(i) : c = InOrder(score, of(i))[1] :
                    i \in {k \in DOMAIN ranking : of(k) # {}}}
      chosen  == IF strategy = "all" THEN InOrder(score, DOMAIN score)
                 ELSE SetToSortSeq(firsts, LAMBDA a, b : a[1] < b[1])
                        \o InOrder(score, DOMAIN score \ firsts)
  IN  SubSeq(chosen, 1, IF Len(chosen) < requested THEN Len(chosen) ELSE requested)

Hits(document) ==
  Cardinality(QueryTerms \cap
    UNION {document.content[i].mentions \cup document.content[i].names : i \in DOMAIN document.content})

\* What a query lists: documents with a record that the postings know and that
\* the postings or the lexical directory find, best match first.
\* The text of a document is its record's.  The allow-list that leaves out what
\* SemanticRelations finds superseded is not modelled here.
Listed(index, limit) ==
  LET known(d) == \E e \in index.core : e.id = d.id
      hits(d)  == MapThenSumSet(LAMBDA e : 2 * Hits(e), {e \in index.core : e.id = d.id})
                  + MapThenSumSet(Hits, {e \in index.lexical : e.id = d.id})
      place(d) == CHOOSE i \in DOMAIN Walk : Walk[i] = d.id
      found    == {d \in index.records : known(d) /\ hits(d) > 0}
      list     == SetToSortSeq(found, LAMBDA a, b :
                    hits(a) > hits(b) \/ (hits(a) = hits(b) /\ place(a) < place(b)))
  IN  SubSeq(list, 1, IF Len(list) < limit THEN Len(list) ELSE limit)

\* build_aggregate_output: "how many" counts the documents found once each,
\* "how much" adds up the numbers in their texts and knows no sum of zero.
Aggregate(intent, results) ==
  LET number(d) == FoldSeq(LAMBDA s, sum : sum + s.number, 0, d.content)
      total     == FoldSeq(LAMBDA d, sum : sum + number(d), 0, results)
  IN  CASE intent = "count" -> Cardinality(ToSet(results))
        [] intent = "sum" /\ total > 0 -> total
        [] OTHER -> "unknown"

\* MemoryIndex::load_with_binary_core: a core without documents is refused for
\* records that have some; then, or without one, all is built from the records.
LoadedCore(records) ==
  IF core.state = "saved" /\ (core.documents # {} \/ records = {}) THEN core.documents ELSE records

\* What a query prints: five documents, a number, or chunks for a prompt.
Answer(ask, index) ==
  CASE ask = "list" -> Listed(index, 5)
    [] ask \in {"count", "sum"} -> <<Listed(index, 5), Aggregate(ask, Listed(index, 5))>>
    [] ask \in {"all", "by_doc"} ->
         LET ranking == Listed(index, 20)
             chunks  == ContextChunks(ranking, ask, Config.requested)
         IN  [i \in DOMAIN chunks |->
                <<ranking[chunks[i][1]].id, ranking[chunks[i][1]].content[chunks[i][2]]>>]

\* What the commands that only look at the graph print or write to a file.
Shown(kind, graph) ==
  CASE kind = "tier0" -> graph.tier0
    [] kind = "concepts" -> ConceptsBySection(graph, Config)
    [] kind = "analyze" -> Analysis(graph, Config, Config.directoryOf)
    [] kind = "debug" -> DebugMatches(graph, Config)
    [] kind = "ontology" -> OntologyExport(SourceDocuments(graph))
    [] kind = "export" -> <<DocumentExport(graph), ChunkExport(graph), EntityExport(graph),
                            ChunkStats(graph)>>
    [] OTHER -> "elsewhere"

(* ------------------------------- one command ------------------------------- *)

\* run: the first of these that was given decides; with none of them it reviews.
\* Codex is served only after the corpus was read for nothing.
MemoryCommands   == <<"inspect", "recall_server", "recall", "promote", "replay">>
ProviderCommands == <<"status", "hook", "install", "serve", "verify">>
CorpusCommands   == <<"query", "tier0", "index", "codex_serve", "concepts", "analyze", "debug", "export", "ontology">>
Routed(given) ==
  LET asked == SelectSeq(MemoryCommands \o ProviderCommands \o CorpusCommands,
                         LAMBDA c : c \in given)
  IN  IF asked = <<>> THEN "review" ELSE asked[1]

Kind(w) == Routed(run[w].command.given)
DocumentsRead(r) == SourceDocuments(ApplyIgnores(BuildGraph(r.seen, r.limits), r.ignored))

CommandInit ==
  /\ files = FirstFiles /\ config = [valid |-> TRUE, ignored |-> {}]
  /\ json = NoFile /\ core = NoFile /\ lexical = NoFile
  /\ run = [w \in Processes |-> Idle]
  /\ starts = 0 /\ edits = 0 /\ faults = 0

\* Between the reading of the corpus and its fingerprint, in either order.
BetweenReads(w) ==
  run[w].at = "fingerprint_late" \/ (run[w].at = "graph" /\ Kind(w) = "query")

\* A user writes or deletes a file; its time is the edit's.
Edit(p) ==
  /\ edits < MaxEdits /\ edits' = edits + 1
  /\ \E content \in Contents \cup {Absent} :
       files' = [files EXCEPT ![p] = IF content = Absent THEN Absent
                                     ELSE [content EXCEPT !.stamp = edits + 1]]
  /\ run' = [w \in Processes |->
               IF BetweenReads(w) THEN [run[w] EXCEPT !.overtaken = TRUE] ELSE run[w]]
  /\ UNCHANGED <<config, cache, starts, faults>>

Configure ==
  /\ edits < MaxEdits /\ edits' = edits + 1
  /\ \E paths \in Ignorable, valid \in BOOLEAN :
       config' = [valid |-> valid, ignored |-> paths]
  /\ config' # config
  /\ UNCHANGED <<files, cache, run, starts, faults>>

\* load_config: a file that cannot be parsed counts as an empty one, unless the
\* command was told to be strict and ends there.
LoadedIgnores == IF config.valid THEN config.ignored ELSE {}

\* The configuration is read first.  A query takes the fingerprint before it
\* reads the corpus, every other command after.
Start(w) ==
  /\ run[w].at = "idle" /\ starts < MaxStarts /\ starts' = starts + 1
  /\ \E command \in Commands, limits \in Limits :
       LET query == Routed(command.given) = "query" IN
       /\ command.strict => config.valid
       /\ run' = [run EXCEPT ![w] =
         [at |-> IF query THEN "fingerprint" ELSE "graph", command |-> command,
          limits |-> limits, ignored |-> LoadedIgnores, overtaken |-> FALSE]]
  /\ UNCHANGED <<files, config, cache, edits, faults>>

Goto(w, at, more) ==
  run' = [run EXCEPT ![w] = With([@ EXCEPT !.at = at], more)]

TakeFingerprint(w) ==
  /\ run[w].at \in {"fingerprint", "fingerprint_late"}
  /\ Goto(w, CASE run[w].at = "fingerprint" -> "graph"
               [] run[w].at # "fingerprint" /\ Kind(w) = "index" -> "build"
               [] OTHER -> "load",
          [print |-> Fingerprint(files, run[w].limits), printed |-> files])
  /\ UNCHANGED <<files, config, cache, bounds>>

\* Graph::build and the ignores; commands that only show the graph end here.
ReadCorpus(w) ==
  /\ run[w].at = "graph"
  /\ Goto(w, CASE Kind(w) = "query" -> "load"
               [] Kind(w) \in {"index", "review"} -> "fingerprint_late"
               [] OTHER -> "shown",
          [seen |-> files,
           shown |-> Shown(Kind(w), ApplyIgnores(BuildGraph(files, run[w].limits), run[w].ignored))])
  /\ UNCHANGED <<files, config, cache, bounds>>

\* load_cached_query_index up to the core: records saved under this fingerprint.
LoadRecords(w) ==
  /\ run[w].at = "load"
  /\ IF json.state = "saved" /\ json.print = run[w].print
     THEN Goto(w, "load_core", [index |-> [from |-> "cache", records |-> json.records],
                                saver |-> json])
     ELSE Goto(w, "build", <<>>)
  /\ UNCHANGED <<files, config, cache, bounds>>

LoadCore(w) ==
  /\ run[w].at = "load_core"
  /\ Goto(w, "lexical", [index |-> With(run[w].index, [core |-> LoadedCore(run[w].index.records)])])
  /\ UNCHANGED <<files, config, cache, bounds>>

\* build_memory_index, up to the lexical directory.
BuildIndex(w) ==
  /\ run[w].at = "build"
  /\ Goto(w, "lexical", [index |-> [from |-> "build", records |-> DocumentsRead(run[w]),
                                    core |-> DocumentsRead(run[w])]])
  /\ UNCHANGED <<files, config, cache, bounds>>

AfterLexical(w) == IF run[w].index.from = "build" THEN "save" ELSE "answered"

\* build_lexical_index: a directory that opens is used as it is; else one is
\* created, and filled and committed only after it is there to be opened.
OpenLexical(w) ==
  /\ run[w].at = "lexical"
  /\ IF lexical.state = "saved"
     THEN /\ Goto(w, AfterLexical(w), [index |-> With(run[w].index, [lexical |-> lexical.documents])])
          /\ UNCHANGED lexical
     ELSE /\ lexical' = Saved([documents |-> {}])
          /\ Goto(w, "fill_lexical", <<>>)
  /\ UNCHANGED <<files, config, json, core, bounds>>

FillLexical(w) ==
  /\ run[w].at = "fill_lexical"
  /\ lexical' = Saved([documents |-> run[w].index.records])
  /\ Goto(w, AfterLexical(w), [index |-> With(run[w].index, [lexical |-> run[w].index.records])])
  /\ UNCHANGED <<files, config, json, core, bounds>>

\* save_cached_query_index: the json is truncated and written in place ...
TruncateRecords(w) ==
  /\ run[w].at = "save"
  /\ json' = Torn
  /\ Goto(w, "save_records", <<>>)
  /\ UNCHANGED <<files, config, core, lexical, bounds>>

SaveRecords(w) ==
  /\ run[w].at = "save_records"
  /\ json' = Saved([print |-> run[w].print, records |-> run[w].index.records,
                    limits |-> run[w].limits, ignored |-> run[w].ignored,
                    overtaken |-> run[w].overtaken,
                    covered |-> Covered(run[w].printed, run[w].limits)])
  /\ Goto(w, "save_core", <<>>)
  /\ UNCHANGED <<files, config, core, lexical, bounds>>

\* ... and the core is replaced by a rename, after it.
SaveCore(w) ==
  /\ run[w].at = "save_core"
  /\ core' = Saved([documents |-> run[w].index.core])
  /\ Goto(w, "answered", <<>>)
  /\ UNCHANGED <<files, config, json, lexical, bounds>>

\* A save that fails is a warning: an unsafe path, a full disk.
SaveFails(w) ==
  /\ run[w].at \in {"save", "save_records", "save_core"}
  /\ faults < MaxFaults /\ faults' = faults + 1
  /\ Goto(w, "answered", <<>>)
  /\ UNCHANGED <<files, config, cache, starts, edits>>

Crash(w) ==
  /\ run[w].at \notin {"idle", "answered", "shown"}
  /\ faults < MaxFaults /\ faults' = faults + 1
  /\ run' = [run EXCEPT ![w] = Idle]
  /\ UNCHANGED <<files, config, cache, starts, edits>>

\* The answer is printed and the process ends.
End(w) ==
  /\ run[w].at \in {"answered", "shown"}
  /\ run' = [run EXCEPT ![w] = Idle]
  /\ UNCHANGED <<files, config, cache, bounds>>

Step(w) ==
  \/ Start(w) \/ TakeFingerprint(w) \/ ReadCorpus(w) \/ LoadRecords(w) \/ LoadCore(w)
  \/ BuildIndex(w) \/ OpenLexical(w) \/ FillLexical(w) \/ TruncateRecords(w)
  \/ SaveRecords(w) \/ SaveCore(w) \/ SaveFails(w) \/ Crash(w) \/ End(w)

CommandNext ==
  \/ \E p \in Paths : Edit(p)
  \/ Configure
  \/ \E w \in Processes : Step(w)

CommandSpec == CommandInit /\ [][CommandNext]_commandVars

(* -------------------------------- properties ------------------------------- *)

Answered(w, kind) == run[w].at = "answered" /\ Kind(w) = kind

\* The text a query quotes from the cache is the text that was under the root
\* when it took its fingerprint, if the run that saved it had the same limits
\* and ignores, and no edit fell between its graph and its fingerprint (one
\* there puts the text of one time under the fingerprint of another), and both
\* fingerprints covered their corpus (what the total keeps out of a fingerprint
\* changes unnoticed, though a large file before it may be all that filled the
\* total and be no document itself).  Other runs may crash, fail to save, or
\* save in between.
CachedTextIsCurrent ==
  \A w \in Processes :
    LET r == run[w] IN
    r.at \in {"lexical", "fill_lexical", "answered"} /\ r.index.from = "cache"
      /\ ~r.saver.overtaken /\ r.saver.covered /\ Covered(r.printed, r.limits)
      /\ r.saver.limits = r.limits /\ r.saver.ignored = r.ignored
    => r.index.records
         = SourceDocuments(ApplyIgnores(BuildGraph(r.printed, r.limits), r.ignored))

\* The pages a chain of links leads to, page by page, from the first ones.
ChainsFrom(pages, first) ==
  LET next(S) == S \cup {j \in DOMAIN pages : \E i \in S : pages[j].concept \in pages[i].links}
      chain[n \in 0 .. Len(pages)] == IF n = 0 THEN first ELSE next(chain[n - 1])
  IN  chain[Len(pages)]

PagesOf(pages, concept) == {i \in DOMAIN pages : pages[i].concept = concept}

\* The index pages that are the page of their concept.
FirstPages(pages) ==
  {i \in DOMAIN pages : /\ pages[i].path \in IndexPages
                        /\ NodeOf(pages, pages[i].concept) = pages[i].path}

\* A chain of links leads from a page of the one concept to one of the other.
Leads(pages, a, b) == ChainsFrom(pages, PagesOf(pages, a)) \cap PagesOf(pages, b) # {}

\* A review calls a page unreachable only if no chain of links leads to it from
\* an index page, though pages of one concept share a node and ignored pages
\* are dropped after the graph is built.  A missing cross reference is never to
\* the concept of the page itself, to one the page links or to one out of the
\* allowed concepts; and where chains of links join the two both ways, it is of
\* low severity unless the concept has its share of the links.
ReportedPagesAreCutOff ==
  \A w \in Processes : Answered(w, "review") =>
    LET graph == ApplyIgnores(BuildGraph(run[w].seen, run[w].limits), run[w].ignored)
        all   == BuildGraph(run[w].seen, run[w].limits).pages
        joined(a, b) == Leads(all, a, b) /\ Leads(all, b, a)
        hub(concept) == OutDegree(graph, concept) * graph.pageCount >= Cardinality(graph.links)
    IN  /\ \A i \in ChainsFrom(all, FirstPages(all)) :
             <<"unreachable", all[i].path>> \notin CheckOrphans(graph)
        /\ \A m \in CheckCrossRefs(graph, Config) :
             \E page \in ToSet(graph.pages) :
               /\ page.path = m[2] /\ m[3] \notin page.links \cup {page.concept}
               /\ Config.allowlist = {} \/ m[3] \in Config.allowlist
               /\ ~hub(m[3]) /\ joined(page.concept, m[3]) => m[4] = "low"

\* A query answers from the corpus as it was at some time while it ran: as an
\* index built of it then would.
AnswersReadTheCorpus ==
  \A w \in Processes : Answered(w, "query") =>
    LET r == run[w]
        of(at) == SourceDocuments(ApplyIgnores(BuildGraph(at, r.limits), r.ignored))
        fresh(at) == [records |-> of(at), core |-> of(at), lexical |-> of(at)]
    IN  Answer(r.command.ask, r.index)
          \in {Answer(r.command.ask, fresh(at)) : at \in {r.printed, r.seen}}
=============================================================================
