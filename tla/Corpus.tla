------------------------------- MODULE Corpus -------------------------------
(* A directory of markdown as the command line and the hooks see it:          *)
(* adapters/markdown.rs walks and parses it, graph.rs links its pages, chunks *)
(* and entities, adapters.rs drops ignored paths and hands documents to an    *)
(* index, rules/ and engine.rs report on links and concepts.  A path stands   *)
(* for its name; what its file holds is a record:                             *)
(*   size, readable, stamp (modification time), links (targets), sections     *)
(*   (heading, text, mentions of page names, names it capitalises, code),     *)
(*   front (the frontmatter keys it sets).                                    *)
EXTENDS Integers, Sequences, FiniteSets, SequencesExt, Functions

CONSTANTS Walk,          \* the paths under the root, in the order walked
          DepthOf,       \* path -> how deep it lies
          NotMarkdown,   \* paths with another extension
          StemOf,        \* path -> its file stem, the raw concept
          ConceptOf,     \* stem -> the normalised concept
          IndexPages,    \* paths that end with index.md
          FormsOf,       \* stem -> the surface forms a text may use for it
          NoisyConcepts, \* stopwords, numbers and names below three letters
          BucketOf,      \* heading -> the stable name of its kind
          Scopes         \* scope prefix -> the paths that start with it

Paths == ToSet(Walk)
Absent == [readable |-> FALSE, size |-> 0]
IsFile(files, p) == files[p] # Absent

ASSUME CorpusAssumption ==
  /\ DepthOf \in [Paths -> Nat] /\ NotMarkdown \subseteq Paths
  /\ Walk \in Seq(Paths) /\ IsInjective(Walk) /\ IndexPages \subseteq Paths

(* --------------------------- adapters/markdown.rs -------------------------- *)

Markdown(files, p, limits) ==
  IsFile(files, p) /\ DepthOf[p] <= limits.depth /\ p \notin NotMarkdown

\* The walk of build_markdown_corpus: a file too large for one document is
\* passed over before it counts towards the total; reaching the file limit or
\* the total ends the walk.
Walked(files, limits) ==
  LET visit(state, p) ==
        IF state.done \/ ~Markdown(files, p, limits) THEN state
        ELSE IF state.seen + 1 > limits.files THEN [state EXCEPT !.done = TRUE]
        ELSE LET here  == [state EXCEPT !.seen = @ + 1]
                 total == here.total + files[p].size
             IN  IF files[p].size > limits.bytes THEN here
                 ELSE IF total > limits.total THEN [here EXCEPT !.done = TRUE]
                 ELSE [here EXCEPT !.total = total,
                         !.read = IF files[p].readable THEN Append(@, p) ELSE @]
  IN  FoldLeft(visit, [done |-> FALSE, seen |-> 0, total |-> 0, read |-> <<>>], Walk).read

\* concept_from_link_target: links out of the tree and bare anchors name none.
LinkConcepts(file) ==
  {ConceptOf[t.stem] : t \in {u \in file.links : u.kind = "page" /\ u.stem # ""}}

Headings(file) ==
  LET titled == SelectSeq(file.sections, LAMBDA s : s.heading # "")
  IN  [i \in DOMAIN titled |-> titled[i].heading]

\* Of several frontmatter keys for one thing the first in this order counts.
FirstOf(front, keys) ==
  LET given == SelectSeq(keys, LAMBDA k : k \in DOMAIN front)
  IN  IF given = <<>> THEN "" ELSE front[given[1]]

Supersedes(file) == FirstOf(file.front, <<"supersedes", "supersedes_id">>)
Author(file) == FirstOf(file.front, <<"author", "agent", "author_agent", "created_by">>)

\* A page and, under the same path, its tier 0 record.
Page(p, file) ==
  [path |-> p, raw |-> StemOf[p], concept |-> ConceptOf[StemOf[p]], file |-> file,
   links |-> LinkConcepts(file), headings |-> Headings(file)]
Tier0(p, file) ==
  [source |-> p, timestamp |-> file.stamp, author |-> Author(file),
   length |-> file.size, supersedes |-> Supersedes(file)]

(* --------------------------------- graph.rs -------------------------------- *)

\* chunk_page_sections: one chunk for each section with text, the whole page
\* when none has any.
ChunksOf(page) ==
  LET full == SelectSeq(page.file.sections, LAMBDA s : s.text # "")
      name(s) == IF s.heading = "" THEN "(document)" ELSE s.heading
  IN  IF full = <<>> THEN <<[id |-> <<page.path, 0>>, heading |-> "(document)"]>>
      ELSE [i \in DOMAIN full |-> [id |-> <<page.path, i - 1>>, heading |-> name(full[i])]]

\* extract_doc_entities: the page's concept and what its text capitalises.
EntitiesOf(page) ==
  {page.concept} \cup UNION {page.file.sections[i].names : i \in DOMAIN page.file.sections}

Concepts(pages) == {pages[i].concept : i \in DOMAIN pages}

\* Pages of one concept share a node, the one of the page walked last.
NodeOf(pages, concept) ==
  LET named == {i \in DOMAIN pages : pages[i].concept = concept}
  IN  pages[CHOOSE i \in named : \A j \in named : j <= i].path

\* The links that name a page: where from, its concept and the concept named.
PageLinks(pages) ==
  UNION {{[path |-> pages[i].path, from |-> pages[i].concept, to |-> c] :
            c \in pages[i].links \cap Concepts(pages)} : i \in DOMAIN pages}
LinkEdges(pages) ==
  {<<NodeOf(pages, l.from), NodeOf(pages, l.to)>> : l \in PageLinks(pages)}

\* Chunks follow one another; a link leads from first chunk to first chunk.
ChunkEdges(pages) ==
  LET follow(page) == {[kind |-> "next", from |-> <<page.path, n>>, to |-> <<page.path, n + 1>>] :
                         n \in 0 .. Len(ChunksOf(page)) - 2}
  IN  (UNION {follow(pages[i]) : i \in DOMAIN pages})
      \cup {[kind |-> "doc_link", from |-> <<l.path, 0>>, to |-> <<NodeOf(pages, l.to), 0>>] :
              l \in PageLinks(pages)}

\* Entities of one page occur together; a link joins its page's concept with
\* the entity it names, a page's or not.
EntityEdges(pages) ==
  LET all == UNION {EntitiesOf(pages[i]) : i \in DOMAIN pages}
      together(es) == {[kind |-> "co_occurs", ends |-> ends] :
                         ends \in {e \in SUBSET es : Cardinality(e) = 2}}
      linked(page) == {[kind |-> "doc_link", ends |-> {page.concept, c}] : c \in page.links \cap all}
  IN  UNION {together(EntitiesOf(pages[i])) \cup linked(pages[i]) : i \in DOMAIN pages}

\* Graph::build, from the pages parsed and their records.
GraphOf(pages, tier0) ==
  [pages |-> pages, tier0 |-> tier0,
   nodes |-> [c \in Concepts(pages) |-> NodeOf(pages, c)],
   links |-> PageLinks(pages), edges |-> LinkEdges(pages), pageCount |-> Len(pages),
   chunks |-> UNION {ToSet(ChunksOf(pages[i])) : i \in DOMAIN pages},
   chunkEdges |-> ChunkEdges(pages),
   entities |-> UNION {EntitiesOf(pages[i]) : i \in DOMAIN pages},
   entityEdges |-> EntityEdges(pages)]

BuildGraph(files, limits) ==
  LET read == Walked(files, limits)
  IN  GraphOf([i \in DOMAIN read |-> Page(read[i], files[read[i]])],
              {Tier0(p, files[p]) : p \in ToSet(read)})

(* -------------------------------- adapters.rs ------------------------------ *)

\* apply_ignore_paths: pages and tier 0 records go; nodes, links, chunks and
\* entities of the ignored pages stay in the graph.
ApplyIgnores(graph, ignored) ==
  [graph EXCEPT !.pages = FoldLeft(LAMBDA kept, p : IF p.path \in ignored THEN kept
                                                    ELSE Append(kept, p), <<>>, @),
                !.tier0 = {r \in @ : r.source \notin ignored}]

\* graph_to_source_documents: a link is kept when its page is.
SourceDocuments(graph) ==
  LET document(page) ==
        LET record == CHOOSE r \in graph.tier0 : r.source = page.path IN
        [id |-> page.path, content |-> page.file.sections, concept |-> page.raw,
         supersedes |-> record.supersedes, timestamp |-> record.timestamp,
         author |-> record.author, headings |-> page.headings,
         links |-> {NodeOf(graph.pages, c) : c \in page.links \cap Concepts(graph.pages)}]
  IN  {document(graph.pages[i]) : i \in DOMAIN graph.pages}

(* ----------------------------------- rules --------------------------------- *)

\* Only what an index page links itself.
Reached_OneStep(graph, from) ==
  from \cup {e[2] : e \in {f \in graph.edges : f[1] \in from}}

\* The nodes a search along the edges finds from a set of nodes.
Reached(graph, from) ==
  LET step[n \in 0 .. graph.pageCount] ==
        IF n = 0 THEN from
        ELSE step[n - 1] \cup {e[2] : e \in {f \in graph.edges : f[1] \in step[n - 1]}}
  IN  step[graph.pageCount]

OutDegree(graph, concept) == Cardinality({l \in graph.links : l.from = concept})

\* check_orphans: pages with less than half the average of links; then either
\* the pages no index page leads to, or, without one, the pages nothing links.
CheckOrphans(graph) ==
  LET pages  == graph.pages
      roots  == {graph.nodes[c] : c \in DOMAIN graph.nodes} \cap IndexPages
      linked == UNION {pages[i].links : i \in DOMAIN pages}
      sparse == {i \in DOMAIN pages :
                   2 * OutDegree(graph, pages[i].concept) * graph.pageCount
                     < Cardinality(graph.links)}
      found  == Reached(graph, roots)
  IN  {<<"sparse", pages[i].path>> : i \in sparse}
      \cup IF roots # {}
           THEN {<<"unreachable", pages[i].path>> :
                   i \in {j \in DOMAIN pages : graph.nodes[pages[j].concept] \notin found}}
           ELSE {<<"orphan", pages[i].path>> :
                   i \in {j \in DOMAIN pages : pages[j].concept \notin linked /\ Len(pages) > 1}}

InScope(page, cfg) == cfg.scope = "" \/ page.path \in Scopes[cfg.scope]

\* build_matcher: the forms that name one concept of the pages in scope.  The
\* first page of a concept gives its forms; a form two concepts share names none.
KnownForms(graph, cfg) ==
  LET scoped == SelectSeq(graph.pages, LAMBDA p : p.concept \notin NoisyConcepts /\ InScope(p, cfg))
      first  == {i \in DOMAIN scoped : \A j \in 1 .. i - 1 : scoped[j].concept # scoped[i].concept}
      owners(form) == {scoped[i].concept : i \in {k \in first : form \in FormsOf[scoped[k].raw]}}
      forms  == {f \in UNION {FormsOf[scoped[i].raw] : i \in first} : Cardinality(owners(f)) = 1}
  IN  [f \in forms |-> CHOOSE c \in owners(f) : TRUE]

\* The concepts a section's prose mentions; code and headings do not count.
MentionedIn(section, known) ==
  IF section.code THEN {} ELSE {known[f] : f \in section.mentions \cap DOMAIN known}

\* Two pages of which each leads to the other.
SameComponent(graph, a, b) ==
  b \in Reached(graph, {a}) /\ a \in Reached(graph, {b})

Severity(graph, page, concept) ==
  IF \/ OutDegree(graph, concept) * graph.pageCount >= Cardinality(graph.links)
     \/ ~SameComponent(graph, graph.nodes[page.concept], graph.nodes[concept])
  THEN "high" ELSE "low"

\* check_cross_refs: a page mentions a concept it does not link.
CheckCrossRefs(graph, cfg) ==
  LET known == KnownForms(graph, cfg)
      found(page) ==
        UNION {MentionedIn(page.file.sections[i], known) :
                 i \in {k \in DOMAIN page.file.sections :
                          BucketOf[page.file.sections[k].heading] \notin cfg.ignoredCrossSections}}
      missing(page) ==
        {c \in (found(page) \ page.links) \ {page.concept} :
           cfg.allowlist = {} \/ c \in cfg.allowlist}
      inScope == {p \in ToSet(graph.pages) : InScope(p, cfg)}
  IN  UNION {{<<"missing", p.path, c, Severity(graph, p, c)>> : c \in missing(p)} : p \in inScope}

\* collect_section_concepts: what each heading of a page mentions; text before
\* the first heading belongs to "", which every page has.
SectionConcepts(page, known) ==
  LET sections == page.file.sections
      headings == {""} \cup {sections[i].heading : i \in DOMAIN sections}
  IN  [h \in headings |-> UNION {MentionedIn(sections[i], known) :
                                   i \in {k \in DOMAIN sections : sections[k].heading = h}}]

\* show_concepts_by_section: how many sections of a kind mention a concept.
ConceptsBySection(graph, cfg) ==
  LET known == KnownForms(graph, cfg)
      mentions == {m \in (DOMAIN graph.pages) \X (DOMAIN BucketOf) \X Range(known) :
                     LET of == SectionConcepts(graph.pages[m[1]], known)
                     IN  m[2] \in DOMAIN of /\ m[3] \in of[m[2]]}
  IN  [b \in Range(BucketOf) \ cfg.ignoredSections |->
         [c \in Range(known) |-> Cardinality({m \in mentions : BucketOf[m[2]] = b /\ m[3] = c})]]

\* analyze_for_tests: suggested stopwords are in 40% of the pages; suggested
\* sections to ignore head 30%, of which "unscoped" heads them all; the scope
\* is what all paths have in common.
Analysis(graph, cfg, directoryOf) ==
  LET known == KnownForms(graph, cfg)
      n == Len(graph.pages)
      pagesWith(c) == {i \in 1 .. n :
        \E h \in DOMAIN SectionConcepts(graph.pages[i], known) :
          c \in SectionConcepts(graph.pages[i], known)[h]}
      headed(b) == {m \in (1 .. n) \X (DOMAIN BucketOf) :
        m[2] \in DOMAIN SectionConcepts(graph.pages[m[1]], known) /\ BucketOf[m[2]] = b}
  IN  [stopwords |-> {c \in Range(known) : n > 0 /\ 10 * Cardinality(pagesWith(c)) >= 4 * n},
       ignored |-> {b \in {"related", "unscoped"} : n > 0 /\ 10 * Cardinality(headed(b)) >= 3 * n},
       scope |-> IF n = 0 THEN <<>>
                 ELSE LongestCommonPrefix({directoryOf[graph.pages[i].path] : i \in 1 .. n})]

\* debug_phrase_matches: what a page's prose and headings mention.
DebugMatches(graph, cfg) ==
  LET known == KnownForms(graph, cfg)
      at(section) == MentionedIn(section, known) \cup
                     {known[f] : f \in {section.heading} \cap DOMAIN known}
  IN  {<<graph.pages[i].path,
         UNION {at(graph.pages[i].file.sections[j]) : j \in DOMAIN graph.pages[i].file.sections}>> :
         i \in DOMAIN graph.pages}

(* ---------------------------------- exports -------------------------------- *)

\* build_graph_json_export: pages are identified by concept.
DocumentExport(graph) ==
  [nodes |-> {[id |-> graph.pages[i].concept, source |-> graph.pages[i].path] :
                i \in DOMAIN graph.pages},
   edges |-> UNION {{<<graph.pages[i].concept, c>> :
                       c \in graph.pages[i].links \cap Concepts(graph.pages)} : i \in DOMAIN graph.pages}]

\* The chunk and entity levels are written as they were built, ignored or not.
ChunkExport(graph) == [nodes |-> graph.chunks, edges |-> graph.chunkEdges]
EntityExport(graph) == [nodes |-> graph.entities, edges |-> graph.entityEdges]

ChunkStats(graph) ==
  LET of(kind) == Cardinality({e \in graph.chunkEdges : e.kind = kind}) IN
  [nodes |-> Cardinality(graph.chunks), next |-> of("next"), links |-> of("doc_link")]

\* export_ontology_json: documents, their chunks, what the chunks mention, and
\* how many chunks mention two names together.
OntologyExport(documents) ==
  LET chunks == UNION {{<<d.id, i>> : i \in DOMAIN d.content} : d \in documents}
      text(c) == (CHOOSE d \in documents : d.id = c[1]).content[c[2]]
      names  == UNION {text(c).names : c \in chunks}
      pairs  == {e \in SUBSET names : Cardinality(e) = 2}
      both(e) == Cardinality({c \in chunks : e \subseteq text(c).names})
  IN  [documents |-> {d.id : d \in documents}, chunks |-> chunks, entities |-> names,
       belongs |-> {<<c, c[1]>> : c \in chunks},
       mentions |-> UNION {{<<c, n>> : n \in text(c).names} : c \in chunks},
       together |-> {<<e, both(e)>> : e \in {f \in pairs : both(f) > 0}}]
=============================================================================
