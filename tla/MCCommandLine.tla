---------------------------- MODULE MCCommandLine ----------------------------
(* Four pages, of which two share a concept, and edits that link, cut, move   *)
(* or outgrow them.                                                           *)
EXTENDS CommandLine

MCSymmetry == Permutations(Processes)

MCWalk == <<"index", "guide", "deep", "copy">>
MCDepthOf == [p \in {"index", "guide", "deep", "copy"} |-> IF p = "deep" THEN 3 ELSE 1]
MCStemOf == "index" :> "index" @@ "guide" :> "guide" @@ "deep" :> "deep" @@ "copy" :> "Guide"
MCConceptOf == "index" :> "index" @@ "guide" :> "guide" @@ "deep" :> "deep" @@ "Guide" :> "guide"
MCFormsOf == "index" :> {"index"} @@ "guide" :> {"guide", "guides"} @@ "deep" :> {"deep"} @@ "Guide" :> {"guide"}
MCBucketOf == "" :> "unscoped" @@ "Setup" :> "setup" @@ "See also" :> "related"
MCScopes == "" :> {"index", "guide", "deep", "copy"} @@ "docs/" :> {"index", "guide"}

Section(heading, text, mentions, names) ==
  [heading |-> heading, text |-> text, mentions |-> mentions, names |-> names,
   number |-> 2, code |-> FALSE]
File(size, links, sections) ==
  [size |-> size, readable |-> TRUE, stamp |-> 0, sections |-> sections,
   links |-> {[kind |-> "page", stem |-> l] : l \in links}, front |-> [k \in {} |-> ""]]

Entry == File(3, {"guide"}, <<Section("", "start", {"guide"}, {}), Section("Setup", "run", {"deep"}, {"Ada"})>>)
Guide == File(2, {"deep", "index"}, <<Section("", "guide", {"deep", "guide"}, {"Ada"})>>)
Plain == File(2, {"index"}, <<Section("", "plain", {"deep", "guides"}, {})>>)
Large == File(9, {"deep"}, <<Section("", "large", {"deep"}, {})>>)

MCFirstFiles == "index" :> Entry @@ "guide" :> Guide @@ "deep" :> [Plain EXCEPT !.readable = FALSE] @@ "copy" :> Absent
MCContents == {Plain, Large}
MCIgnorable == {{}, {"guide"}}
MCNoIgnores == {{}}

\* Everything is read; or the entry page is too large for a document and fills
\* the total of the fingerprint before the last pages.
MCWide   == [bytes |-> 5, files |-> 9, depth |-> 3, total |-> 99]
MCNarrow == [bytes |-> 2, files |-> 9, depth |-> 3, total |-> 5]
MCLimits == {MCWide}
MCTwoLimits == {MCWide, MCNarrow}

\* Bound: commands that run at a time, or one after another, have one limit.
MCOneLimit ==
  LET limits == {run[w].limits : w \in {v \in Processes : run[v] # Idle}}
                  \cup (IF json.state = "saved" THEN {json.limits} ELSE {})
  IN  Cardinality(limits) <= 1

Command(given, ask) == [given |-> given, ask |-> ask, strict |-> ask = "strict"]
MCCommands ==
  {Command({"index"}, ""), Command({}, ""), Command({"query", "index"}, "by_doc"),
   Command({"analyze"}, "strict"), Command({"export"}, ""), Command({"concepts"}, ""),
   Command({"debug"}, ""), Command({"ontology"}, ""), Command({"tier0"}, "")}
MCQueries == {Command({"query"}, a) : a \in {"count", "list", "sum", "all", "by_doc"}}
MCConfig ==
  [scope |-> "", allowlist |-> {"deep"}, ignoredCrossSections |-> {"related"}, ignoredSections |-> {},
   requested |-> 2, directoryOf |-> [p \in {"index", "guide", "deep", "copy"} |-> <<"docs">>]]
=============================================================================
