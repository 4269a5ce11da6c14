---------------------------- MODULE MCQueryWorkers ----------------------------
(* Three workers: two share a segment name, all hold versions of one document. *)
EXTENDS QueryWorkers

MCHeldBy == "a" :> {"s1", "s2"} @@ "b" :> {"s1"} @@ "c" :> {"s3"}
MCRequests == <<"q2", "q1">>
MCTermLists == {<<"routing">>, <<"routing", "routing">>}
MCTopKs == {0, 2}
MCGenerations == {"", "g1", "g2"}

Count(documents, tokens, hits) ==
  [documents |-> [f \in {"content"} |-> documents], tokens |-> [f \in {"content"} |-> tokens],
   terms |-> [t \in {"routing"} |-> [f \in {"content"} |-> hits]]]
MCCounts == "a" :> ("s1" :> Count(2, 5, 1) @@ "s2" :> Count(1, 3, 0)) @@ "b" :> ("s1" :> Count(3, 4, 2)) @@ "c" :> ("s3" :> Count(0, 0, 0))

Entry(doc, segment, score, source, breakdown) ==
  [segment |-> segment,
   result |-> [doc |-> doc, score |-> score, source |-> source,
               group |-> source % 2, breakdown |-> breakdown]]
MCDocuments ==
  "a" :> <<Entry(1, "s1", 4, 1, 1), Entry(2, "s2", 3, 1, 1), Entry(3, "s1", 2, 1, 1)>>
  @@ "b" :> <<Entry(4, "s1", 9, 2, 1), Entry(2, "s1", 3, 1, 2), Entry(3, "s1", 3, 2, 1)>>
  @@ "c" :> <<Entry(2, "s3", 3, 2, 1), Entry(5, "s3", 4, 3, 1)>>
=============================================================================
