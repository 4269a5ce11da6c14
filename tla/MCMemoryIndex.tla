---------------------------- MODULE MCMemoryIndex ----------------------------
(* Small values for MemoryIndex: three documents of up to two chunks over     *)
(* five tokens, two of them in one group, and queries of every intent and     *)
(* every reading of time.                                                     *)
EXTENDS MemoryIndex, TLC

Chunk(id, terms, heading, entities, from, to, date) ==
  [id |-> id, terms |-> terms, heading |-> heading, entities |-> entities,
   from |-> from, to |-> to, date |-> date]

Base ==
  [chunks |-> {}, terms |-> {1}, heading |-> {}, entities |-> {}, lines |-> 3, date |-> 0,
   topic |-> {}, type |-> {}, claims |-> {}, filters |-> {}, links |-> {}, temporal |-> FALSE,
   number |-> FALSE, text |-> <<1>>, predicates |-> {}, penalty |-> 0, group |-> 0]

\* A plain note; a dated one with claims and a link; two dated chunks of a
\* group about an entity; a long document of the same group.
Plain == [Base EXCEPT !.terms = {1, 2}, !.text = <<1, 2, 1>>, !.topic = {2}, !.filters = {1}]

Claimed ==
  [Base EXCEPT !.terms = {2}, !.entities = {4}, !.date = 50, !.claims = {[tokens |-> {1, 2}, confidence |-> 700]},
               !.links = {1, 2}, !.text = <<2, 4>>, !.predicates = {"count"}, !.type = {1}, !.group = 1]

Parts ==
  [Base EXCEPT !.chunks = {Chunk(1, {1}, {2}, {4}, 1, 4, 0), Chunk(2, {1, 5}, {}, {4}, 3, 9, 90)},
               !.entities = {4}, !.text = <<1, 5, 2>>, !.number = TRUE, !.temporal = TRUE, !.group = 1]

Long ==
  [Base EXCEPT !.chunks = {Chunk(i, {1}, {}, {}, 4 * i - 3, 4 * i + (i % 2), 40 + i) : i \in 1 .. 3},
               !.text = <<1, 1, 2>>, !.penalty = 350, !.number = TRUE, !.group = 1, !.filters = {1, 2}]

MCRecords == {Plain, Claimed, Parts, Long}

Ask ==
  [terms |-> <<1, 2>>, expanded |-> {}, phrase |-> 0, intent |-> "none", counting |-> FALSE,
   explicit |-> FALSE, recency |-> FALSE, hint |-> "none", start |-> 0, end |-> 0, phrases |-> <<>>,
   reference |-> 0, window |-> 7, hard |-> FALSE, ids |-> Unscoped, pairs |-> {}, topK |-> 2,
   stopwords |-> {}, units |-> {5}]

\* An expression of each kind, asked where months, leap years and weeks end: 31
\* March 2024 is a Sunday, 1 January 2024 a Monday.
MCTimed ==
  {<<Period("month", -1), Date(2024, 3, 31)>>, <<Apart("month", 1), Date(2024, 1, 31)>>,
   <<Apart("year", -1), Date(2024, 2, 29)>>, <<Apart("month", 3), Date(2024, 12, 31)>>,
   <<Named(0, -1), Date(2024, 1, 1)>>, <<Named(6, 1), Date(2024, 3, 31)>>,
   <<Weekend(-1), Date(2024, 3, 31)>>, <<Day(-1), Date(2024, 3, 1)>>}

MCQueries ==
  {[Ask EXCEPT !.topK = k] : k \in {1, 2}}
    \cup {[Ask EXCEPT !.terms = <<3>>, !.phrase = 3, !.expanded = {5}, !.topK = 3],
          [Ask EXCEPT !.terms = <<4>>, !.phrase = 4, !.expanded = {1}, !.ids = {2, 3}],
          [Ask EXCEPT !.terms = <<1>>, !.expanded = {2, 4}, !.pairs = {1, 2}, !.ids = {2}, !.topK = 3],
          [Ask EXCEPT !.terms = <<1>>, !.pairs = {1, 9}]}
    \cup {[Ask EXCEPT !.terms = <<1, 2, 5>>, !.intent = i, !.counting = (i = "count"), !.explicit = (i = "sum")] :
            i \in {"count", "sum", "sequence"}}
    \cup {[Ask EXCEPT !.hard = h, !.start = 60, !.end = 45, !.explicit = TRUE, !.topK = 3] : h \in BOOLEAN}
    \cup {[Ask EXCEPT !.hard = TRUE, !.phrases = <<Other("day", -43)>>, !.window = 10]}
    \cup {[Ask EXCEPT !.phrases = <<timed[1]>>, !.reference = timed[2]] : timed \in MCTimed}
    \cup {[Ask EXCEPT !.explicit = TRUE, !.hint = h] : h \in {"past", "mixed"}}

Off == [claims |-> FALSE, ngram |-> FALSE, lcs |-> FALSE]
MCOptions == {Off, [claims |-> TRUE, ngram |-> TRUE, lcs |-> TRUE]}
MCExtends == {<<4, 3>>}
MCOrders == {[n \in 0 .. 9 |-> n], [n \in 0 .. 9 |-> 9 - n]}
MCRanges == {<<1, 2>>, <<3, 4>>, <<5, 8>>, <<9, 3>>, <<0, 20>>}
=============================================================================
