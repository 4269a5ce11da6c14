----------------------------- MODULE MCKnowledge -----------------------------
(* Small values for Knowledge: documents that state, restate, correct and     *)
(* replace one another, dated and not, in chunks that change in place.        *)
EXTENDS Knowledge

Chunk(span, text, terms) ==
  [span |-> span, text |-> text, heading |-> 1, terms |-> terms, entities |-> {}]

\* A member of a set of records: TLC keeps those in normal form, which workers may share.
Claim(predicate, object) ==
  CHOOSE c \in [subject : {"service"}, predicate : {predicate}, object : {object}] : TRUE

Says(claims) == [heading |-> FALSE, claims |-> claims]

Base ==
  [chunks |-> {Chunk(1, 1, {1})}, headings |-> <<1>>, term |-> 1, group |-> 0, date |-> 1,
   kind |-> "document", scope |-> 0, user |-> 0, parent |-> 7, concept |-> 4, cue |-> FALSE,
   supersedes |-> 0, sentences |-> <<Says(<<Claim("value", 5)>>)>>]

\* Ownership, with other guidance and without, later and undated.
Owner(date, object, text) ==
  [Base EXCEPT !.date = date, !.group = 3, !.chunks = {Chunk(1, text, {text}), Chunk(2, text, {1})},
               !.sentences = <<Says(<<Claim("owner", object)>>)>>]

Mixed == [Owner(1, 8, 3) EXCEPT !.sentences = @ \o <<Says(<<>>)>>]

Corrects == [Owner(0, 7, 4) EXCEPT !.cue = TRUE, !.kind = "memory", !.supersedes = 1]

Replaces == [Owner(3, 8, 3) EXCEPT !.chunks = {Chunk(2, 3, {1, 3})}, !.supersedes = 2]

MCContents == <<{Owner(1, 8, 3), Owner(2, 9, 4), Mixed},
                {Owner(1, 8, 3), Owner(2, 9, 4), Corrects},
                {Owner(3, 8, 3), Replaces}>>

MCSettings == {[enabled |-> TRUE, suppress |-> s, conflict |-> 65] : s \in {90, 95}}
MCOrders == {<<1, 2, 3>>, <<3, 2, 1>>}
=============================================================================
