------------------------------- MODULE QueryProofs -------------------------------
(***************************************************************************)
(* Theorems about what a query answers.  QueryWorkers: for any number of   *)
(* workers and segments, any results and counts, and any number of answers *)
(* in any order.  CommandLine: for any corpus, limits, settings and edits, *)
(* and any number of commands at the same time.                            *)
(***************************************************************************)
EXTENDS QueryWorkers, CommandLine, FiniteSetTheorems, TLAPS

-----------------------------------------------------------------------------
(***************************************************************************)
(* Two results for one document: one of them replaces the other, whichever *)
(* comes first, unless they are the same in every field.                   *)
(***************************************************************************)

LEMMA KeysCompare ==
    ASSUME NEW x \in Results, NEW y \in Results
    PROVE  KeyAbove(CanonicalKey(x), CanonicalKey(y)) <=>
             \/ x.source > y.source
             \/ x.source = y.source /\ x.group > y.group
             \/ x.source = y.source /\ x.group = y.group /\ x.breakdown > y.breakdown
<1> DEFINE a == CanonicalKey(x)
           b == CanonicalKey(y)
<1>1. /\ a[1] = x.source /\ a[2] = x.group /\ a[3] = x.breakdown
      /\ b[1] = y.source /\ b[2] = y.group /\ b[3] = y.breakdown
  BY DEF CanonicalKey
<1> HIDE DEF a, b
<1>2. 1 .. 3 = {1, 2, 3} /\ 1 .. 0 = {} /\ 1 .. 1 = {1} /\ 1 .. 2 = {1, 2}
  OBVIOUS
<1>3. KeyAbove(a, b) <=> \/ a[1] > b[1]
                         \/ a[2] > b[2] /\ a[1] = b[1]
                         \/ a[3] > b[3] /\ a[1] = b[1] /\ a[2] = b[2]
  <2>1. 1 - 1 = 0 /\ 2 - 1 = 1 /\ 3 - 1 = 2
    OBVIOUS
  <2> QED BY <1>2, <2>1 DEF KeyAbove
<1> QED BY <1>1, <1>3 DEF a, b

LEMMA ReplacesIsOrder ==
    ASSUME NEW x \in Results, NEW y \in Results, NEW z \in Results
    PROVE  /\ ~Replaces(x, x)
           /\ x.doc = y.doc /\ x # y => Replaces(x, y) \/ Replaces(y, x)
           /\ Replaces(x, y) /\ Replaces(y, z) => Replaces(x, z)
           /\ ~Replaces(x, y) => x.score <= y.score
<1>1. \A r \in Results : r.doc \in Nat /\ r.score \in Int /\ r.source \in Nat /\ r.group \in Nat /\ r.breakdown \in Nat
  BY DEF Results
<1>2. x.doc = y.doc /\ x.score = y.score /\ x.source = y.source /\ x.group = y.group /\ x.breakdown = y.breakdown
        => x = y
  BY DEF Results
<1> QED BY <1>1, <1>2, KeysCompare DEF Replaces

-----------------------------------------------------------------------------
(***************************************************************************)
(* The map of reduce_candidates holds the best result of every document,   *)
(* whatever order the results came in.                                     *)
(***************************************************************************)

IsBest(S, map) ==
    /\ map = [d \in DOMAIN map |-> map[d]]
    /\ IsFiniteSet(DOMAIN map)
    /\ DOMAIN map = {e.doc : e \in S}
    /\ \A d \in DOMAIN map :
         /\ map[d] \in S /\ map[d].doc = d
         /\ \A x \in S : x.doc = d => ~Replaces(x, map[d])

LEMMA BestIsOne ==
    ASSUME NEW S \in SUBSET Results, NEW a, IsBest(S, a), NEW b, IsBest(S, b)
    PROVE  a = b
<1>1. ASSUME NEW d \in DOMAIN a PROVE a[d] = b[d]
  <2>1. d \in DOMAIN b /\ a[d] \in S /\ b[d] \in S /\ a[d].doc = d /\ b[d].doc = d
    BY DEF IsBest
  <2>2. ~Replaces(a[d], b[d]) /\ ~Replaces(b[d], a[d])
    BY <2>1 DEF IsBest
  <2> QED BY <2>1, <2>2, ReplacesIsOrder
<1> QED BY <1>1 DEF IsBest

LastOf(s) == CHOOSE x \in s : \A y \in s : x >= y

KeepStep(all, i, map) ==
    IF all[i].doc \in DOMAIN map /\ ~Replaces(all[i], map[all[i].doc]) THEN map
    ELSE [d \in DOMAIN map \cup {all[i].doc} |-> IF d = all[i].doc THEN all[i] ELSE map[d]]

PartlyKept(all, s, map) == IsBest({all[i] : i \in s}, map)

Keeping == INSTANCE FoldTheorems WITH Step <- KeepStep, Choice <- LastOf, Inv <- PartlyKept

LEMMA KeepStepKeeps ==
    ASSUME NEW S \in SUBSET Results, NEW e \in Results, NEW map, IsBest(S, map), NEW new,
           new = IF e.doc \in DOMAIN map /\ ~Replaces(e, map[e.doc]) THEN map
                 ELSE [d \in DOMAIN map \cup {e.doc} |-> IF d = e.doc THEN e ELSE map[d]]
    PROVE  IsBest(S \cup {e}, new)
<1>1. CASE e.doc \in DOMAIN map /\ ~Replaces(e, map[e.doc])
  <2>1. new = map
    BY <1>1
  <2>2. {x.doc : x \in S \cup {e}} = DOMAIN map
    BY <1>1 DEF IsBest
  <2>3. \A d \in DOMAIN map : \A x \in S \cup {e} : x.doc = d => ~Replaces(x, map[d])
    BY <1>1 DEF IsBest
  <2> QED BY <2>1, <2>2, <2>3 DEF IsBest
<1>2. CASE e.doc \notin DOMAIN map
  <2>1. new = [d \in DOMAIN map \cup {e.doc} |-> IF d = e.doc THEN e ELSE map[d]]
    BY <1>2
  <2>2. DOMAIN new = DOMAIN map \cup {e.doc} /\ new = [d \in DOMAIN new |-> new[d]]
        /\ new[e.doc] = e /\ \A d \in DOMAIN map : new[d] = map[d]
    BY <1>2, <2>1
  <2> HIDE <2>1
  <2>3. IsFiniteSet(DOMAIN new)
    BY <2>2, FS_AddElement DEF IsBest
  <2>4. DOMAIN new = {x.doc : x \in S \cup {e}}
    BY <2>2 DEF IsBest
  <2>5. ASSUME NEW d \in DOMAIN new
        PROVE  /\ new[d] \in S \cup {e} /\ new[d].doc = d
               /\ \A x \in S \cup {e} : x.doc = d => ~Replaces(x, new[d])
    <3>1. CASE d = e.doc
      <4>1. \A x \in S : x.doc # d
        BY <1>2, <3>1 DEF IsBest
      <4> QED BY <2>2, <3>1, <4>1, ReplacesIsOrder
    <3>2. CASE d # e.doc
      BY <2>2, <2>5, <3>2 DEF IsBest
    <3> QED BY <3>1, <3>2
  <2> QED BY <2>2, <2>3, <2>4, <2>5 DEF IsBest
<1>3. CASE e.doc \in DOMAIN map /\ Replaces(e, map[e.doc])
  <2>1. new = [d \in DOMAIN map \cup {e.doc} |-> IF d = e.doc THEN e ELSE map[d]]
    BY <1>3
  <2>2. DOMAIN new = DOMAIN map /\ new = [d \in DOMAIN new |-> new[d]]
        /\ new[e.doc] = e /\ \A d \in DOMAIN map : d # e.doc => new[d] = map[d]
    BY <1>3, <2>1
  <2> HIDE <2>1
  <2>3. IsFiniteSet(DOMAIN new)
    BY <2>2 DEF IsBest
  <2>4. DOMAIN new = {x.doc : x \in S \cup {e}}
    BY <1>3, <2>2 DEF IsBest
  <2>5. ASSUME NEW d \in DOMAIN new
        PROVE  /\ new[d] \in S \cup {e} /\ new[d].doc = d
               /\ \A x \in S \cup {e} : x.doc = d => ~Replaces(x, new[d])
    <3>1. CASE d = e.doc
      <4>1. map[d] \in Results /\ \A x \in S : x \in Results /\ (x.doc = d => ~Replaces(x, map[d]))
        BY <1>3, <3>1 DEF IsBest
      <4>2. \A x \in S : x.doc = d => ~Replaces(x, e)
        BY <1>3, <3>1, <4>1, ReplacesIsOrder
      <4> QED BY <2>2, <3>1, <4>2, ReplacesIsOrder
    <3>2. CASE d # e.doc
      BY <2>2, <2>5, <3>2 DEF IsBest
    <3> QED BY <3>1, <3>2
  <2> QED BY <2>2, <2>3, <2>4, <2>5 DEF IsBest
<1> QED BY <1>1, <1>2, <1>3

LEMMA LastOfIsIn ==
    ASSUME NEW n \in Nat, NEW S \in SUBSET (1 .. n), S # {}
    PROVE  LastOf(S) \in S
<1>1. PICK x \in S : \A y \in S : x >= y
  BY Keeping!LastIndex
<1> QED BY <1>1 DEF LastOf

Offered(responses) == UNION {ToSet(responses[i].results) : i \in DOMAIN responses}

Answers == [version : Nat, id : STRING, worker : Workers, generation : Generations,
            results : Seq(Results), completeness : Report]

LEMMA ResultsAreJoined ==
    ASSUME NEW responses \in Seq(Answers)
    PROVE  LET all == FlattenSeq([i \in DOMAIN responses |-> responses[i].results])
           IN  all \in Seq(Results) /\ ToSet(all) = Offered(responses)
<1> DEFINE lists == [i \in DOMAIN responses |-> responses[i].results]
           all == FlattenSeq(lists)
<1>1. ASSUME NEW i \in DOMAIN responses PROVE responses[i].results \in Seq(Results)
  <2>1. responses[i] \in Answers
    OBVIOUS
  <2> QED BY <2>1 DEF Answers
<1>2. lists \in Seq(Seq(Results)) /\ DOMAIN lists = DOMAIN responses
  BY <1>1
<1>3. \A i \in DOMAIN lists : lists[i] = responses[i].results
  OBVIOUS
<1> HIDE DEF lists
<1>4. FlattenSeq(lists) = Keeping!Joined(lists)
  BY DEF FlattenSeq, Keeping!Joined
<1>5. /\ all \in Seq(Results)
      /\ Keeping!Elements(all) = UNION {Keeping!Elements(lists[i]) : i \in DOMAIN lists}
  BY <1>2, <1>4, Keeping!JoinedIsExact
<1>6. ToSet(all) = UNION {ToSet(responses[i].results) : i \in DOMAIN responses}
  <2>1. \A s : Keeping!Elements(s) = ToSet(s)
    BY DEF Keeping!Elements, ToSet
  <2>2. ToSet(all) = UNION {ToSet(lists[i]) : i \in DOMAIN lists}
    BY <1>5, <2>1
  <2> QED BY <1>2, <1>3, <2>2
<1> QED BY <1>5, <1>6 DEF Offered, lists

LEMMA ByDocumentIsFold ==
    ASSUME NEW responses
    PROVE  LET all == FlattenSeq([i \in DOMAIN responses |-> responses[i].results])
           IN  ByDocument(responses) = Keeping!Fold(all, <<>>, DOMAIN all)
BY DEF ByDocument, FoldLeft, MapThenFoldSet, Max, Keeping!Fold, KeepStep, LastOf

(* Every document that was offered is kept once, at its best.               *)
LEMMA ByDocumentIsBest ==
    ASSUME NEW responses \in Seq(Answers)
    PROVE  IsBest(Offered(responses), ByDocument(responses)) /\ Offered(responses) \subseteq Results
<1> DEFINE all == FlattenSeq([i \in DOMAIN responses |-> responses[i].results])
           n == Len(all)
<1>1. all \in Seq(Results) /\ ToSet(all) = Offered(responses)
  BY ResultsAreJoined
<1>2. ByDocument(responses) = Keeping!Fold(all, <<>>, DOMAIN all)
  BY ByDocumentIsFold
<1> HIDE DEF all
<1>3. n \in Nat /\ DOMAIN all = 1 .. n /\ \A i \in 1 .. n : all[i] \in Results
  BY <1>1
<1>4. IsFiniteSet(1 .. n)
  <2> HIDE DEF n
  <2> QED BY <1>3, FS_Interval
<1>5. Keeping!Chooses(1 .. n)
  BY <1>3, LastOfIsIn DEF Keeping!Chooses
<1>6. PartlyKept(all, {}, <<>>)
  BY FS_EmptySet DEF PartlyKept, IsBest
<1>7. ASSUME NEW s \in SUBSET (1 .. n), NEW v, s # {}, PartlyKept(all, s \ {LastOf(s)}, v)
      PROVE  PartlyKept(all, s, KeepStep(all, LastOf(s), v))
  <2> DEFINE i == LastOf(s)
             S == {all[j] : j \in s \ {i}}
  <2>1. i \in s /\ i \in 1 .. n
    BY <1>3, <1>7, LastOfIsIn
  <2>2. S \in SUBSET Results /\ all[i] \in Results
    BY <1>3, <2>1
  <2>3. IsBest(S, v)
    BY <1>7 DEF PartlyKept
  <2>4. {all[j] : j \in s} = S \cup {all[i]}
    BY <2>1
  <2> HIDE DEF S, i
  <2>5. IsBest(S \cup {all[i]}, KeepStep(all, i, v))
    BY <2>2, <2>3, KeepStepKeeps DEF KeepStep
  <2> QED BY <2>4, <2>5 DEF PartlyKept, i
<1>8. PartlyKept(all, 1 .. n, Keeping!Fold(all, <<>>, 1 .. n))
  <2> HIDE DEF n
  <2> QED BY <1>4, <1>5, <1>6, <1>7, Keeping!FoldInduction DEF Keeping!IsFiniteSet, IsFiniteSet
<1>9. {all[j] : j \in 1 .. n} = Offered(responses)
  BY <1>1, <1>3 DEF ToSet
<1>10. Offered(responses) \subseteq Results
  BY <1>1, <1>3 DEF ToSet
<1> QED BY <1>2, <1>3, <1>8, <1>9, <1>10 DEF PartlyKept

-----------------------------------------------------------------------------
(***************************************************************************)
(* The list of reduce_candidates is the map, ranked and cut.               *)
(***************************************************************************)

LEMMA SmallerOf ==
    ASSUME NEW a \in Nat, NEW b \in Nat
    PROVE  Min({a, b}) = IF a <= b THEN a ELSE b
BY DEF Min

LEMMA RankingIsExact ==
    ASSUME NEW S, IsFiniteSet(S), NEW R, Keeping!TotalOn(R, S)
    PROVE  LET r == Keeping!RankedBy(S, R) IN
           /\ DOMAIN r = 1 .. Cardinality(S)
           /\ ToSet(r) = S
           /\ \A i, j \in DOMAIN r : i < j => <<r[i], r[j]>> \in R
BY Keeping!RankingIsExact DEF ToSet, Keeping!Elements, Keeping!IsFiniteSet, IsFiniteSet,
   Keeping!Cardinality, Cardinality

\* list is the map's results, best first, of which results are the first k.
IsCut(map, k, results, list, n) ==
    /\ DOMAIN list = 1 .. n /\ ToSet(list) = {map[d] : d \in DOMAIN map}
    /\ \A i, j \in 1 .. n : i < j => ScoreThenDocument(list[i], list[j])
    /\ results = [i \in 1 .. IF k <= n THEN k ELSE n |-> list[i]]

LEMMA ListIsRanked ==
    ASSUME NEW S \in SUBSET Results, NEW map, IsBest(S, map), NEW k \in Nat
    PROVE  \E list : \E n \in Nat : IsCut(map, k, SortedAndCut(map, k), list, n)
<1> DEFINE Kept == {map[d] : d \in DOMAIN map}
           R == {p \in Kept \X Kept : ScoreThenDocument(p[1], p[2])}
           list == Ranked(Kept, ScoreThenDocument)
           n == Cardinality(Kept)
<1>1. IsFiniteSet(Kept)
  <2> DEFINE g == [d \in DOMAIN map |-> map[d]]
  <2>1. g \in Surjection(DOMAIN map, Kept)
    BY DEF Surjection
  <2>2. IsFiniteSet(DOMAIN map)
    BY DEF IsBest
  <2> HIDE DEF g, Kept
  <2> QED BY <2>1, <2>2, FS_Surjection
<1>2. Keeping!TotalOn(R, Kept)
  <2>1. \A x \in Kept : x \in Results
    BY DEF IsBest
  <2>2. \A x, y \in Kept : x # y => x.doc # y.doc
    BY DEF IsBest
  <2>3. \A x \in Results : x.doc \in Nat /\ x.score \in Int
    BY DEF Results
  <2>4. \A x, y \in Kept : <<x, y>> \in R <=> ScoreThenDocument(x, y)
    OBVIOUS
  <2> HIDE DEF Kept, R
  <2> QED BY <2>1, <2>2, <2>3, <2>4 DEF Keeping!TotalOn, ScoreThenDocument
<1>3. list = Keeping!RankedBy(Kept, R)
  <2> DEFINE one(i) == CHOOSE x \in Kept : Cardinality({y \in Kept : ScoreThenDocument(y, x)}) = i - 1
             other(i) == CHOOSE x \in Kept : Cardinality({y \in Kept : <<y, x>> \in R}) = i - 1
  <2>1. \A x \in Kept : {y \in Kept : ScoreThenDocument(y, x)} = {y \in Kept : <<y, x>> \in R}
    OBVIOUS
  <2>2. \A i \in 1 .. n : one(i) = other(i)
    BY <2>1
  <2>3. list = [i \in 1 .. n |-> one(i)]
    BY DEF Ranked
  <2>4. Keeping!RankedBy(Kept, R) = [i \in 1 .. n |-> other(i)]
    BY DEF Keeping!RankedBy, Keeping!Cardinality, Cardinality
  <2> HIDE DEF Kept, R, one, other, n
  <2> QED BY <2>2, <2>3, <2>4
<1>4. SortedAndCut(map, k) = Take(list, k)
  BY DEF SortedAndCut
<1>5. n \in Nat
  BY <1>1, FS_CardinalityType
<1>6. /\ DOMAIN list = 1 .. n /\ ToSet(list) = Kept
      /\ \A i, j \in DOMAIN list : i < j => <<list[i], list[j]>> \in R
  <2> HIDE DEF Kept, R, list
  <2> QED BY <1>1, <1>2, <1>3, RankingIsExact
<1>7. list = [i \in 1 .. n |-> list[i]]
  <2> DEFINE one(i) == CHOOSE x \in Kept : Cardinality({y \in Kept : ScoreThenDocument(y, x)}) = i - 1
  <2>1. list = [i \in 1 .. n |-> one(i)]
    BY DEF Ranked
  <2> HIDE DEF one, list, n
  <2> QED BY <2>1
<1>8. \A i, j \in 1 .. n : i < j => ScoreThenDocument(list[i], list[j])
  BY <1>6
<1>9. Take(list, k) = [i \in 1 .. IF k <= n THEN k ELSE n |-> list[i]]
  <2> HIDE DEF list, Kept, n
  <2>1. list \in Seq(Kept) /\ Len(list) = n
    BY <1>5, <1>6, <1>7 DEF ToSet
  <2>2. Min({k, n}) = IF k <= n THEN k ELSE n
    BY <1>5, SmallerOf
  <2>3. Take(list, k) = SubSeq(list, 1, IF k <= n THEN k ELSE n)
    BY <2>1, <2>2 DEF Take
  <2> QED BY <1>5, <2>1, <2>3
<1>10. IsCut(map, k, SortedAndCut(map, k), list, n)
  <2> HIDE DEF list, n, R
  <2> QED BY <1>4, <1>6, <1>8, <1>9 DEF IsCut
<1> HIDE DEF list, n
<1> QED BY <1>5, <1>10

(* The best results are listed, whatever is cut off is worse.               *)
LEMMA ListIsBest ==
    ASSUME NEW responses \in Seq(Answers), NEW k \in Nat
    PROVE  LET offered == Offered(responses)
               results == SortedAndCut(ByDocument(responses), k)
               listed  == ToSet(results)
           IN  /\ listed \subseteq offered
               /\ \A d \in listed : \A e \in offered : e.doc = d.doc => e.score <= d.score
               /\ \A d \in offered : (\E e \in listed : e.doc = d.doc) \/
                    /\ Len(results) = k
                    /\ \A e \in listed : ScoreThenDocument(e, d)
<1> DEFINE S == Offered(responses)
           map == ByDocument(responses)
           results == SortedAndCut(map, k)
<1>1. S \in SUBSET Results /\ IsBest(S, map)
  BY ByDocumentIsBest
<1>0. PICK list : \E n \in Nat : IsCut(map, k, results, list, n)
  BY <1>1, ListIsRanked
<1>00. PICK n \in Nat : IsCut(map, k, results, list, n)
  BY <1>0
<1>2. /\ DOMAIN list = 1 .. n /\ ToSet(list) = {map[d] : d \in DOMAIN map}
      /\ \A i, j \in 1 .. n : i < j => ScoreThenDocument(list[i], list[j])
      /\ results = [i \in 1 .. IF k <= n THEN k ELSE n |-> list[i]]
  BY <1>00 DEF IsCut
<1> DEFINE m == IF k <= n THEN k ELSE n
<1>3. /\ m \in Nat /\ m <= n /\ DOMAIN results = 1 .. m
      /\ \A i \in 1 .. m : results[i] = list[i] /\ i \in 1 .. n
      /\ Len(results) = m
  BY <1>2
<1> HIDE DEF results, map, S
<1>4. \A i \in 1 .. n : \E d \in DOMAIN map : list[i] = map[d] /\ list[i] \in S /\ list[i].doc = d
  <2>1. \A i \in 1 .. n : list[i] \in {map[d] : d \in DOMAIN map}
    BY <1>2 DEF ToSet
  <2> QED BY <1>1, <2>1 DEF IsBest
<1>5. \A d \in ToSet(results) : \E i \in 1 .. n : d = list[i]
  BY <1>3 DEF ToSet
<1>6. ToSet(results) \subseteq S
  BY <1>4, <1>5
<1>7. ASSUME NEW d \in ToSet(results), NEW e \in S, e.doc = d.doc PROVE e.score <= d.score
  <2>1. d \in S /\ d.doc \in DOMAIN map /\ d = map[d.doc]
    BY <1>4, <1>5
  <2>2. ~Replaces(e, d)
    BY <1>1, <1>7, <2>1 DEF IsBest
  <2> QED BY <1>1, <1>7, <2>1, <2>2, ReplacesIsOrder
<1>8. ASSUME NEW d \in S, ~(\E e \in ToSet(results) : e.doc = d.doc)
      PROVE  Len(results) = k /\ \A e \in ToSet(results) : ScoreThenDocument(e, d)
  <2> DEFINE b == map[d.doc]
  <2>1. d.doc \in DOMAIN map
    BY <1>1, <1>8 DEF IsBest
  <2>2. b \in S /\ b.doc = d.doc /\ ~Replaces(d, b)
    BY <1>1, <1>8, <2>1 DEF IsBest
  <2>3. d.score <= b.score
    BY <1>1, <1>8, <2>2, ReplacesIsOrder
  <2>4. PICK j \in 1 .. n : list[j] = b
    <3>1. b \in ToSet(list)
      BY <1>2, <2>1
    <3> QED BY <1>2, <3>1 DEF ToSet
  <2> HIDE DEF b
  <2>5. m < j
    <3>1. j \in 1 .. m => b \in ToSet(results)
      BY <1>3, <2>4 DEF ToSet
    <3>2. j \notin 1 .. m
      BY <1>8, <2>2, <3>1
    <3>3. j \in Nat /\ 1 <= j
      BY <2>4
    <3> HIDE DEF m
    <3> QED BY <1>3, <3>2, <3>3
  <2>6. m = k
    BY <1>2, <2>4, <2>5
  <2>7. ASSUME NEW e \in ToSet(results) PROVE ScoreThenDocument(e, d)
    <3>1. PICK i \in 1 .. m : e = list[i]
      BY <1>3 DEF ToSet
    <3>2. i \in 1 .. n /\ i < j
      BY <1>2, <1>3, <2>4, <2>5, <3>1
    <3>3. ScoreThenDocument(e, b)
      BY <1>2, <2>4, <3>1, <3>2
    <3>4. e \in Results /\ b \in Results /\ d \in Results
      BY <1>1, <1>6, <2>2, <2>7
    <3> QED BY <2>2, <2>3, <3>3, <3>4 DEF ScoreThenDocument, Results
  <2> QED BY <1>3, <2>6, <2>7
<1> QED BY <1>6, <1>7, <1>8 DEF S, map, results

-----------------------------------------------------------------------------
(***************************************************************************)
(* Sums of counts saturate, and are the same in whatever order they are    *)
(* made.                                                                   *)
(***************************************************************************)

AnyOf(s) == CHOOSE x \in s : TRUE

LEMMA AddIsTally ==
    ASSUME NEW a \in Tallies, NEW b \in Tallies
    PROVE  AddCounts(a, b) \in Tallies
<1>1. \A x, y \in Nat : SaturatingAdd(x, y) \in Nat
  BY WorkersAssumption DEF SaturatingAdd
<1>2. /\ a.documents \in [Fields -> Nat] /\ a.tokens \in [Fields -> Nat] /\ a.terms \in [Terms -> [Fields -> Nat]]
      /\ b.documents \in [Fields -> Nat] /\ b.tokens \in [Fields -> Nat] /\ b.terms \in [Terms -> [Fields -> Nat]]
  BY DEF Tallies
<1>3. [f \in Fields |-> SaturatingAdd(a.documents[f], b.documents[f])] \in [Fields -> Nat]
  BY <1>1, <1>2
<1>4. [f \in Fields |-> SaturatingAdd(a.tokens[f], b.tokens[f])] \in [Fields -> Nat]
  BY <1>1, <1>2
<1>5. [t \in Terms |-> [f \in Fields |-> SaturatingAdd(a.terms[t][f], b.terms[t][f])]]
        \in [Terms -> [Fields -> Nat]]
  BY <1>1, <1>2
<1> QED BY <1>3, <1>4, <1>5 DEF AddCounts, Tallies

LEMMA NoCountsIsTally == NoCounts \in Tallies
BY DEF NoCounts, Tallies

Plus(x, y) == [f \in Fields |-> SaturatingAdd(x[f], y[f])]

LEMMA PlusCommutes ==
    ASSUME NEW x \in [Fields -> Nat], NEW y \in [Fields -> Nat], NEW z \in [Fields -> Nat]
    PROVE  Plus(Plus(x, y), z) = Plus(Plus(x, z), y)
<1>1. \A i, j, k \in Nat :
        SaturatingAdd(SaturatingAdd(i, j), k) = SaturatingAdd(SaturatingAdd(i, k), j)
  BY WorkersAssumption DEF SaturatingAdd
<1>2. \A f \in Fields : SaturatingAdd(SaturatingAdd(x[f], y[f]), z[f])
                        = SaturatingAdd(SaturatingAdd(x[f], z[f]), y[f])
  BY <1>1
<1> QED BY <1>2 DEF Plus

LEMMA AddCommutes ==
    ASSUME NEW v \in Tallies, NEW a \in Tallies, NEW b \in Tallies
    PROVE  AddCounts(AddCounts(v, a), b) = AddCounts(AddCounts(v, b), a)
<1>1. ASSUME NEW r, NEW s
      PROVE  AddCounts(r, s) = [documents |-> Plus(r.documents, s.documents),
                                tokens |-> Plus(r.tokens, s.tokens),
                                terms |-> [t \in Terms |-> Plus(r.terms[t], s.terms[t])]]
  BY DEF AddCounts, Plus
<1>2. \A r \in {v, a, b} : /\ r.documents \in [Fields -> Nat] /\ r.tokens \in [Fields -> Nat]
                           /\ \A t \in Terms : r.terms[t] \in [Fields -> Nat]
  BY DEF Tallies
<1>3. ASSUME NEW r, NEW s, NEW q
      PROVE  AddCounts(AddCounts(r, s), q)
               = [documents |-> Plus(Plus(r.documents, s.documents), q.documents),
                  tokens |-> Plus(Plus(r.tokens, s.tokens), q.tokens),
                  terms |-> [t \in Terms |-> Plus(Plus(r.terms[t], s.terms[t]), q.terms[t])]]
  <2> DEFINE m == AddCounts(r, s)
  <2>1. /\ m.documents = Plus(r.documents, s.documents) /\ m.tokens = Plus(r.tokens, s.tokens)
        /\ \A t \in Terms : m.terms[t] = Plus(r.terms[t], s.terms[t])
    BY <1>1
  <2>2. AddCounts(m, q) = [documents |-> Plus(m.documents, q.documents),
                           tokens |-> Plus(m.tokens, q.tokens),
                           terms |-> [t \in Terms |-> Plus(m.terms[t], q.terms[t])]]
    BY <1>1
  <2> HIDE DEF m
  <2>3. [t \in Terms |-> Plus(m.terms[t], q.terms[t])]
          = [t \in Terms |-> Plus(Plus(r.terms[t], s.terms[t]), q.terms[t])]
    BY <2>1
  <2>4. AddCounts(m, q)
          = [documents |-> Plus(Plus(r.documents, s.documents), q.documents),
             tokens |-> Plus(Plus(r.tokens, s.tokens), q.tokens),
             terms |-> [t \in Terms |-> Plus(Plus(r.terms[t], s.terms[t]), q.terms[t])]]
    BY <2>1, <2>2, <2>3
  <2> QED BY <2>4 DEF m
<1>4. Plus(Plus(v.documents, a.documents), b.documents) = Plus(Plus(v.documents, b.documents), a.documents)
  BY <1>2, PlusCommutes
<1>5. Plus(Plus(v.tokens, a.tokens), b.tokens) = Plus(Plus(v.tokens, b.tokens), a.tokens)
  BY <1>2, PlusCommutes
<1>6. [t \in Terms |-> Plus(Plus(v.terms[t], a.terms[t]), b.terms[t])]
        = [t \in Terms |-> Plus(Plus(v.terms[t], b.terms[t]), a.terms[t])]
  BY <1>2, PlusCommutes
<1>7. /\ AddCounts(AddCounts(v, a), b)
           = [documents |-> Plus(Plus(v.documents, a.documents), b.documents),
              tokens |-> Plus(Plus(v.tokens, a.tokens), b.tokens),
              terms |-> [t \in Terms |-> Plus(Plus(v.terms[t], a.terms[t]), b.terms[t])]]
      /\ AddCounts(AddCounts(v, b), a)
           = [documents |-> Plus(Plus(v.documents, b.documents), a.documents),
              tokens |-> Plus(Plus(v.tokens, b.tokens), a.tokens),
              terms |-> [t \in Terms |-> Plus(Plus(v.terms[t], b.terms[t]), a.terms[t])]]
  BY <1>3
<1> QED BY <1>4, <1>5, <1>6, <1>7

AddAnswer(responses, i, sum) == AddCounts(sum, responses[i].counts)
IsTallied(c, s, sum) == sum \in Tallies

Adding == INSTANCE FoldTheorems WITH Step <- AddAnswer, Choice <- AnyOf, Inv <- IsTallied

AddSegment(w, s, sum) == AddCounts(sum, Counts[w][s])

Counting == INSTANCE FoldTheorems WITH Step <- AddSegment, Choice <- AnyOf, Inv <- IsTallied

LEMMA CountsAreTallied ==
    ASSUME NEW w \in Workers, NEW S \in SUBSET HeldBy[w]
    PROVE  FoldSet(LAMBDA s, sum : AddCounts(sum, Counts[w][s]), NoCounts, S) \in Tallies
<1>1. FoldSet(LAMBDA s, sum : AddCounts(sum, Counts[w][s]), NoCounts, S) = Counting!Fold(w, NoCounts, S)
  BY DEF FoldSet, MapThenFoldSet, Counting!Fold, AddSegment, AnyOf
<1>2. IsFiniteSet(S)
  <2>1. S \in SUBSET Segments
    BY WorkersAssumption
  <2> QED BY <2>1, WorkersAssumption, FS_Subset
<1>3. Counting!Chooses(S)
  BY DEF Counting!Chooses, AnyOf
<1>4. ASSUME NEW s \in SUBSET S, NEW v, s # {}, IsTallied(w, s \ {AnyOf(s)}, v)
      PROVE  IsTallied(w, s, AddSegment(w, AnyOf(s), v))
  <2>1. AnyOf(s) \in HeldBy[w]
    BY <1>4 DEF AnyOf
  <2>2. Counts[w][AnyOf(s)] \in Tallies
    BY <2>1, WorkersAssumption
  <2> QED BY <1>4, <2>2, AddIsTally DEF IsTallied, AddSegment
<1>5. IsTallied(w, {}, NoCounts)
  BY NoCountsIsTally DEF IsTallied
<1>6. IsTallied(w, S, Counting!Fold(w, NoCounts, S))
  BY <1>2, <1>3, <1>4, <1>5, Counting!FoldInduction DEF Counting!IsFiniteSet, IsFiniteSet
<1> QED BY <1>1, <1>6 DEF IsTallied

StatisticsAnswers == [version : Nat, id : STRING, worker : Workers, generation : Generations,
                      counts : Tallies, completeness : Report]

\* The answers, in the order in which they are dealt out.
Dealt(responses, order) == [i \in DOMAIN responses |-> responses[order[i]]]

LEMMA SumOfDealt ==
    ASSUME NEW responses \in Seq(StatisticsAnswers),
           NEW order \in Bijection(DOMAIN responses, DOMAIN responses)
    PROVE  FoldSeq(LAMBDA r, sum : AddCounts(sum, r.counts), NoCounts, Dealt(responses, order))
             = FoldSeq(LAMBDA r, sum : AddCounts(sum, r.counts), NoCounts, responses)
<1> DEFINE D == DOMAIN responses
           again == Dealt(responses, order)
<1>1. DOMAIN again = D /\ \A i \in D : again[i] = responses[order[i]]
  BY DEF Dealt
<1>2. \A s : FoldSeq(LAMBDA r, sum : AddCounts(sum, r.counts), NoCounts, s) = Adding!Fold(s, NoCounts, DOMAIN s)
  BY DEF FoldSeq, FoldFunction, FoldFunctionOnSet, MapThenFoldSet, Adding!Fold, AddAnswer, AnyOf
<1>3. IsFiniteSet(D)
  <2>1. Len(responses) \in Nat /\ D = 1 .. Len(responses)
    OBVIOUS
  <2> DEFINE n == Len(responses)
  <2>2. IsFiniteSet(1 .. n)
    <3> HIDE DEF n
    <3> QED BY <2>1, FS_Interval DEF n
  <2> QED BY <2>1, <2>2
<1>4. Adding!Chooses(D)
  BY DEF Adding!Chooses, AnyOf
<1>5. \A i \in D : responses[i].counts \in Tallies
  <2>1. \A i \in D : responses[i] \in StatisticsAnswers
    OBVIOUS
  <2> QED BY <2>1 DEF StatisticsAnswers
<1> HIDE DEF D
<1>6. Adding!Commuting(responses, D, Tallies)
  BY <1>5, AddIsTally, AddCommutes DEF Adding!Commuting, AddAnswer
<1>7. \A x \in D : \A v \in Tallies : AddAnswer(again, x, v) = AddAnswer(responses, order[x], v)
  BY <1>1 DEF AddAnswer
<1>8. order \in Adding!Bijection(D, D)
  BY DEF D, Bijection, Injection, Surjection, IsInjective, Adding!Bijection,
         Adding!Injection, Adding!Surjection, Adding!IsInjective
<1>9. Adding!IsFiniteSet(D)
  BY <1>3 DEF Adding!IsFiniteSet, IsFiniteSet
<1> HIDE DEF again
<1>10. Adding!Fold(again, NoCounts, D) = Adding!Fold(responses, NoCounts, D)
  BY <1>4, <1>6, <1>7, <1>8, <1>9, NoCountsIsTally, Adding!FoldReordered
<1> QED BY <1>1, <1>2, <1>10 DEF D, again

-----------------------------------------------------------------------------
(***************************************************************************)
(* What closing a phase makes of the answers does not depend on the order  *)
(* they came in.                                                           *)
(***************************************************************************)

LEMMA DealtAgain ==
    ASSUME NEW responses, DOMAIN responses # {},
           NEW order \in Bijection(DOMAIN responses, DOMAIN responses)
    PROVE  LET again == Dealt(responses, order)
               D == DOMAIN responses
           IN  /\ DOMAIN again = D
               /\ \A i \in D : again[i] = responses[order[i]] /\ order[i] \in D
               /\ \A j \in D : \E i \in D : again[i] = responses[j] /\ order[i] = j
               /\ MergedReport(again) = MergedReport(responses)
               /\ OneAnswerPerWorker(again) <=> OneAnswerPerWorker(responses)
<1> DEFINE D == DOMAIN responses
           again == Dealt(responses, order)
<1>1. DOMAIN again = D /\ \A i \in D : again[i] = responses[order[i]] /\ order[i] \in D
  BY DEF Dealt, Bijection, Injection
<1>2. \A i, j \in D : order[i] = order[j] => i = j
  BY DEF Bijection, Injection, IsInjective
<1>3. \A j \in D : \E i \in D : order[i] = j
  BY DEF Bijection, Surjection
<1>4. \A j \in D : \E i \in D : again[i] = responses[j] /\ order[i] = j
  BY <1>1, <1>3
<1> HIDE DEF again, D
<1>5. /\ UNION {again[i].completeness.expected : i \in D} = UNION {responses[i].completeness.expected : i \in D}
      /\ UNION {again[i].completeness.successful : i \in D} = UNION {responses[i].completeness.successful : i \in D}
      /\ UNION {again[i].completeness.failures : i \in D} = UNION {responses[i].completeness.failures : i \in D}
  BY <1>1, <1>4
<1>6. MergedReport(again) = MergedReport(responses)
  BY <1>1, <1>5 DEF MergedReport, D
<1>7. OneAnswerPerWorker(responses) => OneAnswerPerWorker(again)
  BY <1>1, <1>2 DEF OneAnswerPerWorker, D
<1>8. OneAnswerPerWorker(again) => OneAnswerPerWorker(responses)
  <2> SUFFICES ASSUME OneAnswerPerWorker(again), NEW i \in D, NEW j \in D, responses[i].worker = responses[j].worker
               PROVE  i = j
    BY DEF OneAnswerPerWorker, D
  <2>1. PICK k \in D : again[k] = responses[i] /\ order[k] = i
    BY <1>4
  <2>2. PICK l \in D : again[l] = responses[j] /\ order[l] = j
    BY <1>4
  <2>3. k = l
    BY <1>1, <2>1, <2>2 DEF OneAnswerPerWorker
  <2> QED BY <2>1, <2>2, <2>3
<1> QED BY <1>1, <1>4, <1>6, <1>7, <1>8 DEF D, again

LEMMA StatisticsInAnyOrder ==
    ASSUME NEW req, NEW responses \in Seq(StatisticsAnswers),
           NEW order \in Bijection(DOMAIN responses, DOMAIN responses)
    PROVE  AggregateStatistics(req, Dealt(responses, order)) = AggregateStatistics(req, responses)
<1> DEFINE D == DOMAIN responses
           again == Dealt(responses, order)
           counts(s) == FoldSeq(LAMBDA r, sum : AddCounts(sum, r.counts), NoCounts, s)
           valid(s) == /\ s # <<>>
                       /\ \A i \in DOMAIN s : StatisticsResponseIsValid(s[i], req)
                       /\ OneAnswerPerWorker(s)
                       /\ \A i \in DOMAIN s : s[i].generation = s[1].generation
<1>1. \A s : AggregateStatistics(req, s) =
               IF valid(s) THEN [ok |-> TRUE, generation |-> s[1].generation, counts |-> counts(s),
                                 completeness |-> MergedReport(s)]
               ELSE Failed
  BY DEF AggregateStatistics
<1>2. counts(again) = counts(responses)
  BY SumOfDealt
<1> HIDE DEF counts
<1>3. CASE responses = <<>>
  <2>1. again = <<>>
    BY <1>3 DEF Dealt
  <2> QED BY <1>3, <2>1
<1>4. CASE responses # <<>>
  <2>1. D # {} /\ 1 \in D
    BY <1>4
  <2>2. /\ DOMAIN again = D
        /\ \A i \in D : again[i] = responses[order[i]] /\ order[i] \in D
        /\ \A j \in D : \E i \in D : again[i] = responses[j] /\ order[i] = j
        /\ MergedReport(again) = MergedReport(responses)
        /\ OneAnswerPerWorker(again) <=> OneAnswerPerWorker(responses)
    BY <2>1, DealtAgain
  <2>3. again # <<>>
    BY <2>1, <2>2
  <2> HIDE DEF again, D
  <2>4. (\A i \in D : StatisticsResponseIsValid(again[i], req))
          <=> \A i \in D : StatisticsResponseIsValid(responses[i], req)
    BY <2>2
  <2>5. (\A i \in D : again[i].generation = again[1].generation)
          <=> \A i \in D : responses[i].generation = responses[1].generation
    <3>1. (\A i \in D : again[i].generation = again[1].generation)
            <=> \A i, j \in D : again[i].generation = again[j].generation
      BY <2>1
    <3>2. (\A i \in D : responses[i].generation = responses[1].generation)
            <=> \A i, j \in D : responses[i].generation = responses[j].generation
      BY <2>1
    <3>3. (\A i, j \in D : again[i].generation = again[j].generation)
            => \A i, j \in D : responses[i].generation = responses[j].generation
      <4> SUFFICES ASSUME \A i, j \in D : again[i].generation = again[j].generation,
                          NEW i \in D, NEW j \in D
                   PROVE  responses[i].generation = responses[j].generation
        OBVIOUS
      <4>1. PICK k \in D : again[k] = responses[i]
        BY <2>2
      <4>2. PICK l \in D : again[l] = responses[j]
        BY <2>2
      <4> QED BY <4>1, <4>2
    <3>4. (\A i, j \in D : responses[i].generation = responses[j].generation)
            => \A i, j \in D : again[i].generation = again[j].generation
      BY <2>2
    <3> QED BY <3>1, <3>2, <3>3, <3>4
  <2>6. valid(again) <=> valid(responses)
    BY <1>4, <2>2, <2>3, <2>4, <2>5 DEF D
  <2>7. valid(responses) => again[1].generation = responses[1].generation
    <3>1. again[1] = responses[order[1]] /\ order[1] \in D
      BY <2>1, <2>2
    <3> QED BY <3>1 DEF D
  <2> HIDE DEF valid
  <2> QED BY <1>1, <1>2, <2>2, <2>6, <2>7 DEF again
<1> QED BY <1>3, <1>4

LEMMA CandidatesInAnyOrder ==
    ASSUME NEW req, NEW generation, NEW responses \in Seq(Answers),
           NEW order \in Bijection(DOMAIN responses, DOMAIN responses)
    PROVE  ReduceCandidates(req, generation, Dealt(responses, order))
             = ReduceCandidates(req, generation, responses)
<1> DEFINE D == DOMAIN responses
           again == Dealt(responses, order)
           valid(s) == /\ s # <<>>
                       /\ \A i \in DOMAIN s : CandidateResponseIsValid(s[i], req, generation)
                       /\ OneAnswerPerWorker(s)
<1>1. \A s : ReduceCandidates(req, generation, s) =
               IF valid(s) THEN [ok |-> TRUE, results |-> SortedAndCut(ByDocument(s), req.top_k),
                                 completeness |-> MergedReport(s)]
               ELSE Failed
  BY DEF ReduceCandidates
<1>3. CASE responses = <<>>
  <2>1. again = <<>>
    BY <1>3 DEF Dealt
  <2> QED BY <1>3, <2>1
<1>4. CASE responses # <<>>
  <2>1. D # {} /\ D = 1 .. Len(responses)
    BY <1>4
  <2>2. /\ DOMAIN again = D
        /\ \A i \in D : again[i] = responses[order[i]] /\ order[i] \in D
        /\ \A j \in D : \E i \in D : again[i] = responses[j] /\ order[i] = j
        /\ MergedReport(again) = MergedReport(responses)
        /\ OneAnswerPerWorker(again) <=> OneAnswerPerWorker(responses)
    BY <2>1, DealtAgain
  <2>3. again # <<>>
    BY <2>1, <2>2
  <2>4. again \in Seq(Answers)
    <3>1. again = [i \in 1 .. Len(responses) |-> responses[order[i]]]
      BY <2>1 DEF Dealt
    <3>2. \A i \in 1 .. Len(responses) : responses[order[i]] \in Answers
      BY <2>1, <2>2
    <3> HIDE DEF again
    <3> QED BY <3>1, <3>2
  <2> HIDE DEF again, D
  <2>5. (\A i \in D : CandidateResponseIsValid(again[i], req, generation))
          <=> \A i \in D : CandidateResponseIsValid(responses[i], req, generation)
    BY <2>2
  <2>6. valid(again) <=> valid(responses)
    BY <1>4, <2>2, <2>3, <2>5 DEF D
  <2>7. Offered(again) = Offered(responses)
    <3>1. \A x : x \in Offered(again) <=> \E i \in D : x \in ToSet(again[i].results)
      BY <2>2 DEF Offered
    <3>2. \A x : x \in Offered(responses) <=> \E i \in D : x \in ToSet(responses[i].results)
      BY DEF Offered, D
    <3>3. \A x : x \in Offered(again) <=> x \in Offered(responses)
      BY <2>2, <3>1, <3>2
    <3> QED BY <3>3
  <2>8. ByDocument(again) = ByDocument(responses)
    BY <2>4, <2>7, ByDocumentIsBest, BestIsOne
  <2> HIDE DEF valid
  <2> QED BY <1>1, <2>2, <2>6, <2>8 DEF again
<1> QED BY <1>3, <1>4

-----------------------------------------------------------------------------
(***************************************************************************)
(* The invariant: while a phase is open every answer, of whichever request *)
(* and generation, is one that a worker made, and the result is what the   *)
(* answers were reduced to when the phase was closed.                      *)
(***************************************************************************)

AnswersAreMade ==
    /\ phase = "statistics" => answers \in Seq(StatisticsAnswers)
    /\ phase \in {"candidates", "answered"} => answers \in Seq(Answers)

ResultIsOfAnswers ==
    /\ phase \in {"statistics", "candidates", "failed"} => ~result.ok
    /\ phase = "answered" =>
         result.ok /\ result = ReduceCandidates(request, statistics.generation, answers)

WorkersInv ==
    /\ phase \in {"statistics", "candidates", "answered", "failed"}
    /\ request.id \in STRING /\ request.top_k \in Nat
    /\ AnswersAreMade
    /\ ResultIsOfAnswers

LEMMA FirstRequestHasId == Requests[1] \in STRING /\ \A id \in ToSet(Requests) : id \in STRING
<1>1. Requests \in Seq(STRING) /\ Requests # <<>>
  BY WorkersAssumption
<1> QED BY <1>1 DEF ToSet

LEMMA WorkersInvInit == Init => WorkersInv
<1> SUFFICES ASSUME Init PROVE WorkersInv
  OBVIOUS
<1>1. request.id \in STRING /\ request.top_k \in Nat
  BY FirstRequestHasId, WorkersAssumption DEF Init
<1> QED BY <1>1 DEF Init, WorkersInv, AnswersAreMade, ResultIsOfAnswers, Failed

LEMMA ItemsOf ==
    ASSUME NEW E, NEW s \in Seq(E)
    PROVE  \A i \in DOMAIN s : s[i] \in E
OBVIOUS

LEMMA FoundAreResults ==
    ASSUME NEW w \in Workers, NEW failed
    PROVE  Found(w, failed) \in Seq(Results)
<1> DEFINE D == DOMAIN Documents[w]
           kept == {i \in D : Documents[w][i].segment \notin failed}
           R == {p \in kept \X kept : p[1] < p[2]}
           order == Ranked(kept, LAMBDA i, j : i < j)
           n == Cardinality(kept)
<1>1. Documents[w] \in Seq([segment : HeldBy[w], result : Results])
  BY WorkersAssumption
<1>2. D = 1 .. Len(Documents[w]) /\ Len(Documents[w]) \in Nat /\ \A i \in D : Documents[w][i].result \in Results
  <2>1. \A i \in DOMAIN Documents[w] : Documents[w][i] \in [segment : HeldBy[w], result : Results]
    BY <1>1, ItemsOf
  <2>2. \A x \in [segment : HeldBy[w], result : Results] : x.result \in Results
    OBVIOUS
  <2>3. DOMAIN Documents[w] = 1 .. Len(Documents[w]) /\ Len(Documents[w]) \in Nat
    BY <1>1
  <2> QED BY <2>1, <2>2, <2>3
<1>3. IsFiniteSet(kept) /\ n \in Nat
  <2> DEFINE len == Len(Documents[w])
  <2>1. IsFiniteSet(1 .. len)
    <3> HIDE DEF len
    <3> QED BY <1>2, FS_Interval DEF len
  <2>2. kept \in SUBSET (1 .. len)
    BY <1>2
  <2> HIDE DEF kept, len
  <2> QED BY <2>1, <2>2, FS_Subset, FS_CardinalityType
<1>4. Keeping!TotalOn(R, kept)
  <2>1. \A x \in kept : x \in Nat
    BY <1>2
  <2>2. \A x, y \in kept : <<x, y>> \in R <=> x < y
    OBVIOUS
  <2> HIDE DEF kept, R
  <2> QED BY <2>1, <2>2 DEF Keeping!TotalOn
<1>5. order = Keeping!RankedBy(kept, R)
  <2> DEFINE one(i) == CHOOSE x \in kept : Cardinality({y \in kept : y < x}) = i - 1
             other(i) == CHOOSE x \in kept : Cardinality({y \in kept : <<y, x>> \in R}) = i - 1
  <2>1. \A x \in kept : {y \in kept : y < x} = {y \in kept : <<y, x>> \in R}
    OBVIOUS
  <2>2. \A i \in 1 .. n : one(i) = other(i)
    BY <2>1
  <2>3. order = [i \in 1 .. n |-> one(i)]
    BY DEF Ranked
  <2>4. Keeping!RankedBy(kept, R) = [i \in 1 .. n |-> other(i)]
    BY DEF Keeping!RankedBy, Keeping!Cardinality, Cardinality
  <2> HIDE DEF kept, R, one, other, n
  <2> QED BY <2>2, <2>3, <2>4
<1>6. DOMAIN order = 1 .. n /\ ToSet(order) = kept
  <2> HIDE DEF kept, R, order
  <2> QED BY <1>3, <1>4, <1>5, RankingIsExact
<1>7. Found(w, failed) = [i \in 1 .. n |-> Documents[w][order[i]].result]
  BY DEF Found
<1>8. \A i \in 1 .. n : order[i] \in D
  <2>1. \A i \in 1 .. n : order[i] \in kept
    BY <1>6 DEF ToSet
  <2> HIDE DEF order, n
  <2> QED BY <2>1
<1> HIDE DEF order, n, kept, R, D
<1> QED BY <1>2, <1>3, <1>7, <1>8

\* An answer joins those of the phase; the rest stays.
LEMMA ReceiveKeeps ==
    ASSUME WorkersInv, NEW response, Receive(response),
           \/ phase = "statistics" /\ response \in StatisticsAnswers
           \/ phase = "candidates" /\ response \in Answers
    PROVE  WorkersInv'
<1>1. phase = "statistics" => answers' \in Seq(StatisticsAnswers)
  BY DEF Receive, WorkersInv, AnswersAreMade
<1>2. phase = "candidates" => answers' \in Seq(Answers)
  BY DEF Receive, WorkersInv, AnswersAreMade
<1> QED BY <1>1, <1>2 DEF Receive, WorkersInv, AnswersAreMade, ResultIsOfAnswers

LEMMA ReportIsReport ==
    ASSUME NEW w \in Workers, NEW failed \in SUBSET HeldBy[w]
    PROVE  LocalReport(w, failed) \in Report
BY WorkersAssumption DEF LocalReport, Report

LEMMA CountTermsKeeps ==
    ASSUME WorkersInv, NEW w \in Workers, CountTerms(w)
    PROVE  WorkersInv'
<1>1. PICK failed \in SUBSET HeldBy[w], g \in Generations :
        Receive([version |-> Version, id |-> request.id, worker |-> w, generation |-> g,
                 counts |-> FoldSet(LAMBDA s, sum : AddCounts(sum, Counts[w][s]),
                                    NoCounts, HeldBy[w] \ failed),
                 completeness |-> LocalReport(w, failed)])
  BY DEF CountTerms
<1> DEFINE counts == FoldSet(LAMBDA s, sum : AddCounts(sum, Counts[w][s]), NoCounts, HeldBy[w] \ failed)
<1>2. counts \in Tallies
  BY CountsAreTallied
<1> HIDE DEF counts
<1>3. [version |-> Version, id |-> request.id, worker |-> w, generation |-> g, counts |-> counts,
       completeness |-> LocalReport(w, failed)] \in StatisticsAnswers
  BY <1>2, ReportIsReport DEF StatisticsAnswers, Version, WorkersInv
<1>4. phase = "statistics"
  BY DEF CountTerms
<1> QED BY <1>1, <1>3, <1>4, ReceiveKeeps DEF counts

LEMMA ScoreCandidatesKeeps ==
    ASSUME WorkersInv, NEW w \in Workers, ScoreCandidates(w)
    PROVE  WorkersInv'
<1>1. PICK failed \in SUBSET HeldBy[w], g \in Generations :
        Receive([version |-> Version, id |-> request.id, worker |-> w, generation |-> g,
                 results |-> Found(w, failed), completeness |-> LocalReport(w, failed)])
  BY DEF ScoreCandidates
<1>2. [version |-> Version, id |-> request.id, worker |-> w, generation |-> g,
       results |-> Found(w, failed), completeness |-> LocalReport(w, failed)] \in Answers
  BY FoundAreResults, ReportIsReport DEF Answers, Version, WorkersInv
<1>3. phase = "candidates"
  BY DEF ScoreCandidates
<1> QED BY <1>1, <1>2, <1>3, ReceiveKeeps

LEMMA RedeliverKeeps ==
    ASSUME WorkersInv, Redeliver
    PROVE  WorkersInv'
<1>1. PICK i \in DOMAIN answers, id \in ToSet(Requests), version \in {Version, Version + 1} :
        Receive([answers[i] EXCEPT !.id = id, !.version = version])
  BY DEF Redeliver
<1> DEFINE again == [answers[i] EXCEPT !.id = id, !.version = version]
<1>2. id \in STRING /\ version \in Nat
  BY FirstRequestHasId DEF Version
<1>3. phase = "statistics" => again \in StatisticsAnswers
  <2> SUFFICES ASSUME phase = "statistics" PROVE again \in StatisticsAnswers
    OBVIOUS
  <2>1. answers[i] \in StatisticsAnswers
    BY ItemsOf DEF WorkersInv, AnswersAreMade
  <2> QED BY <1>2, <2>1 DEF StatisticsAnswers
<1>4. phase = "candidates" => again \in Answers
  <2> SUFFICES ASSUME phase = "candidates" PROVE again \in Answers
    OBVIOUS
  <2>1. answers[i] \in Answers
    BY ItemsOf DEF WorkersInv, AnswersAreMade
  <2> QED BY <1>2, <2>1 DEF Answers
<1>5. phase \in {"statistics", "candidates"}
  BY DEF Redeliver
<1> HIDE DEF again
<1> QED BY <1>1, <1>3, <1>4, <1>5, ReceiveKeeps DEF again

LEMMA CloseStatisticsKeeps ==
    ASSUME WorkersInv, CloseStatistics
    PROVE  WorkersInv'
<1>1. ~result.ok /\ phase = "statistics"
  BY DEF CloseStatistics, WorkersInv, ResultIsOfAnswers
<1>2. CASE statistics'.ok
  <2>1. phase' = "candidates" /\ answers' = <<>> /\ UNCHANGED <<request, result>>
    BY <1>2 DEF CloseStatistics
  <2> QED BY <1>1, <2>1 DEF WorkersInv, AnswersAreMade, ResultIsOfAnswers
<1>3. CASE ~statistics'.ok
  <2>1. phase' = "failed" /\ UNCHANGED <<request, result>>
    BY <1>3 DEF CloseStatistics
  <2> QED BY <1>1, <2>1 DEF WorkersInv, AnswersAreMade, ResultIsOfAnswers
<1> QED BY <1>2, <1>3

LEMMA CloseCandidatesKeeps ==
    ASSUME WorkersInv, CloseCandidates
    PROVE  WorkersInv'
<1>1. /\ phase = "candidates" /\ UNCHANGED <<request, answers, statistics>>
      /\ result' = ReduceCandidates(request, statistics.generation, answers)
      /\ phase' = IF result'.ok THEN "answered" ELSE "failed"
  BY DEF CloseCandidates
<1>2. AnswersAreMade'
  BY <1>1 DEF WorkersInv, AnswersAreMade
<1>3. ResultIsOfAnswers'
  <2>1. CASE result'.ok
    BY <1>1, <2>1 DEF ResultIsOfAnswers
  <2>2. CASE ~result'.ok
    BY <1>1, <2>2 DEF ResultIsOfAnswers
  <2> QED BY <2>1, <2>2
<1> QED BY <1>1, <1>2, <1>3 DEF WorkersInv

LEMMA WorkersInvNext == WorkersInv /\ [Next]_vars => WorkersInv'
<1> SUFFICES ASSUME WorkersInv, [Next]_vars PROVE WorkersInv'
  OBVIOUS
<1>1. CASE Tick
  BY <1>1 DEF Tick, WorkersInv, AnswersAreMade, ResultIsOfAnswers
<1>2. ASSUME NEW w \in Workers, CountTerms(w) PROVE WorkersInv'
  BY <1>2, CountTermsKeeps
<1>3. ASSUME NEW w \in Workers, ScoreCandidates(w) PROVE WorkersInv'
  BY <1>3, ScoreCandidatesKeeps
<1>4. CASE Redeliver
  BY <1>4, RedeliverKeeps
<1>5. CASE CloseStatistics
  BY <1>5, CloseStatisticsKeeps
<1>6. CASE CloseCandidates
  BY <1>6, CloseCandidatesKeeps
<1>7. CASE UNCHANGED vars
  BY <1>7 DEF vars, WorkersInv, AnswersAreMade, ResultIsOfAnswers
<1> QED BY <1>1, <1>2, <1>3, <1>4, <1>5, <1>6, <1>7 DEF Next

(* The answers of a phase are answers of workers, whatever the network does *)
(* with them, and the result is the reduction of all of them.               *)
THEOREM WorkersInvHolds == Spec => []WorkersInv
BY WorkersInvInit, WorkersInvNext, PTL DEF Spec

(* reduce_candidates and aggregate_statistics give one outcome for one set  *)
(* of answers, in whatever order they arrived.                              *)
THEOREM ArrivalOrderIsIrrelevantHolds == Spec => []ArrivalOrderIsIrrelevant
<1>1. WorkersInv => ArrivalOrderIsIrrelevant
  <2> SUFFICES ASSUME WorkersInv, NEW order \in Bijection(DOMAIN answers, DOMAIN answers)
               PROVE  LET again == Dealt(answers, order) IN
                      /\ phase = "statistics" =>
                           AggregateStatistics(request, again) = AggregateStatistics(request, answers)
                      /\ phase \in {"candidates", "answered"} =>
                           ReduceCandidates(request, statistics.generation, again)
                             = ReduceCandidates(request, statistics.generation, answers)
    BY DEF ArrivalOrderIsIrrelevant, Dealt
  <2> QED BY StatisticsInAnyOrder, CandidatesInAnyOrder DEF WorkersInv, AnswersAreMade
<1> QED BY <1>1, WorkersInvHolds, PTL

(* Every listed document is one a worker returned, with the best score any  *)
(* worker gave it, and what is not listed is worse than all that is.        *)
THEOREM BestAnswersAreKeptHolds == Spec => []BestAnswersAreKept
<1>1. WorkersInv => BestAnswersAreKept
  <2> SUFFICES ASSUME WorkersInv, phase = "answered" PROVE BestAnswersAreKept
    BY DEF BestAnswersAreKept
  <2>1. /\ result.ok /\ result = ReduceCandidates(request, statistics.generation, answers)
        /\ answers \in Seq(Answers) /\ request.top_k \in Nat
    BY DEF WorkersInv, ResultIsOfAnswers, AnswersAreMade
  <2>2. result.results = SortedAndCut(ByDocument(answers), request.top_k)
    BY <2>1 DEF ReduceCandidates, Failed
  <2>3. UNION {ToSet(answers[i].results) : i \in DOMAIN answers} = Offered(answers)
    BY DEF Offered
  <2> QED BY <2>1, <2>2, <2>3, ListIsBest DEF BestAnswersAreKept
<1> QED BY <1>1, WorkersInvHolds, PTL

(* A segment that failed at any worker keeps the merged answer from looking *)
(* complete.                                                                *)
THEOREM FailureIsNeverHiddenHolds == Spec => []FailureIsNeverHidden
<1>1. WorkersInv => FailureIsNeverHidden
  <2> DEFINE merged == IF phase = "statistics" THEN AggregateStatistics(request, answers) ELSE result
  <2> SUFFICES ASSUME WorkersInv, merged.ok,
                      NEW i \in DOMAIN answers, answers[i].completeness.failures # {}
               PROVE  ~IsComplete(merged.completeness)
    BY DEF FailureIsNeverHidden
  <2>1. merged.completeness = MergedReport(answers)
    <3>1. CASE phase = "statistics"
      BY <3>1 DEF AggregateStatistics, Failed
    <3>2. CASE phase # "statistics"
      <4>1. phase = "answered" /\ result = ReduceCandidates(request, statistics.generation, answers)
        BY <3>2 DEF WorkersInv, ResultIsOfAnswers
      <4> QED BY <3>2, <4>1 DEF ReduceCandidates, Failed
    <3> QED BY <3>1, <3>2
  <2>2. MergedReport(answers).failures # {}
    BY DEF MergedReport
  <2> QED BY <2>1, <2>2 DEF IsComplete
<1> QED BY <1>1, WorkersInvHolds, PTL



-----------------------------------------------------------------------------
(***************************************************************************)
(* What the fingerprint and the corpus take from a walk.  Both are folds   *)
(* over the paths; c has the files and the limits.                         *)
(***************************************************************************)

PrintStep(c, i, state) ==
    IF state.done \/ ~Markdown(c.files, Walk[i], c.limits) THEN state
    ELSE IF state.seen + 1 > c.limits.files \/ state.total + c.files[Walk[i]].size > c.limits.total
         THEN [state EXCEPT !.done = TRUE]
    ELSE [state EXCEPT !.seen = @ + 1, !.total = @ + c.files[Walk[i]].size,
                       !.found = @ \cup {Walk[i]}]

ReadStep(c, i, state) ==
    IF state.done \/ ~Markdown(c.files, Walk[i], c.limits) THEN state
    ELSE IF state.seen + 1 > c.limits.files THEN [state EXCEPT !.done = TRUE]
    ELSE LET here  == [state EXCEPT !.seen = @ + 1]
             total == here.total + c.files[Walk[i]].size
         IN  IF c.files[Walk[i]].size > c.limits.bytes THEN here
             ELSE IF total > c.limits.total THEN [here EXCEPT !.done = TRUE]
             ELSE [here EXCEPT !.total = total,
                     !.read = IF c.files[Walk[i]].readable THEN Append(@, Walk[i]) ELSE @]

Always(c, s, v) == TRUE

Printing == INSTANCE FoldTheorems WITH Step <- PrintStep, Choice <- LastOf, Inv <- Always
Reading == INSTANCE FoldTheorems WITH Step <- ReadStep, Choice <- LastOf, Inv <- Always

PrintStart == [done |-> FALSE, seen |-> 0, total |-> 0, found |-> {}]
ReadStart == [done |-> FALSE, seen |-> 0, total |-> 0, read |-> <<>>]

LEMMA WalksAreFolds ==
    ASSUME NEW c
    PROVE  /\ FingerprintedPaths(c.files, c.limits) = Printing!Fold(c, PrintStart, DOMAIN Walk).found
           /\ Walked(c.files, c.limits) = Reading!Fold(c, ReadStart, DOMAIN Walk).read
<1>1. FingerprintedPaths(c.files, c.limits) = Printing!Fold(c, PrintStart, DOMAIN Walk).found
  BY DEF FingerprintedPaths, FoldLeft, MapThenFoldSet, Max, Printing!Fold, PrintStep, LastOf, PrintStart
<1>2. Walked(c.files, c.limits) = Reading!Fold(c, ReadStart, DOMAIN Walk).read
  BY DEF Walked, FoldLeft, MapThenFoldSet, Max, Reading!Fold, ReadStep, LastOf, ReadStart
<1> QED BY <1>1, <1>2

LEMMA WalkIsInjective ==
    /\ Len(Walk) \in Nat /\ DOMAIN Walk = 1 .. Len(Walk)
    /\ \A i, j \in 1 .. Len(Walk) : Walk[i] = Walk[j] => i = j
BY CorpusAssumption DEF CorpusAssumption, IsInjective

LEMMA LastOfIsEnd ==
    ASSUME NEW k \in Nat, k # 0
    PROVE  LastOf(1 .. k) = k
<1>1. k \in 1 .. k /\ \A y \in 1 .. k : k >= y
  OBVIOUS
<1>2. \A x \in 1 .. k : (\A y \in 1 .. k : x >= y) => x = k
  OBVIOUS
<1> QED BY <1>1, <1>2 DEF LastOf

LEMMA WalksHaveTraces ==
    ASSUME NEW c
    PROVE  /\ \E tr : /\ Printing!IsTrace(c, PrintStart, Len(Walk), tr)
                      /\ FingerprintedPaths(c.files, c.limits) = tr[Len(Walk)].found
           /\ \E tr : /\ Reading!IsTrace(c, ReadStart, Len(Walk), tr)
                      /\ Walked(c.files, c.limits) = tr[Len(Walk)].read
<1> DEFINE n == Len(Walk)
<1>1. n \in Nat /\ DOMAIN Walk = 1 .. n
  BY WalkIsInjective
<1> HIDE DEF n
<1>2. Printing!Chooses(1 .. n) /\ Reading!Chooses(1 .. n)
  BY <1>1, LastOfIsIn DEF Printing!Chooses, Reading!Chooses
<1>3. \A k \in 1 .. n : LastOf(1 .. k) = k
  BY <1>1, LastOfIsEnd
<1>4. PICK t : Printing!IsTrace(c, PrintStart, n, t) /\ Printing!Fold(c, PrintStart, 1 .. n) = t[n]
  BY <1>1, <1>2, <1>3, Printing!FoldHasTrace
<1>5. PICK u : Reading!IsTrace(c, ReadStart, n, u) /\ Reading!Fold(c, ReadStart, 1 .. n) = u[n]
  BY <1>1, <1>2, <1>3, Reading!FoldHasTrace
<1> QED BY <1>1, <1>4, <1>5, WalksAreFolds DEF n

\* The markdown files among the first paths of the walk.
Upto(c, d) == {Walk[j] : j \in {i \in 1 .. d : Markdown(c.files, Walk[i], c.limits)}}

\* The fingerprint takes every markdown file up to a place where it stops.
IsPrinted(c, k, s) ==
    /\ s = [done |-> s.done, seen |-> s.seen, total |-> s.total, found |-> s.found]
    /\ s.done \in BOOLEAN
    /\ \E d \in 0 .. k : s.found = Upto(c, d) /\ (~s.done => d = k)

LEMMA PrintedUpTo ==
    ASSUME NEW c, NEW k, NEW d \in 0 .. k, NEW b \in BOOLEAN, NEW n, NEW m, ~b => d = k
    PROVE  IsPrinted(c, k, [done |-> b, seen |-> n, total |-> m, found |-> Upto(c, d)])
<1> DEFINE s == [done |-> b, seen |-> n, total |-> m, found |-> Upto(c, d)]
<1>1. s.done = b /\ s.found = Upto(c, d) /\ s.seen = n /\ s.total = m
  OBVIOUS
<1>2. s = [done |-> s.done, seen |-> s.seen, total |-> s.total, found |-> s.found]
  OBVIOUS
<1> HIDE DEF s
<1>3. IsPrinted(c, k, s)
  BY <1>1, <1>2 DEF IsPrinted
<1> QED BY <1>3 DEF s

LEMMA PrintStepKeeps ==
    ASSUME NEW c, NEW k \in Nat, NEW s, IsPrinted(c, k, s)
    PROVE  IsPrinted(c, k + 1, PrintStep(c, k + 1, s))
<1> DEFINE p == Walk[k + 1]
           r == PrintStep(c, k + 1, s)
<1>1. PICK d \in 0 .. k : s.found = Upto(c, d) /\ (~s.done => d = k)
  BY DEF IsPrinted
<1>2. d \in 0 .. k + 1
  BY <1>1
<1>3. CASE s.done \/ ~Markdown(c.files, p, c.limits)
  <2>1. r = s
    BY <1>3 DEF PrintStep
  <2>2. ASSUME ~s.done PROVE s.found = Upto(c, k + 1)
    <3>1. {i \in 1 .. k + 1 : Markdown(c.files, Walk[i], c.limits)}
            = {i \in 1 .. k : Markdown(c.files, Walk[i], c.limits)}
      BY <1>3, <2>2
    <3> QED BY <1>1, <2>2, <3>1 DEF Upto
  <2> QED BY <1>1, <1>2, <2>1, <2>2 DEF IsPrinted
<1>4. CASE /\ ~(s.done \/ ~Markdown(c.files, p, c.limits))
           /\ s.seen + 1 > c.limits.files \/ s.total + c.files[p].size > c.limits.total
  <2>1. r = [s EXCEPT !.done = TRUE]
    BY <1>4 DEF PrintStep
  <2>2. r = [done |-> TRUE, seen |-> s.seen, total |-> s.total, found |-> Upto(c, d)]
    BY <1>1, <2>1 DEF IsPrinted
  <2> HIDE DEF r
  <2>3. IsPrinted(c, k + 1, r)
    BY <1>2, <2>2, PrintedUpTo
  <2> QED BY <2>3 DEF r
<1>5. CASE /\ ~(s.done \/ ~Markdown(c.files, p, c.limits))
           /\ ~(s.seen + 1 > c.limits.files \/ s.total + c.files[p].size > c.limits.total)
  <2>1. r = [s EXCEPT !.seen = @ + 1, !.total = @ + c.files[p].size, !.found = @ \cup {p}]
    BY <1>5 DEF PrintStep
  <2>2. r = [done |-> FALSE, seen |-> s.seen + 1, total |-> s.total + c.files[p].size,
             found |-> s.found \cup {p}]
    BY <1>5, <2>1 DEF IsPrinted
  <2>3. {i \in 1 .. k + 1 : Markdown(c.files, Walk[i], c.limits)}
          = {i \in 1 .. k : Markdown(c.files, Walk[i], c.limits)} \cup {k + 1}
    BY <1>5
  <2>4. s.found \cup {p} = Upto(c, k + 1)
    BY <1>1, <1>5, <2>3 DEF Upto
  <2> HIDE DEF r
  <2>5. k + 1 \in 0 .. k + 1
    OBVIOUS
  <2>7. IsPrinted(c, k + 1, r)
    BY <2>2, <2>4, <2>5, PrintedUpTo
  <2> QED BY <2>7 DEF r
<1> QED BY <1>3, <1>4, <1>5

LEMMA FingerprintStops ==
    ASSUME NEW c
    PROVE  \E d \in 0 .. Len(Walk) : FingerprintedPaths(c.files, c.limits) = Upto(c, d)
<1> DEFINE n == Len(Walk)
<1>1. n \in Nat
  BY WalkIsInjective
<1>2. PICK tr : /\ Printing!IsTrace(c, PrintStart, n, tr)
                /\ FingerprintedPaths(c.files, c.limits) = tr[n].found
  BY WalksHaveTraces
<1> HIDE DEF n
<1> DEFINE T == {k \in Nat : k <= n => IsPrinted(c, k, tr[k])}
<1>3. 0 \in T
  <2>1. Upto(c, 0) = {} /\ tr[0] = PrintStart
    BY <1>2 DEF Upto, Printing!IsTrace
  <2>2. 0 \in 0 .. 0 /\ FALSE \in BOOLEAN
    OBVIOUS
  <2>3. IsPrinted(c, 0, tr[0])
    BY <2>1, <2>2, PrintedUpTo DEF PrintStart
  <2> QED BY <2>3
<1>4. ASSUME NEW k \in Nat, k < n, k \in T PROVE k + 1 \in T
  <2>1. tr[k + 1] = PrintStep(c, k + 1, tr[k])
    <3>1. k + 1 \in 1 .. n /\ (k + 1) - 1 = k
      BY <1>1, <1>4
    <3> QED BY <1>2, <3>1 DEF Printing!IsTrace
  <2> QED BY <1>1, <1>4, <2>1, PrintStepKeeps
<1>5. n \in T
  <2> HIDE DEF T
  <2> QED BY <1>1, <1>3, <1>4, Printing!StepsReach
<1> QED BY <1>1, <1>2, <1>5 DEF IsPrinted, n

\* What is read are readable markdown files among the first paths, each once.
IsRead(c, k, s) ==
    /\ s = [done |-> s.done, seen |-> s.seen, total |-> s.total, read |-> s.read]
    /\ s.done \in BOOLEAN
    /\ s.read \in Seq(Paths) /\ IsInjective(s.read)
    /\ \A i \in DOMAIN s.read : \E j \in 1 .. k :
          /\ s.read[i] = Walk[j] /\ Markdown(c.files, Walk[j], c.limits)
          /\ c.files[Walk[j]].readable

IsNext(c, i, list, r) ==
    /\ r = [done |-> r.done, seen |-> r.seen, total |-> r.total, read |-> r.read]
    /\ r.done \in BOOLEAN
    /\ \/ r.read = list
       \/ /\ r.read = Append(list, Walk[i]) /\ Markdown(c.files, Walk[i], c.limits)
          /\ c.files[Walk[i]].readable

LEMMA NextState ==
    ASSUME NEW c, NEW i, NEW list, NEW b \in BOOLEAN, NEW n, NEW m, NEW new,
           new = list \/ /\ new = Append(list, Walk[i]) /\ Markdown(c.files, Walk[i], c.limits)
                         /\ c.files[Walk[i]].readable
    PROVE  IsNext(c, i, list, [done |-> b, seen |-> n, total |-> m, read |-> new])
<1> DEFINE r == [done |-> b, seen |-> n, total |-> m, read |-> new]
<1>1. r.done = b /\ r.seen = n /\ r.total = m /\ r.read = new
  OBVIOUS
<1>2. r = [done |-> r.done, seen |-> r.seen, total |-> r.total, read |-> r.read]
  OBVIOUS
<1> HIDE DEF r
<1>3. IsNext(c, i, list, r)
  BY <1>1, <1>2 DEF IsNext
<1> QED BY <1>3 DEF r

LEMMA SetSeen ==
    ASSUME NEW s, NEW b, NEW n, NEW m, NEW list, NEW new,
           s = [done |-> b, seen |-> n, total |-> m, read |-> list]
    PROVE  [s EXCEPT !.seen = new] = [done |-> b, seen |-> new, total |-> m, read |-> list]
OBVIOUS

LEMMA ReadStepReads ==
    ASSUME NEW c, NEW i, NEW s,
           s = [done |-> s.done, seen |-> s.seen, total |-> s.total, read |-> s.read],
           s.done \in BOOLEAN
    PROVE  IsNext(c, i, s.read, ReadStep(c, i, s))
<1> DEFINE r == ReadStep(c, i, s)
           file == c.files[Walk[i]]
           here == [done |-> s.done, seen |-> s.seen + 1, total |-> s.total, read |-> s.read]
<1>1. CASE s.done \/ ~Markdown(c.files, Walk[i], c.limits)
  <2>1. r = s
    BY <1>1 DEF ReadStep
  <2> QED BY <2>1 DEF IsNext
<1>2. CASE ~(s.done \/ ~Markdown(c.files, Walk[i], c.limits)) /\ s.seen + 1 > c.limits.files
  <2>1. r = [s EXCEPT !.done = TRUE]
    BY <1>2 DEF ReadStep
  <2>2. r = [done |-> TRUE, seen |-> s.seen, total |-> s.total, read |-> s.read]
    BY <2>1
  <2> QED BY <2>2, NextState
<1>3. CASE ~(s.done \/ ~Markdown(c.files, Walk[i], c.limits)) /\ ~(s.seen + 1 > c.limits.files)
  <2>1. [s EXCEPT !.seen = @ + 1] = here
    BY SetSeen
  <2>2. r = IF file.size > c.limits.bytes THEN here
            ELSE IF here.total + file.size > c.limits.total THEN [here EXCEPT !.done = TRUE]
            ELSE [here EXCEPT !.total = here.total + file.size,
                    !.read = IF file.readable THEN Append(@, Walk[i]) ELSE @]
    <3> HIDE DEF here
    <3> QED BY <1>3, <2>1 DEF ReadStep
  <2>3. CASE file.size > c.limits.bytes
    <3>1. r = here
      BY <2>2, <2>3
    <3> QED BY <3>1, NextState
  <2>4. CASE ~(file.size > c.limits.bytes) /\ here.total + file.size > c.limits.total
    <3>1. r = [done |-> TRUE, seen |-> s.seen + 1, total |-> s.total, read |-> s.read]
      BY <2>2, <2>4
    <3> QED BY <3>1, NextState
  <2>5. CASE ~(file.size > c.limits.bytes) /\ ~(here.total + file.size > c.limits.total)
    <3>1. r = [done |-> s.done, seen |-> s.seen + 1, total |-> s.total + file.size,
               read |-> IF file.readable THEN Append(s.read, Walk[i]) ELSE s.read]
      BY <2>2, <2>5
    <3> QED BY <1>3, <3>1, NextState
  <2> QED BY <2>3, <2>4, <2>5
<1> QED BY <1>1, <1>2, <1>3

LEMMA ReadStepKeeps ==
    ASSUME NEW c, NEW k \in Nat, k < Len(Walk), NEW s, IsRead(c, k, s)
    PROVE  LET r == ReadStep(c, k + 1, s) IN
           /\ IsRead(c, k + 1, r)
           /\ ToSet(s.read) \subseteq ToSet(r.read)
           /\ r.read = s.read \/ Walk[k + 1] \in ToSet(r.read)
<1> DEFINE r == ReadStep(c, k + 1, s)
           p == Walk[k + 1]
<1>1. /\ r = [done |-> r.done, seen |-> r.seen, total |-> r.total, read |-> r.read]
      /\ r.done \in BOOLEAN
      /\ \/ r.read = s.read
         \/ /\ r.read = Append(s.read, p) /\ Markdown(c.files, p, c.limits)
            /\ c.files[p].readable
  BY ReadStepReads DEF IsRead, IsNext
<1>2. 1 .. k \subseteq 1 .. k + 1 /\ k + 1 \in 1 .. k + 1 /\ k + 1 \in 1 .. Len(Walk)
  BY WalkIsInjective
<1>3. p \in Paths
  BY <1>2, WalkIsInjective DEF Paths, ToSet
<1> HIDE DEF r
<1>4. CASE r.read = s.read
  <2>1. IsRead(c, k + 1, r)
    BY <1>1, <1>2, <1>4 DEF IsRead
  <2> QED BY <1>4, <2>1 DEF r
<1>5. CASE /\ r.read = Append(s.read, p) /\ Markdown(c.files, p, c.limits)
           /\ c.files[p].readable
  <2> DEFINE n == Len(s.read)
             list == r.read
  <2>1. s.read \in Seq(Paths)
    BY DEF IsRead
  <2>2. n \in Nat /\ DOMAIN s.read = 1 .. n
    BY <2>1
  <2>3. /\ list \in Seq(Paths) /\ DOMAIN list = 1 .. n + 1 /\ list[n + 1] = p
        /\ \A i \in 1 .. n : list[i] = s.read[i]
    BY <1>3, <1>5, <2>1
  <2>4. \A i \in 1 .. n : s.read[i] # p
    <3> SUFFICES ASSUME NEW i \in 1 .. n PROVE s.read[i] # p
      OBVIOUS
    <3>1. PICK j \in 1 .. k : s.read[i] = Walk[j]
      BY <2>2 DEF IsRead
    <3>2. j \in 1 .. Len(Walk) /\ j # k + 1
      BY <1>2, WalkIsInjective
    <3> QED BY <1>2, <3>1, <3>2, WalkIsInjective
  <2> HIDE DEF list, n
  <2>5. \A i, j \in 1 .. n + 1 : list[i] = list[j] => i = j
    <3>1. \A i, j \in 1 .. n : s.read[i] = s.read[j] => i = j
      BY <2>2 DEF IsRead, IsInjective
    <3>2. \A i \in 1 .. n + 1 : i \in 1 .. n \/ i = n + 1
      BY <2>2
    <3> QED BY <2>3, <2>4, <3>1, <3>2
  <2>6. \A i \in 1 .. n + 1 : \E j \in 1 .. k + 1 :
          /\ list[i] = Walk[j] /\ Markdown(c.files, Walk[j], c.limits)
          /\ c.files[Walk[j]].readable
    <3> SUFFICES ASSUME NEW i \in 1 .. n + 1
                 PROVE  \E j \in 1 .. k + 1 :
                          /\ list[i] = Walk[j] /\ Markdown(c.files, Walk[j], c.limits)
                          /\ c.files[Walk[j]].readable
      OBVIOUS
    <3>1. CASE i \in 1 .. n
      BY <1>2, <2>2, <2>3, <3>1 DEF IsRead
    <3>2. CASE i = n + 1
      BY <1>2, <1>5, <2>3, <3>2
    <3> QED BY <2>2, <3>1, <3>2
  <2>7. IsRead(c, k + 1, r)
    BY <1>1, <2>3, <2>5, <2>6 DEF IsRead, IsInjective, list
  <2>8. ToSet(s.read) \subseteq ToSet(r.read) /\ p \in ToSet(r.read)
    BY <2>2, <2>3 DEF ToSet, list
  <2> QED BY <2>7, <2>8 DEF r
<1> QED BY <1>1, <1>4, <1>5

IsReading(c, tr) == Reading!IsTrace(c, ReadStart, Len(Walk), tr)

LEMMA StatesAreRead ==
    ASSUME NEW c, NEW tr, IsReading(c, tr), NEW k \in 0 .. Len(Walk)
    PROVE  IsRead(c, k, tr[k])
<1> DEFINE n == Len(Walk)
           T == {j \in Nat : j <= n => IsRead(c, j, tr[j])}
<1>1. n \in Nat /\ k \in Nat /\ k <= n
  BY WalkIsInjective
<1>2. 0 \in T
  <2>1. tr[0] = ReadStart
    BY DEF IsReading, Reading!IsTrace
  <2>2. <<>> \in Seq(Paths) /\ DOMAIN <<>> = {}
    OBVIOUS
  <2>3. IsRead(c, 0, ReadStart)
    BY <2>2 DEF IsRead, ReadStart, IsInjective
  <2> QED BY <2>1, <2>3
<1>3. ASSUME NEW j \in Nat, j < k, j \in T PROVE j + 1 \in T
  <2>1. j + 1 \in 1 .. n /\ (j + 1) - 1 = j /\ j < n /\ j <= n
    BY <1>1, <1>3
  <2>2. tr[j + 1] = ReadStep(c, j + 1, tr[j])
    BY <2>1 DEF IsReading, Reading!IsTrace
  <2>3. IsRead(c, j, tr[j])
    BY <1>3, <2>1
  <2>4. IsRead(c, j + 1, tr[j + 1])
    BY <2>1, <2>2, <2>3, ReadStepKeeps
  <2> QED BY <2>4
<1>4. k \in T
  <2> HIDE DEF T
  <2> QED BY <1>1, <1>2, <1>3, Reading!StepsReach
<1> QED BY <1>1, <1>4

\* A path once read stays read.
LEMMA ReadStaysRead ==
    ASSUME NEW c, NEW tr, IsReading(c, tr), NEW k \in 0 .. Len(Walk)
    PROVE  ToSet(tr[k].read) \subseteq ToSet(tr[Len(Walk)].read)
<1> DEFINE n == Len(Walk)
           T == {j \in Nat : k + j <= n => ToSet(tr[k].read) \subseteq ToSet(tr[k + j].read)}
<1>1. n \in Nat /\ k \in Nat /\ k <= n /\ n - k \in Nat /\ k + (n - k) = n /\ k + 0 = k
  BY WalkIsInjective
<1>2. 0 \in T
  BY <1>1
<1>3. ASSUME NEW j \in Nat, j < n - k, j \in T PROVE j + 1 \in T
  <2>1. /\ k + (j + 1) \in 1 .. n /\ (k + (j + 1)) - 1 = k + j /\ k + (j + 1) = (k + j) + 1
        /\ k + j \in Nat /\ k + j < n /\ k + j \in 0 .. n /\ k + j <= n
    BY <1>1, <1>3
  <2>2. tr[(k + j) + 1] = ReadStep(c, (k + j) + 1, tr[k + j])
    BY <2>1 DEF IsReading, Reading!IsTrace
  <2>3. IsRead(c, k + j, tr[k + j])
    BY <2>1, StatesAreRead
  <2>4. ToSet(tr[k + j].read) \subseteq ToSet(tr[(k + j) + 1].read)
    BY <2>1, <2>2, <2>3, ReadStepKeeps
  <2> QED BY <1>3, <2>1, <2>4
<1>4. n - k \in T
  <2> HIDE DEF T
  <2> QED BY <1>1, <1>2, <1>3, Reading!StepsReach
<1> QED BY <1>1, <1>4

\* What is read is read on the first paths, if none of the others is read.
LEMMA NothingReadAfter ==
    ASSUME NEW c, NEW tr, IsReading(c, tr), NEW k \in 0 .. Len(Walk),
           \A i \in 1 .. Len(Walk) : i > k => Walk[i] \notin ToSet(tr[Len(Walk)].read)
    PROVE  tr[Len(Walk)].read = tr[k].read
<1> DEFINE n == Len(Walk)
           T == {j \in Nat : k + j <= n => tr[k + j].read = tr[k].read}
<1>1. n \in Nat /\ k \in Nat /\ k <= n /\ n - k \in Nat /\ k + (n - k) = n /\ k + 0 = k
  BY WalkIsInjective
<1>2. 0 \in T
  BY <1>1
<1>3. ASSUME NEW j \in Nat, j < n - k, j \in T PROVE j + 1 \in T
  <2>1. /\ k + (j + 1) \in 1 .. n /\ (k + (j + 1)) - 1 = k + j /\ k + (j + 1) = (k + j) + 1
        /\ k + j \in Nat /\ k + j < n /\ k + j \in 0 .. n /\ k + j <= n /\ k + (j + 1) > k
        /\ k + (j + 1) \in 0 .. n
    BY <1>1, <1>3
  <2>2. tr[(k + j) + 1] = ReadStep(c, (k + j) + 1, tr[k + j])
    BY <2>1 DEF IsReading, Reading!IsTrace
  <2>3. IsRead(c, k + j, tr[k + j])
    BY <2>1, StatesAreRead
  <2>4. \/ tr[(k + j) + 1].read = tr[k + j].read
        \/ Walk[(k + j) + 1] \in ToSet(tr[(k + j) + 1].read)
    BY <2>1, <2>2, <2>3, ReadStepKeeps
  <2>5. Walk[(k + j) + 1] \notin ToSet(tr[(k + j) + 1].read)
    BY <2>1, ReadStaysRead
  <2> QED BY <1>3, <2>1, <2>4, <2>5
<1>4. n - k \in T
  <2> HIDE DEF T
  <2> QED BY <1>1, <1>2, <1>3, Reading!StepsReach
<1> QED BY <1>1, <1>4

-----------------------------------------------------------------------------
(***************************************************************************)
(* Equal fingerprints that cover their corpus are fingerprints of the same *)
(* corpus.                                                                 *)
(***************************************************************************)

Alike(c, e) ==
    /\ c.limits = e.limits
    /\ Fingerprint(c.files, c.limits) = Fingerprint(e.files, e.limits)
    /\ Covered(c.files, c.limits) /\ Covered(e.files, e.limits)

Prints(c) == FingerprintedPaths(c.files, c.limits)

LEMMA PrintsAreMarkdown ==
    ASSUME NEW c, NEW p \in Prints(c)
    PROVE  Markdown(c.files, p, c.limits)
BY FingerprintStops DEF Prints, Upto

LEMMA SamePrints ==
    ASSUME NEW c, NEW e, Alike(c, e)
    PROVE  /\ Prints(c) = Prints(e)
           /\ \A p \in Prints(c) :
                /\ c.files[p].size = e.files[p].size
                /\ c.files[p].readable <=> e.files[p].readable
                /\ c.files[p].readable => c.files[p] = e.files[p]
<1> DEFINE Entry(a, p) == <<p, a.files[p].size, a.files[p].stamp,
                            IF a.files[p].readable THEN a.files[p] ELSE Absent>>
<1>1. {Entry(c, p) : p \in Prints(c)} = {Entry(e, p) : p \in Prints(e)}
  BY DEF Alike, Fingerprint, Prints
<1>2. ASSUME NEW p \in Prints(c) PROVE p \in Prints(e) /\ Entry(c, p) = Entry(e, p)
  <2>1. PICK q \in Prints(e) : Entry(c, p) = Entry(e, q)
    BY <1>1
  <2> QED BY <2>1
<1>3. ASSUME NEW p \in Prints(e) PROVE p \in Prints(c)
  <2>1. PICK q \in Prints(c) : Entry(c, q) = Entry(e, p)
    BY <1>1
  <2> QED BY <2>1
<1>4. ASSUME NEW p \in Prints(c)
      PROVE  /\ c.files[p].size = e.files[p].size
             /\ c.files[p].readable <=> e.files[p].readable
             /\ c.files[p].readable => c.files[p] = e.files[p]
  <2>1. /\ c.files[p].size = e.files[p].size
        /\ (IF c.files[p].readable THEN c.files[p] ELSE Absent)
             = (IF e.files[p].readable THEN e.files[p] ELSE Absent)
    BY <1>2
  <2>2. c.files[p] # Absent /\ e.files[p] # Absent
    BY <1>2, PrintsAreMarkdown DEF Markdown, IsFile
  <2> QED BY <2>1, <2>2
<1> QED BY <1>2, <1>3, <1>4

\* Up to where both fingerprints stop, the same files are markdown.
LEMMA SameMarkdown ==
    ASSUME NEW c, NEW e, Alike(c, e)
    PROVE  \E m \in 0 .. Len(Walk) :
              /\ \A i \in 1 .. m :
                   /\ Markdown(c.files, Walk[i], c.limits) => Walk[i] \in Prints(c)
                   /\ Markdown(e.files, Walk[i], e.limits) => Walk[i] \in Prints(c)
              /\ \A i \in 1 .. Len(Walk) : i > m => Walk[i] \notin Prints(c)
<1> DEFINE n == Len(Walk)
<1>1. PICK d \in 0 .. n : Prints(c) = Upto(c, d)
  BY FingerprintStops DEF Prints
<1>2. PICK f \in 0 .. n : Prints(e) = Upto(e, f)
  BY FingerprintStops DEF Prints
<1> DEFINE m == IF d <= f THEN d ELSE f
<1>3. n \in Nat /\ d \in Nat /\ f \in Nat /\ m \in 0 .. n /\ m <= d /\ m <= f
  BY WalkIsInjective
<1>4. \A i \in 1 .. m : i \in 1 .. d /\ i \in 1 .. f
  BY <1>3
<1>5. ASSUME NEW i \in 1 .. n, i > m PROVE Walk[i] \notin Prints(c)
  <2>1. CASE d <= f
    <3>1. \A j \in 1 .. d : j \in 1 .. n /\ j # i
      BY <1>3, <1>5, <2>1
    <3> QED BY <1>1, <3>1, WalkIsInjective DEF Upto
  <2>2. CASE ~(d <= f)
    <3>1. \A j \in 1 .. f : j \in 1 .. n /\ j # i
      BY <1>3, <1>5, <2>2
    <3> QED BY <1>2, <3>1, SamePrints, WalkIsInjective DEF Upto
  <2> QED BY <2>1, <2>2
<1>6. ASSUME NEW i \in 1 .. m
      PROVE  /\ Markdown(c.files, Walk[i], c.limits) => Walk[i] \in Prints(c)
             /\ Markdown(e.files, Walk[i], e.limits) => Walk[i] \in Prints(c)
  BY <1>1, <1>2, <1>4, SamePrints DEF Upto
<1> HIDE DEF m
<1> QED BY <1>3, <1>5, <1>6

LEMMA SameReadStep ==
    ASSUME NEW c, NEW e, Alike(c, e), NEW i, NEW s,
           Markdown(c.files, Walk[i], c.limits) => Walk[i] \in Prints(c),
           Markdown(e.files, Walk[i], e.limits) => Walk[i] \in Prints(c)
    PROVE  ReadStep(c, i, s) = ReadStep(e, i, s)
<1>1. CASE Walk[i] \in Prints(c)
  <2>1. Markdown(c.files, Walk[i], c.limits) /\ Markdown(e.files, Walk[i], e.limits)
    BY <1>1, SamePrints, PrintsAreMarkdown
  <2>2. /\ c.files[Walk[i]].size = e.files[Walk[i]].size
        /\ c.files[Walk[i]].readable <=> e.files[Walk[i]].readable
    BY <1>1, SamePrints
  <2>3. c.limits = e.limits
    BY DEF Alike
  <2> QED BY <2>1, <2>2, <2>3 DEF ReadStep
<1>2. CASE Walk[i] \notin Prints(c)
  BY <1>2 DEF ReadStep
<1> QED BY <1>1, <1>2

LEMMA SameCorpus ==
    ASSUME NEW c, NEW e, Alike(c, e)
    PROVE  /\ Walked(c.files, c.limits) = Walked(e.files, e.limits)
           /\ \A p \in ToSet(Walked(c.files, c.limits)) : c.files[p] = e.files[p]
<1> DEFINE n == Len(Walk)
<1>1. n \in Nat
  BY WalkIsInjective
<1>2. PICK t : IsReading(c, t) /\ Walked(c.files, c.limits) = t[n].read
  BY WalksHaveTraces DEF IsReading
<1>3. PICK u : IsReading(e, u) /\ Walked(e.files, e.limits) = u[n].read
  BY WalksHaveTraces DEF IsReading
<1>4. PICK m \in 0 .. n :
         /\ \A i \in 1 .. m :
              /\ Markdown(c.files, Walk[i], c.limits) => Walk[i] \in Prints(c)
              /\ Markdown(e.files, Walk[i], e.limits) => Walk[i] \in Prints(c)
         /\ \A i \in 1 .. n : i > m => Walk[i] \notin Prints(c)
  BY SameMarkdown
<1>5. ToSet(t[n].read) \subseteq Prints(c) /\ ToSet(u[n].read) \subseteq Prints(c)
  BY <1>2, <1>3, SamePrints DEF Alike, Covered, Prints
<1>6. t[n].read = t[m].read /\ u[n].read = u[m].read
  BY <1>2, <1>3, <1>4, <1>5, NothingReadAfter
<1> DEFINE T == {k \in Nat : k <= m => t[k] = u[k]}
<1>7. 0 \in T
  BY <1>2, <1>3 DEF IsReading, Reading!IsTrace
<1>8. ASSUME NEW k \in Nat, k < m, k \in T PROVE k + 1 \in T
  <2>1. m \in Nat /\ k + 1 \in 1 .. m /\ k + 1 \in 1 .. n /\ (k + 1) - 1 = k /\ k <= m
    BY <1>1, <1>8
  <2>2. t[k + 1] = ReadStep(c, k + 1, t[k]) /\ u[k + 1] = ReadStep(e, k + 1, u[k])
    BY <1>2, <1>3, <2>1 DEF IsReading, Reading!IsTrace
  <2>3. ReadStep(c, k + 1, t[k]) = ReadStep(e, k + 1, t[k])
    BY <1>4, <2>1, SameReadStep
  <2> QED BY <1>8, <2>1, <2>2, <2>3
<1>9. m \in Nat /\ m \in T
  <2>1. m \in Nat
    BY <1>1
  <2> HIDE DEF T
  <2> QED BY <1>7, <1>8, <2>1, Reading!StepsReach
<1>10. t[m] = u[m]
  BY <1>9
<1>11. ASSUME NEW p \in ToSet(t[n].read) PROVE c.files[p] = e.files[p]
  <2>1. IsRead(c, n, t[n])
    BY <1>1, <1>2, StatesAreRead
  <2>2. c.files[p].readable
    BY <2>1 DEF IsRead, ToSet
  <2> QED BY <1>5, <2>2, SamePrints
<1> QED BY <1>2, <1>3, <1>6, <1>10, <1>11

LEMMA SameGraph ==
    ASSUME NEW c, NEW e, Alike(c, e)
    PROVE  BuildGraph(c.files, c.limits) = BuildGraph(e.files, e.limits)
<1> DEFINE read == Walked(c.files, c.limits)
<1>1. read = Walked(e.files, e.limits) /\ \A p \in ToSet(read) : c.files[p] = e.files[p]
  BY SameCorpus
<1>2. \A i \in DOMAIN read : read[i] \in ToSet(read)
  BY DEF ToSet
<1> HIDE DEF read
<1>3. [i \in DOMAIN read |-> Page(read[i], c.files[read[i]])]
        = [i \in DOMAIN read |-> Page(read[i], e.files[read[i]])]
  BY <1>1, <1>2
<1>4. {Tier0(p, c.files[p]) : p \in ToSet(read)} = {Tier0(p, e.files[p]) : p \in ToSet(read)}
  BY <1>1
<1> QED BY <1>1, <1>3, <1>4 DEF BuildGraph, read

-----------------------------------------------------------------------------
(***************************************************************************)
(* The cache and the commands that use it.                                 *)
(***************************************************************************)

TextOf(at, limits, ignored) == SourceDocuments(ApplyIgnores(BuildGraph(at, limits), ignored))

\* What is saved is the text of what its fingerprint was taken of.
Honest(saved) ==
    ~saved.overtaken /\ saved.covered =>
        \E at : /\ saved.print = Fingerprint(at, saved.limits) /\ Covered(at, saved.limits)
                /\ saved.records = TextOf(at, saved.limits, saved.ignored)

IsQuery(r) == Routed(r.command.given) = "query"

Started == {"at", "command", "limits", "ignored", "overtaken"}
Saving == {"save", "save_records", "save_core"}
Indexing == {"load_core", "lexical", "fill_lexical", "answered"} \cup Saving

HasPrint(r) ==
    "print" \in DOMAIN r /\ "printed" \in DOMAIN r /\ r.print = Fingerprint(r.printed, r.limits)

HasBoth(r) == HasPrint(r) /\ "seen" \in DOMAIN r /\ (~r.overtaken => r.seen = r.printed)

\* An index is built from what was read, or taken from what was saved under
\* the fingerprint taken.
IsBuilt(r) == r.index.from = "build" /\ r.index.records = DocumentsRead(r)
IsCached(r) ==
    /\ r.index.from = "cache" /\ "saver" \in DOMAIN r
    /\ r.saver.print = r.print /\ r.index.records = r.saver.records /\ Honest(r.saver)

HasIndex(r) ==
    /\ "index" \in DOMAIN r /\ "from" \in DOMAIN r.index /\ "records" \in DOMAIN r.index
    /\ IsBuilt(r) \/ IsCached(r)

\* What a command knows of the files now, and of those it has looked at.
RunFits(r, held) ==
    /\ "at" \in DOMAIN r
    /\ r.at # "idle" => Started \subseteq DOMAIN r
    /\ r.at = "graph" /\ IsQuery(r) => HasPrint(r) /\ (~r.overtaken => r.printed = held)
    /\ r.at = "fingerprint_late" =>
         ~IsQuery(r) /\ "seen" \in DOMAIN r /\ (~r.overtaken => r.seen = held)
    /\ r.at \in {"load", "build"} \cup Indexing => HasBoth(r)
    /\ r.at \in Indexing => HasIndex(r)
    /\ r.at \in Saving => r.index.from = "build"

CacheInv ==
    /\ run = [w \in Processes |-> run[w]]
    /\ json.state = "saved" => Honest(json)
    /\ \A w \in Processes : RunFits(run[w], files)

LEMMA IdleFits == \A held : RunFits(Idle, held)
BY DEF RunFits, Idle, Indexing, Saving

LEMMA CacheInvInit == CommandInit => CacheInv
BY IdleFits DEF CommandInit, CacheInv, NoFile

LEMMA WithSets ==
    ASSUME NEW r, "at" \in DOMAIN r, NEW x, NEW more, "at" \notin DOMAIN more,
           NEW s, s = With([r EXCEPT !.at = x], more)
    PROVE  /\ DOMAIN s = DOMAIN r \cup DOMAIN more /\ s.at = x
           /\ \A k \in DOMAIN more : s[k] = more[k]
           /\ \A k \in DOMAIN r : k # "at" /\ k \notin DOMAIN more => s[k] = r[k]
BY DEF With

\* One command goes on, and the files and, unless it saves, the records stay.
LEMMA OneGoesOn ==
    ASSUME CacheInv, NEW w \in Processes, NEW s, run' = [run EXCEPT ![w] = s],
           RunFits(s, files), files' = files,
           json' = json \/ (json'.state = "saved" => Honest(json'))
    PROVE  CacheInv'
<1>1. run' = [v \in Processes |-> IF v = w THEN s ELSE run[v]]
  BY DEF CacheInv
<1>2. \A v \in Processes : run'[v] = IF v = w THEN s ELSE run[v]
  BY <1>1
<1>3. run' = [v \in Processes |-> run'[v]]
  BY <1>1, <1>2
<1> QED BY <1>2, <1>3 DEF CacheInv

LEMMA EditKeeps ==
    ASSUME CacheInv, NEW p \in Paths, Edit(p)
    PROVE  CacheInv'
<1>1. run' = [w \in Processes |->
                IF BetweenReads(w) THEN [run[w] EXCEPT !.overtaken = TRUE] ELSE run[w]]
  BY DEF Edit
<1>2. \A w \in Processes :
        run'[w] = IF BetweenReads(w) THEN [run[w] EXCEPT !.overtaken = TRUE] ELSE run[w]
  BY <1>1
<1>3. run' = [w \in Processes |-> run'[w]]
  BY <1>1, <1>2
<1>4. ASSUME NEW w \in Processes PROVE RunFits(run'[w], files')
  <2> DEFINE r == run[w]
             s == run'[w]
  <2>1. RunFits(r, files)
    BY DEF CacheInv
  <2>2. CASE BetweenReads(w)
    <3>1. /\ r.at = "fingerprint_late" \/ (r.at = "graph" /\ IsQuery(r))
          /\ s = [r EXCEPT !.overtaken = TRUE]
      BY <1>2, <2>2 DEF BetweenReads, Kind, IsQuery
    <3> HIDE DEF r, s
    <3>2. Started \subseteq DOMAIN r
      BY <2>1, <3>1 DEF RunFits
    <3>3. /\ DOMAIN s = DOMAIN r /\ s.overtaken = TRUE
          /\ \A k \in DOMAIN r : k # "overtaken" => s[k] = r[k]
      BY <3>1, <3>2 DEF Started
    <3>4. s.at = r.at /\ s.command = r.command /\ s.limits = r.limits
      BY <3>2, <3>3 DEF Started
    <3>5. HasPrint(r) => HasPrint(s)
      BY <3>3, <3>4 DEF HasPrint
    <3>6. IsQuery(s) = IsQuery(r)
      BY <3>4 DEF IsQuery
    <3> HIDE <3>1
    <3>7. r.at = "fingerprint_late" \/ (r.at = "graph" /\ IsQuery(r))
      BY <3>1
    <3>8. RunFits(s, files')
      BY <2>1, <3>2, <3>3, <3>4, <3>5, <3>6, <3>7 DEF RunFits, Indexing, Saving
    <3> QED BY <3>8 DEF s
  <2>3. CASE ~BetweenReads(w)
    <3>1. s = r /\ r.at # "fingerprint_late" /\ ~(r.at = "graph" /\ IsQuery(r))
      BY <1>2, <2>3 DEF BetweenReads, Kind, IsQuery
    <3> HIDE DEF r, s
    <3>2. RunFits(s, files')
      BY <2>1, <3>1 DEF RunFits
    <3> QED BY <3>2 DEF s
  <2> QED BY <2>2, <2>3
<1>5. json' = json
  BY DEF Edit, cache
<1> QED BY <1>3, <1>4, <1>5 DEF CacheInv

LEMMA StartKeeps ==
    ASSUME CacheInv, NEW w \in Processes, Start(w)
    PROVE  CacheInv'
<1>1. PICK command \in Commands, limits \in Limits :
        LET query == Routed(command.given) = "query" IN
        run' = [run EXCEPT ![w] =
          [at |-> IF query THEN "fingerprint" ELSE "graph", command |-> command,
           limits |-> limits, ignored |-> LoadedIgnores, overtaken |-> FALSE]]
  BY DEF Start
<1> DEFINE s == [at |-> IF Routed(command.given) = "query" THEN "fingerprint" ELSE "graph",
                 command |-> command, limits |-> limits, ignored |-> LoadedIgnores,
                 overtaken |-> FALSE]
<1>2. /\ DOMAIN s = Started /\ s.command = command
      /\ s.at = IF Routed(command.given) = "query" THEN "fingerprint" ELSE "graph"
  BY DEF Started
<1>3. run' = [run EXCEPT ![w] = s] /\ files' = files /\ json' = json
  BY <1>1 DEF Start, cache
<1> HIDE DEF s
<1>4. RunFits(s, files)
  BY <1>2 DEF RunFits, Started, IsQuery, Indexing, Saving
<1> QED BY <1>3, <1>4, OneGoesOn

LEMMA TakeFingerprintKeeps ==
    ASSUME CacheInv, NEW w \in Processes, TakeFingerprint(w)
    PROVE  CacheInv'
<1> DEFINE r == run[w]
           x == CASE r.at = "fingerprint" -> "graph"
                  [] r.at # "fingerprint" /\ Kind(w) = "index" -> "build"
                  [] OTHER -> "load"
           more == [print |-> Fingerprint(files, r.limits), printed |-> files]
           s == With([r EXCEPT !.at = x], more)
<1>1. /\ r.at \in {"fingerprint", "fingerprint_late"}
      /\ run' = [run EXCEPT ![w] = s] /\ files' = files /\ json' = json
  BY DEF TakeFingerprint, Goto, cache
<1>2. RunFits(r, files)
  BY DEF CacheInv
<1>3. \/ r.at = "fingerprint" /\ x = "graph"
      \/ r.at = "fingerprint_late" /\ x \in {"build", "load"}
  BY <1>1
<1>4. /\ DOMAIN more = {"print", "printed"}
      /\ more.print = Fingerprint(files, r.limits) /\ more.printed = files
  OBVIOUS
<1> HIDE DEF r, x, more
<1>5. Started \subseteq DOMAIN r /\ "at" \in DOMAIN r
  BY <1>2, <1>3 DEF RunFits, Started
<1>6. /\ DOMAIN s = DOMAIN r \cup DOMAIN more /\ s.at = x
      /\ \A k \in DOMAIN more : s[k] = more[k]
      /\ \A k \in DOMAIN r : k # "at" /\ k \notin DOMAIN more => s[k] = r[k]
  BY <1>4, <1>5, WithSets
<1> HIDE DEF s
<1>7. /\ s.print = Fingerprint(files, r.limits) /\ s.printed = files
      /\ s.limits = r.limits /\ s.command = r.command /\ s.overtaken = r.overtaken
      /\ "seen" \in DOMAIN r => s.seen = r.seen
  BY <1>4, <1>5, <1>6 DEF Started
<1>8. HasPrint(s) /\ IsQuery(s) = IsQuery(r)
  BY <1>4, <1>6, <1>7 DEF HasPrint, IsQuery
<1>9. RunFits(s, files)
  BY <1>2, <1>3, <1>4, <1>5, <1>6, <1>7, <1>8 DEF RunFits, HasBoth, Indexing, Saving
<1> QED BY <1>1, <1>9, OneGoesOn

LEMMA ReadCorpusKeeps ==
    ASSUME CacheInv, NEW w \in Processes, ReadCorpus(w)
    PROVE  CacheInv'
<1> DEFINE r == run[w]
           x == CASE Kind(w) = "query" -> "load"
                  [] Kind(w) \in {"index", "review"} -> "fingerprint_late"
                  [] OTHER -> "shown"
           y == Shown(Kind(w), ApplyIgnores(BuildGraph(files, r.limits), r.ignored))
           more == [seen |-> files, shown |-> y]
           s == With([r EXCEPT !.at = x], more)
<1>1. r.at = "graph" /\ run' = [run EXCEPT ![w] = s] /\ files' = files /\ json' = json
  BY DEF ReadCorpus, Goto, cache
<1>2. RunFits(r, files)
  BY DEF CacheInv
<1>3. \/ IsQuery(r) /\ x = "load"
      \/ ~IsQuery(r) /\ x \in {"fingerprint_late", "shown"}
  BY DEF IsQuery, Kind
<1>4. DOMAIN more = {"seen", "shown"} /\ more.seen = files
  OBVIOUS
<1> HIDE DEF r, x, y, more
<1>5. Started \subseteq DOMAIN r /\ "at" \in DOMAIN r
  BY <1>1, <1>2 DEF RunFits, Started
<1>6. /\ DOMAIN s = DOMAIN r \cup DOMAIN more /\ s.at = x
      /\ \A k \in DOMAIN more : s[k] = more[k]
      /\ \A k \in DOMAIN r : k # "at" /\ k \notin DOMAIN more => s[k] = r[k]
  BY <1>4, <1>5 DEF With
<1> HIDE DEF s
<1>7. s.seen = files /\ s.limits = r.limits /\ s.command = r.command /\ s.overtaken = r.overtaken
  BY <1>4, <1>5, <1>6 DEF Started
<1>8. IsQuery(s) = IsQuery(r)
  BY <1>7 DEF IsQuery
<1>9. HasPrint(r) => HasPrint(s) /\ s.printed = r.printed
  BY <1>4, <1>6, <1>7 DEF HasPrint
<1>10. RunFits(s, files)
  BY <1>1, <1>2, <1>3, <1>4, <1>5, <1>6, <1>7, <1>8, <1>9 DEF RunFits, HasBoth, Indexing, Saving
<1> QED BY <1>1, <1>10, OneGoesOn

\* What is left of a run that goes on with an index for the same documents.
LEMMA IndexGoesOn ==
    ASSUME NEW held, NEW r, RunFits(r, held), r.at \in Indexing, NEW x \in Indexing,
           NEW s, DOMAIN s = DOMAIN r, s.at = x,
           \A k \in DOMAIN r : k \notin {"at", "index"} => s[k] = r[k],
           DOMAIN r.index \subseteq DOMAIN s.index,
           s.index.from = r.index.from, s.index.records = r.index.records,
           x \in Saving => r.index.from = "build"
    PROVE  RunFits(s, held)
<1>1. Started \subseteq DOMAIN r /\ HasBoth(r) /\ HasIndex(r)
  BY DEF RunFits, Indexing, Saving
<1>2. s.limits = r.limits /\ s.command = r.command /\ s.overtaken = r.overtaken
      /\ s.ignored = r.ignored
  BY <1>1 DEF Started
<1>3. s.print = r.print /\ s.printed = r.printed /\ s.seen = r.seen
  BY <1>1 DEF HasBoth, HasPrint
<1>4. HasBoth(s)
  BY <1>1, <1>2, <1>3 DEF HasBoth, HasPrint
<1>5. HasIndex(s)
  <2>1. CASE IsBuilt(r)
    <3>1. DocumentsRead(s) = DocumentsRead(r)
      BY <1>2, <1>3 DEF DocumentsRead
    <3> QED BY <1>1, <2>1, <3>1 DEF HasIndex, IsBuilt
  <2>2. CASE IsCached(r)
    <3>1. s.saver = r.saver
      BY <2>2 DEF IsCached
    <3> QED BY <1>1, <1>3, <2>2, <3>1 DEF HasIndex, IsCached
  <2> QED BY <1>1, <2>1, <2>2 DEF HasIndex
<1> QED BY <1>1, <1>4, <1>5 DEF RunFits, Indexing, Saving

LEMMA LoadRecordsKeeps ==
    ASSUME CacheInv, NEW w \in Processes, LoadRecords(w)
    PROVE  CacheInv'
<1> DEFINE r == run[w]
<1>1. r.at = "load" /\ files' = files /\ json' = json
  BY DEF LoadRecords, cache
<1>2. RunFits(r, files)
  BY DEF CacheInv
<1>3. CASE json.state = "saved" /\ json.print = run[w].print
  <2> DEFINE index == [from |-> "cache", records |-> json.records]
             more == [index |-> index, saver |-> json]
             s == With([r EXCEPT !.at = "load_core"], more)
  <2>1. run' = [run EXCEPT ![w] = s]
    BY <1>3 DEF LoadRecords, Goto
  <2>2. DOMAIN index = {"from", "records"} /\ index.from = "cache" /\ index.records = json.records
    OBVIOUS
  <2> HIDE DEF index
  <2>3. DOMAIN more = {"index", "saver"} /\ more.index = index /\ more.saver = json
    OBVIOUS
  <2>4. json.print = r.print /\ Honest(json)
    BY <1>3 DEF CacheInv
  <2> HIDE DEF r, more
  <2>5. Started \subseteq DOMAIN r /\ "at" \in DOMAIN r /\ HasBoth(r)
    BY <1>1, <1>2 DEF RunFits, Started
  <2>6. /\ DOMAIN s = DOMAIN r \cup DOMAIN more /\ s.at = "load_core"
        /\ \A k \in DOMAIN more : s[k] = more[k]
        /\ \A k \in DOMAIN r : k # "at" /\ k \notin DOMAIN more => s[k] = r[k]
    BY <2>3, <2>5 DEF With
  <2> HIDE DEF s
  <2>7. s.index = index /\ s.saver = json /\ s.limits = r.limits /\ s.overtaken = r.overtaken
    BY <2>3, <2>5, <2>6 DEF Started
  <2>8. s.print = r.print /\ s.printed = r.printed /\ s.seen = r.seen
    BY <2>3, <2>5, <2>6 DEF HasBoth, HasPrint
  <2>9. HasBoth(s)
    BY <2>5, <2>6, <2>7, <2>8 DEF HasBoth, HasPrint
  <2>10. HasIndex(s)
    BY <2>2, <2>3, <2>4, <2>6, <2>7, <2>8 DEF HasIndex, IsCached
  <2>11. RunFits(s, files)
    BY <2>5, <2>6, <2>9, <2>10 DEF RunFits, Indexing, Saving
  <2> QED BY <1>1, <2>1, <2>11, OneGoesOn
<1>4. CASE ~(json.state = "saved" /\ json.print = run[w].print)
  <2> DEFINE s == With([r EXCEPT !.at = "build"], <<>>)
  <2>1. run' = [run EXCEPT ![w] = s]
    BY <1>4 DEF LoadRecords, Goto
  <2> HIDE DEF r
  <2>2. Started \subseteq DOMAIN r /\ "at" \in DOMAIN r /\ HasBoth(r)
    BY <1>1, <1>2 DEF RunFits, Started
  <2>3. /\ DOMAIN s = DOMAIN r /\ s.at = "build"
        /\ \A k \in DOMAIN r : k # "at" => s[k] = r[k]
    BY <2>2 DEF With
  <2> HIDE DEF s
  <2>4. s.limits = r.limits /\ s.overtaken = r.overtaken
    BY <2>2, <2>3 DEF Started
  <2>5. HasBoth(s)
    BY <2>2, <2>3, <2>4 DEF HasBoth, HasPrint
  <2>6. RunFits(s, files)
    BY <2>2, <2>3, <2>5 DEF RunFits, Indexing, Saving
  <2> QED BY <1>1, <2>1, <2>6, OneGoesOn
<1> QED BY <1>3, <1>4

LEMMA BuildIndexKeeps ==
    ASSUME CacheInv, NEW w \in Processes, BuildIndex(w)
    PROVE  CacheInv'
<1> DEFINE r == run[w]
           text == DocumentsRead(r)
           index == [from |-> "build", records |-> text, core |-> text]
           more == [index |-> index]
           s == With([r EXCEPT !.at = "lexical"], more)
<1>1. r.at = "build" /\ run' = [run EXCEPT ![w] = s] /\ files' = files /\ json' = json
  BY DEF BuildIndex, Goto, cache
<1>2. RunFits(r, files)
  BY DEF CacheInv
<1>3. /\ DOMAIN index = {"from", "records", "core"} /\ index.from = "build"
      /\ index.records = DocumentsRead(r)
  OBVIOUS
<1> HIDE DEF index
<1>4. DOMAIN more = {"index"} /\ more.index = index
  OBVIOUS
<1> HIDE DEF r, more
<1>5. Started \subseteq DOMAIN r /\ "at" \in DOMAIN r /\ HasBoth(r)
  BY <1>1, <1>2 DEF RunFits, Started
<1>6. /\ DOMAIN s = DOMAIN r \cup DOMAIN more /\ s.at = "lexical"
      /\ \A k \in DOMAIN more : s[k] = more[k]
      /\ \A k \in DOMAIN r : k # "at" /\ k \notin DOMAIN more => s[k] = r[k]
  BY <1>4, <1>5 DEF With
<1> HIDE DEF s
<1>7. s.index = index /\ s.limits = r.limits /\ s.overtaken = r.overtaken /\ s.ignored = r.ignored
  BY <1>4, <1>5, <1>6 DEF Started
<1>8. s.print = r.print /\ s.printed = r.printed /\ s.seen = r.seen
  BY <1>4, <1>5, <1>6 DEF HasBoth, HasPrint
<1>9. HasBoth(s)
  BY <1>5, <1>6, <1>7, <1>8 DEF HasBoth, HasPrint
<1>10. DocumentsRead(s) = DocumentsRead(r)
  BY <1>7, <1>8 DEF DocumentsRead
<1>11. HasIndex(s)
  BY <1>3, <1>4, <1>6, <1>7, <1>10 DEF HasIndex, IsBuilt
<1>12. RunFits(s, files)
  BY <1>5, <1>6, <1>9, <1>11 DEF RunFits, Indexing, Saving
<1> QED BY <1>1, <1>12, OneGoesOn

LEMMA IndexGrows ==
    ASSUME NEW held, NEW r, RunFits(r, held), r.at \in Indexing, NEW x \in Indexing,
           x \in Saving => r.index.from = "build",
           NEW part, "from" \notin DOMAIN part, "records" \notin DOMAIN part
    PROVE  RunFits(With([r EXCEPT !.at = x], [index |-> With(r.index, part)]), held)
<1> DEFINE index == With(r.index, part)
           more == [index |-> index]
           s == With([r EXCEPT !.at = x], more)
<1>1. Started \subseteq DOMAIN r /\ "at" \in DOMAIN r /\ HasIndex(r)
  BY DEF RunFits, Started, Indexing, Saving
<1>2. /\ DOMAIN r.index \subseteq DOMAIN index /\ index.from = r.index.from
      /\ index.records = r.index.records
  BY <1>1 DEF HasIndex, With
<1> HIDE DEF index
<1>3. DOMAIN more = {"index"} /\ more.index = index
  OBVIOUS
<1> HIDE DEF more
<1>4. /\ DOMAIN s = DOMAIN r /\ s.at = x /\ s.index = index
      /\ \A k \in DOMAIN r : k \notin {"at", "index"} => s[k] = r[k]
  BY <1>1, <1>3 DEF With, HasIndex
<1> HIDE DEF s
<1>5. RunFits(s, held)
  BY <1>2, <1>4, IndexGoesOn
<1> QED BY <1>5 DEF s, more, index

LEMMA IndexMoves ==
    ASSUME NEW held, NEW r, RunFits(r, held), r.at \in Indexing, NEW x \in Indexing,
           x \in Saving => r.index.from = "build"
    PROVE  RunFits(With([r EXCEPT !.at = x], <<>>), held)
<1> DEFINE s == With([r EXCEPT !.at = x], <<>>)
<1>1. "at" \in DOMAIN r
  BY DEF RunFits
<1>2. DOMAIN s = DOMAIN r /\ s.at = x /\ \A k \in DOMAIN r : k # "at" => s[k] = r[k]
  BY <1>1 DEF With
<1> HIDE DEF s
<1>3. s.index = r.index
  BY <1>2 DEF RunFits, HasIndex
<1>4. RunFits(s, held)
  BY <1>2, <1>3, IndexGoesOn
<1> QED BY <1>4 DEF s

LEMMA LoadCoreKeeps ==
    ASSUME CacheInv, NEW w \in Processes, LoadCore(w)
    PROVE  CacheInv'
<1> DEFINE r == run[w]
           s == With([r EXCEPT !.at = "lexical"],
                     [index |-> With(r.index, [core |-> LoadedCore(r.index.records)])])
<1>1. r.at = "load_core" /\ run' = [run EXCEPT ![w] = s] /\ files' = files /\ json' = json
  BY DEF LoadCore, Goto, cache
<1>2. RunFits(s, files)
  <2> DEFINE part == [core |-> LoadedCore(r.index.records)]
             x == "lexical"
  <2>1. RunFits(r, files) /\ r.at \in Indexing
    BY <1>1 DEF CacheInv, Indexing
  <2>2. x \in Indexing /\ x \notin Saving
    BY DEF Indexing, Saving
  <2>3. "from" \notin DOMAIN part /\ "records" \notin DOMAIN part
    OBVIOUS
  <2>4. s = With([r EXCEPT !.at = x], [index |-> With(r.index, part)])
    OBVIOUS
  <2> HIDE DEF r, part, x, s
  <2> QED BY <2>1, <2>2, <2>3, <2>4, IndexGrows
<1> HIDE DEF s
<1> QED BY <1>1, <1>2, OneGoesOn

LEMMA OpenLexicalKeeps ==
    ASSUME CacheInv, NEW w \in Processes, OpenLexical(w)
    PROVE  CacheInv'
<1> DEFINE r == run[w]
           x == AfterLexical(w)
<1>1. r.at = "lexical" /\ files' = files /\ json' = json
  BY DEF OpenLexical
<1>2. RunFits(r, files)
  BY DEF CacheInv
<1>3. x \in Indexing /\ (x \in Saving => r.index.from = "build")
  BY DEF AfterLexical, Indexing, Saving
<1>4. CASE lexical.state = "saved"
  <2> DEFINE s == With([r EXCEPT !.at = x],
                       [index |-> With(r.index, [lexical |-> lexical.documents])])
  <2>1. run' = [run EXCEPT ![w] = s]
    BY <1>4 DEF OpenLexical, Goto
  <2>2. RunFits(s, files)
    <3> HIDE DEF r, x
    <3> QED BY <1>1, <1>2, <1>3, IndexGrows DEF Indexing
  <2> HIDE DEF s
  <2> QED BY <1>1, <2>1, <2>2, OneGoesOn
<1>5. CASE lexical.state # "saved"
  <2> DEFINE s == With([r EXCEPT !.at = "fill_lexical"], <<>>)
  <2>1. run' = [run EXCEPT ![w] = s]
    BY <1>5 DEF OpenLexical, Goto
  <2>2. RunFits(s, files)
    <3> HIDE DEF r
    <3> QED BY <1>1, <1>2, IndexMoves DEF Indexing, Saving
  <2> HIDE DEF s
  <2> QED BY <1>1, <2>1, <2>2, OneGoesOn
<1> QED BY <1>4, <1>5

LEMMA FillLexicalKeeps ==
    ASSUME CacheInv, NEW w \in Processes, FillLexical(w)
    PROVE  CacheInv'
<1> DEFINE r == run[w]
           x == AfterLexical(w)
           s == With([r EXCEPT !.at = x],
                     [index |-> With(r.index, [lexical |-> r.index.records])])
<1>1. r.at = "fill_lexical" /\ run' = [run EXCEPT ![w] = s] /\ files' = files /\ json' = json
  BY DEF FillLexical, Goto
<1>2. RunFits(r, files)
  BY DEF CacheInv
<1>3. x \in Indexing /\ (x \in Saving => r.index.from = "build")
  BY DEF AfterLexical, Indexing, Saving
<1>4. RunFits(s, files)
  <2> HIDE DEF r, x
  <2> QED BY <1>1, <1>2, <1>3, IndexGrows DEF Indexing
<1> HIDE DEF s
<1> QED BY <1>1, <1>4, OneGoesOn

LEMMA TruncateRecordsKeeps ==
    ASSUME CacheInv, NEW w \in Processes, TruncateRecords(w)
    PROVE  CacheInv'
<1> DEFINE r == run[w]
           s == With([r EXCEPT !.at = "save_records"], <<>>)
<1>1. /\ r.at = "save" /\ run' = [run EXCEPT ![w] = s] /\ files' = files
      /\ json'.state # "saved"
  BY DEF TruncateRecords, Goto, Torn
<1>2. RunFits(s, files)
  <2>1. RunFits(r, files)
    BY DEF CacheInv
  <2>2. r.index.from = "build"
    BY <1>1, <2>1 DEF RunFits, Saving
  <2> HIDE DEF r
  <2> QED BY <1>1, <2>1, <2>2, IndexMoves DEF Indexing, Saving
<1> HIDE DEF s
<1> QED BY <1>1, <1>2, OneGoesOn

LEMMA SaveRecordsKeeps ==
    ASSUME CacheInv, NEW w \in Processes, SaveRecords(w)
    PROVE  CacheInv'
<1> DEFINE r == run[w]
           s == With([r EXCEPT !.at = "save_core"], <<>>)
           covered == Covered(r.printed, r.limits)
           value == [print |-> r.print, records |-> r.index.records,
                     limits |-> r.limits, ignored |-> r.ignored,
                     overtaken |-> r.overtaken, covered |-> covered]
<1>1. /\ r.at = "save_records" /\ run' = [run EXCEPT ![w] = s] /\ files' = files
      /\ json' = Saved(value)
  BY DEF SaveRecords, Goto
<1>2. RunFits(r, files)
  BY DEF CacheInv
<1>3. RunFits(s, files)
  <2>1. r.index.from = "build"
    BY <1>1, <1>2 DEF RunFits, Saving
  <2> HIDE DEF r
  <2> QED BY <1>1, <1>2, <2>1, IndexMoves DEF Indexing, Saving
<1>4. Honest(json')
  <2> HIDE DEF covered
  <2>1. /\ json'.print = r.print /\ json'.records = r.index.records
        /\ json'.limits = r.limits /\ json'.ignored = r.ignored
        /\ json'.overtaken = r.overtaken /\ json'.covered = covered
    BY <1>1 DEF Saved, With
  <2> HIDE DEF value
  <2>2. HasBoth(r) /\ HasIndex(r) /\ r.index.from = "build"
    BY <1>1, <1>2 DEF RunFits, Indexing, Saving
  <2> SUFFICES ASSUME ~r.overtaken, covered
               PROVE  /\ r.print = Fingerprint(r.printed, r.limits) /\ Covered(r.printed, r.limits)
                      /\ r.index.records = TextOf(r.printed, r.limits, r.ignored)
    BY <2>1 DEF Honest
  <2>3. r.seen = r.printed /\ r.print = Fingerprint(r.printed, r.limits)
    BY <2>2 DEF HasBoth, HasPrint
  <2>4. r.index.records = DocumentsRead(r)
    BY <2>2 DEF HasIndex, IsBuilt, IsCached
  <2> QED BY <2>3, <2>4 DEF DocumentsRead, TextOf, covered
<1> HIDE DEF s
<1> QED BY <1>1, <1>3, <1>4, OneGoesOn

LEMMA SaveCoreKeeps ==
    ASSUME CacheInv, NEW w \in Processes, SaveCore(w) \/ SaveFails(w)
    PROVE  CacheInv'
<1> DEFINE r == run[w]
           s == With([r EXCEPT !.at = "answered"], <<>>)
<1>1. /\ r.at \in Saving /\ run' = [run EXCEPT ![w] = s] /\ files' = files /\ json' = json
  BY DEF SaveCore, SaveFails, Goto, cache, Saving
<1>2. RunFits(s, files)
  <2>1. RunFits(r, files)
    BY DEF CacheInv
  <2> HIDE DEF r
  <2> QED BY <1>1, <2>1, IndexMoves DEF Indexing, Saving
<1> HIDE DEF s
<1> QED BY <1>1, <1>2, OneGoesOn

LEMMA EndKeeps ==
    ASSUME CacheInv, NEW w \in Processes, Crash(w) \/ End(w)
    PROVE  CacheInv'
<1>1. run' = [run EXCEPT ![w] = Idle] /\ files' = files /\ json' = json
  BY DEF Crash, End, cache
<1> QED BY <1>1, IdleFits, OneGoesOn

LEMMA CacheInvStep == CacheInv /\ [CommandNext]_commandVars => CacheInv'
<1> SUFFICES ASSUME CacheInv, [CommandNext]_commandVars PROVE CacheInv'
  OBVIOUS
<1>1. ASSUME NEW p \in Paths, Edit(p) PROVE CacheInv'
  BY <1>1, EditKeeps
<1>2. CASE Configure \/ UNCHANGED commandVars
  BY <1>2 DEF Configure, commandVars, cache, CacheInv
<1>3. ASSUME NEW w \in Processes, Step(w) PROVE CacheInv'
  BY <1>3, StartKeeps, TakeFingerprintKeeps, ReadCorpusKeeps, LoadRecordsKeeps, LoadCoreKeeps,
     BuildIndexKeeps, OpenLexicalKeeps, FillLexicalKeeps, TruncateRecordsKeeps, SaveRecordsKeeps,
     SaveCoreKeeps, EndKeeps DEF Step
<1> QED BY <1>1, <1>2, <1>3 DEF CommandNext

LEMMA CachedIsCurrent == CacheInv => CachedTextIsCurrent
<1> SUFFICES ASSUME CacheInv, NEW w \in Processes,
                    run[w].at \in {"lexical", "fill_lexical", "answered"},
                    run[w].index.from = "cache", ~run[w].saver.overtaken, run[w].saver.covered,
                    Covered(run[w].printed, run[w].limits),
                    run[w].saver.limits = run[w].limits, run[w].saver.ignored = run[w].ignored
             PROVE  run[w].index.records = TextOf(run[w].printed, run[w].limits, run[w].ignored)
  BY DEF CachedTextIsCurrent, TextOf
<1> DEFINE r == run[w]
<1>1. RunFits(r, files)
  BY DEF CacheInv
<1>2. HasBoth(r) /\ HasIndex(r)
  BY <1>1 DEF RunFits, Indexing
<1>3. /\ r.saver.print = r.print /\ r.index.records = r.saver.records /\ Honest(r.saver)
      /\ r.print = Fingerprint(r.printed, r.limits)
  BY <1>2 DEF HasIndex, IsBuilt, IsCached, HasBoth, HasPrint
<1>4. PICK then : /\ r.saver.print = Fingerprint(then, r.limits) /\ Covered(then, r.limits)
                  /\ r.saver.records = TextOf(then, r.limits, r.ignored)
  BY <1>3 DEF Honest
<1> DEFINE c == [files |-> then, limits |-> r.limits]
           e == [files |-> r.printed, limits |-> r.limits]
<1>5. Alike(c, e)
  BY <1>3, <1>4 DEF Alike
<1>6. BuildGraph(c.files, c.limits) = BuildGraph(e.files, e.limits)
  BY <1>5, SameGraph
<1>7. BuildGraph(then, r.limits) = BuildGraph(r.printed, r.limits)
  BY <1>6
<1> QED BY <1>3, <1>4, <1>7 DEF TextOf

(* Whatever is edited, killed or not saved, and whatever commands overlap:  *)
(* the text a query takes from the cache is the text of the files it took   *)
(* its fingerprint of, on the conditions CachedTextIsCurrent names.         *)
THEOREM CachedTextIsCurrentHolds == CommandSpec => []CachedTextIsCurrent
<1> QED BY CacheInvInit, CacheInvStep, CachedIsCurrent, PTL DEF CommandSpec

-----------------------------------------------------------------------------
(***************************************************************************)
(* What a review reports: the search along the edges of the graph finds    *)
(* every page that a chain of links leads to.                              *)
(***************************************************************************)

\* The pages that are not ignored.
PageStep(c, i, list) ==
    IF c.pages[i].path \in c.ignored THEN list ELSE Append(list, c.pages[i])
PagesKept(c, s, list) == list \in Seq(ToSet(c.pages))

\* What an edge leads to from what was reached, a link from what it was on.
ReachStep(c, k, s) == s \cup {e[2] : e \in {f \in c.edges : f[1] \in s}}
ChainStep(c, k, s) == s \cup {j \in DOMAIN c : \E i \in s : c[j].concept \in c[i].links}

Filtering == INSTANCE FoldTheorems WITH Step <- PageStep, Choice <- LastOf, Inv <- PagesKept
Reaching == INSTANCE FoldTheorems WITH Step <- ReachStep, Choice <- LastOf, Inv <- Always
Chaining == INSTANCE FoldTheorems WITH Step <- ChainStep, Choice <- LastOf, Inv <- Always

LEMMA IgnoresOnlyDrop ==
    ASSUME NEW graph, NEW ignored, "pages" \in DOMAIN graph,
           NEW n \in Nat, DOMAIN graph.pages = 1 .. n
    PROVE  LET less == ApplyIgnores(graph, ignored) IN
           /\ less.pages \in Seq(ToSet(graph.pages))
           /\ DOMAIN less = DOMAIN graph
           /\ \A k \in DOMAIN graph : k \notin {"pages", "tier0"} => less[k] = graph[k]
<1> DEFINE less == ApplyIgnores(graph, ignored)
           c == [pages |-> graph.pages, ignored |-> ignored]
<1>1. less.pages = Filtering!Fold(c, <<>>, 1 .. n)
  <2>1. less.pages = FoldLeft(LAMBDA kept, p : IF p.path \in ignored THEN kept ELSE Append(kept, p),
                              <<>>, graph.pages)
    BY DEF ApplyIgnores
  <2>2. @ = Filtering!Fold(c, <<>>, DOMAIN graph.pages)
    BY DEF FoldLeft, MapThenFoldSet, Max, Filtering!Fold, PageStep, LastOf
  <2> QED BY <2>1, <2>2
<1>2. /\ DOMAIN less = DOMAIN graph
      /\ \A k \in DOMAIN graph : k \notin {"pages", "tier0"} => less[k] = graph[k]
  BY DEF ApplyIgnores
<1>3. IsFiniteSet(1 .. n)
  BY FS_Interval
<1>4. Filtering!Chooses(1 .. n)
  BY LastOfIsIn DEF Filtering!Chooses
<1>5. PagesKept(c, {}, <<>>)
  BY DEF PagesKept
<1>6. ASSUME NEW s \in SUBSET (1 .. n), NEW list, s # {}, PagesKept(c, s \ {LastOf(s)}, list)
      PROVE  PagesKept(c, s, PageStep(c, LastOf(s), list))
  <2> DEFINE i == LastOf(s)
             E == ToSet(c.pages)
             x == c.pages[i]
  <2>1. i \in DOMAIN c.pages
    BY <1>6, LastOfIsIn
  <2> HIDE DEF i, c
  <2>2. x \in E
    BY <2>1 DEF ToSet
  <2>3. list \in Seq(E)
    BY <1>6 DEF PagesKept
  <2> HIDE DEF E
  <2>4. Append(list, x) \in Seq(E)
    BY <2>2, <2>3
  <2>5. PageStep(c, i, list) \in Seq(E)
    BY <2>3, <2>4 DEF PageStep
  <2> QED BY <2>5 DEF PagesKept, E, i
<1>7. PagesKept(c, 1 .. n, Filtering!Fold(c, <<>>, 1 .. n))
  <2>1. \A s \in SUBSET (1 .. n) : \A list :
          s # {} /\ PagesKept(c, s \ {LastOf(s)}, list) => PagesKept(c, s, PageStep(c, LastOf(s), list))
    BY <1>6
  <2> HIDE DEF c
  <2> QED BY <1>3, <1>4, <1>5, <2>1, Filtering!FoldInduction DEF Filtering!IsFiniteSet, IsFiniteSet
<1> HIDE DEF less
<1> QED BY <1>1, <1>2, <1>7 DEF PagesKept, less

LEMMA ReadPaths ==
    ASSUME NEW at, NEW limits
    PROVE  Walked(at, limits) \in Seq(Paths)
<1> DEFINE c == [files |-> at, limits |-> limits]
<1>1. PICK tr : IsReading(c, tr) /\ Walked(c.files, c.limits) = tr[Len(Walk)].read
  BY WalksHaveTraces DEF IsReading
<1>2. Len(Walk) \in 0 .. Len(Walk)
  BY WalkIsInjective
<1>3. IsRead(c, Len(Walk), tr[Len(Walk)])
  <2> HIDE DEF c
  <2> QED BY <1>1, <1>2, StatesAreRead
<1>4. Walked(c.files, c.limits) = Walked(at, limits)
  OBVIOUS
<1> HIDE DEF c
<1> QED BY <1>1, <1>3, <1>4 DEF IsRead

LEMMA PagesAreRead ==
    ASSUME NEW at, NEW limits
    PROVE  LET pages == BuildGraph(at, limits).pages IN
           /\ Len(pages) \in Nat /\ DOMAIN pages = 1 .. Len(pages)
           /\ \A i \in DOMAIN pages : pages[i] = Page(pages[i].path, at[pages[i].path])
<1> DEFINE read == Walked(at, limits)
           pages == [i \in DOMAIN read |-> Page(read[i], at[read[i]])]
<1>3. read \in Seq(Paths)
  BY ReadPaths
<1>4. BuildGraph(at, limits).pages = pages
  BY DEF BuildGraph, GraphOf
<1> HIDE DEF read
<1>5. Len(read) \in Nat /\ DOMAIN read = 1 .. Len(read)
  BY <1>3
<1>6. DOMAIN pages = 1 .. Len(read) /\ Len(pages) = Len(read)
  BY <1>5
<1>7. \A i \in DOMAIN pages : pages[i] = Page(read[i], at[read[i]]) /\ pages[i].path = read[i]
  BY DEF Page
<1> HIDE DEF pages
<1> QED BY <1>4, <1>5, <1>6, <1>7

LEMMA EndsOf == \A n \in Nat : \A k \in 1 .. n : LastOf(1 .. k) = k
<1> SUFFICES ASSUME NEW n \in Nat, NEW k \in 1 .. n PROVE LastOf(1 .. k) = k
  OBVIOUS
<1>1. k \in Nat /\ k # 0
  OBVIOUS
<1> QED BY <1>1, LastOfIsEnd

\* What a chain of links leads to, the search along the edges finds.
LEMMA ChainsAreFound ==
    ASSUME NEW graph, NEW pages, NEW roots, NEW first \in SUBSET DOMAIN pages,
           Len(pages) \in Nat, graph.pageCount = Len(pages), graph.edges = LinkEdges(pages),
           \A i \in first : NodeOf(pages, pages[i].concept) \in roots
    PROVE  \A i \in ChainsFrom(pages, first) :
              i \in DOMAIN pages /\ NodeOf(pages, pages[i].concept) \in Reached(graph, roots)
<1> DEFINE n == Len(pages)
           node(i) == NodeOf(pages, pages[i].concept)
<1>1. ChainsFrom(pages, first) = Chaining!Iterated(pages, first, n)
  BY DEF ChainsFrom, Chaining!Iterated, ChainStep
<1>2. Reached(graph, roots) = Reaching!Iterated(graph, roots, n)
  BY DEF Reached, Reaching!Iterated, ReachStep
<1>3. n \in Nat /\ \A k \in 1 .. n : LastOf(1 .. k) = k
  BY EndsOf
<1> HIDE DEF n
<1>4. Chaining!Chooses(1 .. n) /\ Reaching!Chooses(1 .. n)
  BY <1>3, LastOfIsIn DEF Chaining!Chooses, Reaching!Chooses
<1>5. PICK t : Chaining!IsTrace(pages, first, n, t) /\ Chaining!Iterated(pages, first, n) = t[n]
  BY <1>3, <1>4, Chaining!IterationHasTrace
<1>6. PICK u : Reaching!IsTrace(graph, roots, n, u) /\ Reaching!Iterated(graph, roots, n) = u[n]
  BY <1>3, <1>4, Reaching!IterationHasTrace
<1> DEFINE T == {k \in Nat : k <= n => \A i \in t[k] : i \in DOMAIN pages /\ node(i) \in u[k]}
<1>7. 0 \in T
  <2>1. t[0] = first /\ u[0] = roots
    BY <1>5, <1>6 DEF Chaining!IsTrace, Reaching!IsTrace
  <2>2. \A i \in first : i \in DOMAIN pages /\ node(i) \in roots
    OBVIOUS
  <2> HIDE DEF node
  <2> QED BY <2>1, <2>2
<1>8. ASSUME NEW k \in Nat, k < n, k \in T PROVE k + 1 \in T
  <2>1. k + 1 \in 1 .. n /\ (k + 1) - 1 = k /\ k <= n
    BY <1>3, <1>8
  <2>2. t[k + 1] = ChainStep(pages, k + 1, t[k]) /\ u[k + 1] = ReachStep(graph, k + 1, u[k])
    BY <1>5, <1>6, <2>1 DEF Chaining!IsTrace, Reaching!IsTrace
  <2>3. \A i \in t[k] : i \in DOMAIN pages /\ node(i) \in u[k]
    BY <1>8, <2>1
  <2>4. ASSUME NEW j \in t[k + 1] PROVE j \in DOMAIN pages /\ node(j) \in u[k + 1]
    <3>1. CASE j \in t[k]
      BY <2>2, <2>3, <3>1 DEF ReachStep
    <3>2. CASE j \notin t[k]
      <4>1. j \in DOMAIN pages
        BY <2>2, <3>2 DEF ChainStep
      <4>2. PICK i \in t[k] : pages[j].concept \in pages[i].links
        BY <2>2, <3>2 DEF ChainStep
      <4>3. i \in DOMAIN pages /\ node(i) \in u[k]
        BY <2>3
      <4>4. pages[j].concept \in Concepts(pages)
        BY <4>1 DEF Concepts
      <4> DEFINE l == [path |-> pages[i].path, from |-> pages[i].concept, to |-> pages[j].concept]
      <4>5. l \in PageLinks(pages)
        BY <4>2, <4>3, <4>4 DEF PageLinks
      <4>6. <<node(i), node(j)>> \in graph.edges
        <5>1. <<NodeOf(pages, l.from), NodeOf(pages, l.to)>> \in LinkEdges(pages)
          <6> HIDE DEF l
          <6> QED BY <4>5 DEF LinkEdges
        <5> QED BY <5>1
      <4> HIDE DEF node
      <4>7. node(j) \in ReachStep(graph, k + 1, u[k])
        BY <4>3, <4>6 DEF ReachStep
      <4> QED BY <2>2, <4>1, <4>7
    <3> QED BY <3>1, <3>2
  <2> HIDE DEF node
  <2> QED BY <2>4
<1>9. n \in T
  <2> HIDE DEF T
  <2> QED BY <1>3, <1>7, <1>8, Chaining!StepsReach
<1> HIDE DEF node
<1>10. \A i \in t[n] : i \in DOMAIN pages /\ node(i) \in u[n]
  BY <1>3, <1>9
<1> QED BY <1>1, <1>2, <1>5, <1>6, <1>10 DEF node

LEMMA LeadsIsFound ==
    ASSUME NEW graph, NEW pages, NEW a, NEW b, Leads(pages, a, b),
           Len(pages) \in Nat, graph.pageCount = Len(pages), graph.edges = LinkEdges(pages)
    PROVE  NodeOf(pages, b) \in Reached(graph, {NodeOf(pages, a)})
<1> DEFINE first == PagesOf(pages, a)
           roots == {NodeOf(pages, a)}
<1>1. first \in SUBSET DOMAIN pages /\ \A i \in first : NodeOf(pages, pages[i].concept) \in roots
  BY DEF PagesOf
<1>2. PICK i \in ChainsFrom(pages, first) : pages[i].concept = b
  BY DEF Leads, PagesOf
<1> HIDE DEF first, roots
<1>3. NodeOf(pages, pages[i].concept) \in Reached(graph, roots)
  BY <1>1, <1>2, ChainsAreFound
<1> QED BY <1>2, <1>3 DEF roots

\* A graph without the ignored pages has the nodes and edges of the whole one.
IsGraphOf(graph, pages) ==
    /\ Len(pages) \in Nat /\ graph.pageCount = Len(pages) /\ graph.edges = LinkEdges(pages)
    /\ graph.nodes = [k \in Concepts(pages) |-> NodeOf(pages, k)]
    /\ graph.pages \in Seq(ToSet(pages))

LEMMA IgnoringKeepsTheGraph ==
    ASSUME NEW at, NEW limits, NEW ignored
    PROVE  IsGraphOf(ApplyIgnores(BuildGraph(at, limits), ignored), BuildGraph(at, limits).pages)
<1> DEFINE whole == BuildGraph(at, limits)
           pages == whole.pages
           graph == ApplyIgnores(whole, ignored)
<1>1. Len(pages) \in Nat /\ DOMAIN pages = 1 .. Len(pages)
  BY PagesAreRead
<1>2. /\ DOMAIN whole = {"pages", "tier0", "nodes", "links", "edges", "pageCount", "chunks",
                         "chunkEdges", "entities", "entityEdges"}
      /\ whole.nodes = [k \in Concepts(pages) |-> NodeOf(pages, k)]
      /\ whole.edges = LinkEdges(pages) /\ whole.pageCount = Len(pages)
  BY DEF BuildGraph, GraphOf
<1> HIDE DEF whole
<1>3. /\ graph.pages \in Seq(ToSet(pages))
      /\ graph.nodes = whole.nodes /\ graph.edges = whole.edges /\ graph.pageCount = whole.pageCount
  BY <1>1, <1>2, IgnoresOnlyDrop
<1> HIDE DEF graph, pages
<1>4. IsGraphOf(graph, pages)
  BY <1>1, <1>2, <1>3 DEF IsGraphOf
<1> QED BY <1>4 DEF graph, pages, whole

LEMMA ChainsAreReached ==
    ASSUME NEW graph, NEW pages, IsGraphOf(graph, pages),
           \A i, j \in DOMAIN pages : pages[i].path = pages[j].path => pages[i] = pages[j],
           NEW i \in ChainsFrom(pages, FirstPages(pages)),
           <<"unreachable", pages[i].path>> \in CheckOrphans(graph)
    PROVE  FALSE
<1> DEFINE roots == {graph.nodes[k] : k \in DOMAIN graph.nodes} \cap IndexPages
           found == Reached(graph, roots)
<1>1. FirstPages(pages) \in SUBSET DOMAIN pages
  BY DEF FirstPages
<1>2. \A k \in FirstPages(pages) : NodeOf(pages, pages[k].concept) \in roots
  BY DEF FirstPages, Concepts, IsGraphOf
<1>3. i \in DOMAIN pages /\ NodeOf(pages, pages[i].concept) \in found
  <2> HIDE DEF roots
  <2> QED BY <1>1, <1>2, ChainsAreFound DEF IsGraphOf
<1>4. PICK j \in DOMAIN graph.pages :
         /\ graph.pages[j].path = pages[i].path
         /\ graph.nodes[graph.pages[j].concept] \notin found
  BY DEF CheckOrphans
<1> HIDE DEF found
<1>5. graph.pages[j] \in ToSet(pages)
  BY <1>4 DEF IsGraphOf
<1>6. graph.pages[j] = pages[i]
  BY <1>3, <1>4, <1>5 DEF ToSet
<1>7. graph.nodes[pages[i].concept] = NodeOf(pages, pages[i].concept)
  BY <1>3 DEF Concepts, IsGraphOf
<1> QED BY <1>3, <1>4, <1>6, <1>7

\* What is reported missing: not the page's own, not linked, allowed, and of low
\* severity where links join it with the page both ways.
MissingIsRight(graph, pages, m) ==
    \E page \in ToSet(graph.pages) :
      /\ page.path = m[2] /\ m[3] \notin page.links \cup {page.concept}
      /\ Config.allowlist = {} \/ m[3] \in Config.allowlist
      /\ ~(OutDegree(graph, m[3]) * graph.pageCount >= Cardinality(graph.links))
           /\ Leads(pages, page.concept, m[3]) /\ Leads(pages, m[3], page.concept)
           => m[4] = "low"

LEMMA MissingAreRight ==
    ASSUME NEW graph, NEW pages, IsGraphOf(graph, pages), NEW m \in CheckCrossRefs(graph, Config)
    PROVE  MissingIsRight(graph, pages, m)
<1> DEFINE Reports(p, k) ==
             /\ m = <<"missing", p.path, k, Severity(graph, p, k)>>
             /\ k \notin p.links /\ k # p.concept
             /\ Config.allowlist = {} \/ k \in Config.allowlist
<1>1. \E p \in ToSet(graph.pages) : \E k : Reports(p, k)
  BY DEF CheckCrossRefs
<1>2. PICK p \in ToSet(graph.pages) : \E k : Reports(p, k)
  BY <1>1
<1>3. PICK k : Reports(p, k)
  BY <1>2
<1>4. m[2] = p.path /\ m[3] = k /\ m[4] = Severity(graph, p, k)
  BY <1>3
<1>5. ASSUME ~(OutDegree(graph, k) * graph.pageCount >= Cardinality(graph.links)),
             Leads(pages, p.concept, k), Leads(pages, k, p.concept)
      PROVE  Severity(graph, p, k) = "low"
  <2>1. /\ NodeOf(pages, k) \in Reached(graph, {NodeOf(pages, p.concept)})
        /\ NodeOf(pages, p.concept) \in Reached(graph, {NodeOf(pages, k)})
    BY <1>5, LeadsIsFound DEF IsGraphOf
  <2>2. k \in Concepts(pages) /\ p.concept \in Concepts(pages)
    BY <1>5 DEF Leads, PagesOf, Concepts
  <2>3. graph.nodes[k] = NodeOf(pages, k) /\ graph.nodes[p.concept] = NodeOf(pages, p.concept)
    BY <2>2 DEF IsGraphOf
  <2> QED BY <1>5, <2>1, <2>3 DEF Severity, SameComponent
<1> QED BY <1>3, <1>4, <1>5 DEF MissingIsRight

LEMMA ReportsAreRight == ReportedPagesAreCutOff
<1> SUFFICES ASSUME NEW w \in Processes
             PROVE  LET graph == ApplyIgnores(BuildGraph(run[w].seen, run[w].limits), run[w].ignored)
                        all   == BuildGraph(run[w].seen, run[w].limits).pages
                    IN  /\ \A i \in ChainsFrom(all, FirstPages(all)) :
                             <<"unreachable", all[i].path>> \notin CheckOrphans(graph)
                        /\ \A m \in CheckCrossRefs(graph, Config) : MissingIsRight(graph, all, m)
  BY DEF ReportedPagesAreCutOff, MissingIsRight
<1> DEFINE graph == ApplyIgnores(BuildGraph(run[w].seen, run[w].limits), run[w].ignored)
           all   == BuildGraph(run[w].seen, run[w].limits).pages
<1>1. IsGraphOf(graph, all)
  BY IgnoringKeepsTheGraph
<1>2. \A i, j \in DOMAIN all : all[i].path = all[j].path => all[i] = all[j]
  <2>1. \A i \in DOMAIN all : all[i] = Page(all[i].path, run[w].seen[all[i].path])
    BY PagesAreRead
  <2> HIDE DEF all
  <2> QED BY <2>1
<1> HIDE DEF graph, all
<1>3. \A i \in ChainsFrom(all, FirstPages(all)) :
         <<"unreachable", all[i].path>> \notin CheckOrphans(graph)
  BY <1>1, <1>2, ChainsAreReached
<1>4. \A m \in CheckCrossRefs(graph, Config) : MissingIsRight(graph, all, m)
  BY <1>1, MissingAreRight
<1> QED BY <1>3, <1>4 DEF graph, all

(* check_orphans and check_cross_refs, on any corpus, under any limits and  *)
(* ignores: no page that a chain of links leads to from an index page is    *)
(* called unreachable; no cross reference missing that a page has, that is  *)
(* to its own concept or out of the allowed ones; and none is of high       *)
(* severity for lying apart where chains of links lead there and back.      *)
THEOREM ReportedPagesAreCutOffHolds == CommandSpec => []ReportedPagesAreCutOff
<1> QED BY ReportsAreRight, PTL
================================================================================
