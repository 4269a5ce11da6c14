---------------------------- MODULE SegmentProofs ----------------------------
(***************************************************************************)
(* Theorems about SegmentQuery, for any finite documents published by      *)
(* group or by any manifest, any queries and limits, and any failures: no  *)
(* plan runs a segment twice or one without an allowed document, recovery  *)
(* only adds to the terms a plan covers, and an answer over every segment  *)
(* that calls itself complete was drawn from the best documents.  They     *)
(* rest on what the operators of Ranking, SegmentCatalog, SegmentRouting   *)
(* and SegmentExpansion return: sums that are numbers, rankings that list  *)
(* their set, routes that form a plan.                                     *)
(***************************************************************************)
EXTENDS SegmentQuery, FiniteSetTheorems, WellFoundedInduction, TLAPS

AddStep(c, x, v) == c[x] + v
AnyOf(s) == CHOOSE x \in s : TRUE
PartlySummed(c, s, v) ==
    /\ (\A x \in s : c[x] \in Int) => v \in Int
    /\ (\A x \in s : c[x] \in Nat) => v \in Nat /\ \A x \in s : v >= c[x]

Adding == INSTANCE FoldTheorems WITH Step <- AddStep, Choice <- AnyOf, Inv <- PartlySummed

LEMMA TotalIsFold == ASSUME NEW c PROVE Total(c) = Adding!Fold(c, 0, DOMAIN c)
BY DEF Total, Seqs!SumFunction, Seqs!SumFunctionOnSet, Seqs!FoldFunctionOnSet, Seqs!MapThenFoldSet,
   Adding!Fold, AddStep, AnyOf

LEMMA TotalType ==
    ASSUME NEW S, IsFiniteSet(S), NEW c \in [S -> Int]
    PROVE  /\ Total(c) \in Int
           /\ (\A x \in S : c[x] \in Nat) => Total(c) \in Nat /\ \A x \in S : Total(c) >= c[x]
<1>1. Adding!Chooses(S)
  BY DEF Adding!Chooses, AnyOf
<1>2. PartlySummed(c, {}, 0)
  BY DEF PartlySummed
<1>3. ASSUME NEW s \in SUBSET S, NEW v, s # {}, PartlySummed(c, s \ {AnyOf(s)}, v)
      PROVE  PartlySummed(c, s, AddStep(c, AnyOf(s), v))
  <2> DEFINE x == AnyOf(s)
  <2>1. x \in s /\ c[x] \in Int /\ \A y \in s : y = x \/ y \in s \ {x}
    BY <1>3 DEF AnyOf
  <2> HIDE DEF x
  <2>2. AddStep(c, x, v) = c[x] + v
    BY DEF AddStep
  <2>3. v \in Int
    BY <1>3 DEF PartlySummed, x
  <2>4. ASSUME \A y \in s : c[y] \in Nat
        PROVE  c[x] + v \in Nat /\ \A y \in s : c[x] + v >= c[y]
    <3>1. v \in Nat /\ \A y \in s \ {x} : v >= c[y]
      BY <1>3, <2>4 DEF PartlySummed, x
    <3>2. c[x] \in Nat /\ \A y \in s \ {x} : c[y] \in Nat
      BY <2>1, <2>4
    <3> QED BY <2>1, <3>1, <3>2
  <2>5. c[x] + v \in Int
    BY <2>1, <2>3
  <2> QED BY <2>2, <2>4, <2>5 DEF PartlySummed, x
<1>4. PartlySummed(c, S, Adding!Fold(c, 0, S))
  BY <1>1, <1>2, <1>3, Adding!FoldInduction DEF Adding!IsFiniteSet, IsFiniteSet
<1>5. Total(c) = Adding!Fold(c, 0, S)
  BY TotalIsFold
<1> QED BY <1>4, <1>5 DEF PartlySummed

-----------------------------------------------------------------------------
(* Rankings *)

TotalOn(R, S) ==
    /\ \A x \in S : <<x, x>> \notin R
    /\ \A x, y \in S : x # y => <<x, y>> \in R \/ <<y, x>> \in R
    /\ \A x, y, z \in S : <<x, y>> \in R /\ <<y, z>> \in R => <<x, z>> \in R

RankedBy(S, R) ==
    [i \in 1 .. Cardinality(S) |-> CHOOSE x \in S : Cardinality({y \in S : <<y, x>> \in R}) = i - 1]

LEMMA RankingIsExact ==
    ASSUME NEW S, IsFiniteSet(S), NEW R, TotalOn(R, S)
    PROVE  LET r == RankedBy(S, R) IN
           /\ DOMAIN r = 1 .. Cardinality(S)
           /\ Elements(r) = S
           /\ \A i, j \in DOMAIN r : i < j => <<r[i], r[j]>> \in R
           /\ \A i \in DOMAIN r : Cardinality({y \in S : <<y, r[i]>> \in R}) = i - 1
<1> DEFINE r == RankedBy(S, R)
           q == Adding!RankedBy(S, R)
<1>1. Adding!TotalOn(R, S) /\ Adding!IsFiniteSet(S)
  BY DEF TotalOn, Adding!TotalOn, Adding!IsFiniteSet, IsFiniteSet
<1>2. r = q /\ Elements(r) = Adding!Elements(q)
  BY DEF RankedBy, Adding!RankedBy, Elements, Adding!Elements, Adding!Cardinality, Cardinality
<1>3. Adding!Cardinality(S) = Cardinality(S)
  BY DEF Adding!Cardinality, Cardinality
<1> HIDE DEF r
<1>4. /\ DOMAIN q = 1 .. Adding!Cardinality(S) /\ Adding!Elements(q) = S
      /\ \A i, j \in DOMAIN q : i < j => <<q[i], q[j]>> \in R
  BY <1>1, Adding!RankingPlaces
<1>5. \A i \in DOMAIN q : Adding!Cardinality({y \in S : <<y, q[i]>> \in R}) = i - 1
  BY <1>1, Adding!RankingPlaces
<1> HIDE DEF q
<1>6. \A i \in DOMAIN q : Cardinality({y \in S : <<y, q[i]>> \in R}) = i - 1
  BY <1>5 DEF Adding!Cardinality, Cardinality
<1> QED BY <1>2, <1>3, <1>4, <1>6 DEF r

\* r lists the elements of S, each once.
Lists(r, S) ==
    /\ r \in Seq(S) /\ Len(r) = Cardinality(S) /\ Elements(r) = S
    /\ \A i, j \in DOMAIN r : i # j => r[i] # r[j]

LEMMA RankingLists ==
    ASSUME NEW S, IsFiniteSet(S), NEW R, TotalOn(R, S)
    PROVE  /\ Lists(RankedBy(S, R), S)
           /\ \A i, j \in DOMAIN RankedBy(S, R) : i < j => <<RankedBy(S, R)[i], RankedBy(S, R)[j]>> \in R
<1> DEFINE r == RankedBy(S, R)
<1>1. /\ DOMAIN r = 1 .. Cardinality(S) /\ Elements(r) = S
      /\ \A i, j \in DOMAIN r : i < j => <<r[i], r[j]>> \in R
  BY RankingIsExact
<1>2. \A x \in S : <<x, x>> \notin R
  BY DEF TotalOn
<1>3. r = [i \in 1 .. Cardinality(S) |-> r[i]]
  <2> DEFINE other(i) == CHOOSE x \in S : Cardinality({y \in S : <<y, x>> \in R}) = i - 1
  <2>1. r = [i \in 1 .. Cardinality(S) |-> other(i)]
    BY DEF RankedBy
  <2> HIDE DEF r, other
  <2> QED BY <2>1
<1> HIDE DEF r
<1>4. Cardinality(S) \in Nat
  BY FS_CardinalityType
<1>5. \A i \in DOMAIN r : r[i] \in S
  BY <1>1 DEF Elements
<1>6. r \in Seq(S) /\ Len(r) = Cardinality(S)
  BY <1>1, <1>3, <1>4, <1>5
<1>7. ASSUME NEW i \in DOMAIN r, NEW j \in DOMAIN r, i # j PROVE r[i] # r[j]
  <2>1. i < j \/ j < i
    BY <1>1, <1>7
  <2> QED BY <1>1, <1>2, <1>5, <2>1
<1> QED BY <1>1, <1>6, <1>7 DEF Lists, r

Heavier(S, w) == {p \in S \X S : w[p[1]] > w[p[2]] \/ (w[p[1]] = w[p[2]] /\ p[1] < p[2])}

LEMMA ByWeightLists ==
    ASSUME NEW S, IsFiniteSet(S), S \subseteq Int, NEW w \in [S -> Int]
    PROVE  /\ Lists(ByWeight(S, w), S)
           /\ \A i, j \in DOMAIN ByWeight(S, w) : i < j => w[ByWeight(S, w)[i]] >= w[ByWeight(S, w)[j]]
<1> DEFINE R == Heavier(S, w)
<1>1. \A x, y \in S : <<x, y>> \in R <=> w[x] > w[y] \/ (w[x] = w[y] /\ x < y)
  BY DEF Heavier
<1>2. \A x \in S : w[x] \in Int /\ x \in Int
  OBVIOUS
<1>3. ByWeight(S, w) = RankedBy(S, R)
  <2> DEFINE before(y, x) == w[y] > w[x] \/ (w[y] = w[x] /\ y < x)
             one(i) == CHOOSE x \in S : Cardinality({y \in S : before(y, x)}) = i - 1
             other(i) == CHOOSE x \in S : Cardinality({y \in S : <<y, x>> \in R}) = i - 1
  <2>1. \A x \in S : {y \in S : before(y, x)} = {y \in S : <<y, x>> \in R}
    BY <1>1
  <2>2. \A i \in 1 .. Cardinality(S) : one(i) = other(i)
    <3> HIDE DEF R, before
    <3> QED BY <2>1
  <2>3. ByWeight(S, w) = [i \in 1 .. Cardinality(S) |-> one(i)]
    BY DEF ByWeight, Ranked
  <2>4. RankedBy(S, R) = [i \in 1 .. Cardinality(S) |-> other(i)]
    BY DEF RankedBy
  <2> HIDE DEF one, other
  <2> QED BY <2>2, <2>3, <2>4
<1> HIDE DEF R
<1>4. TotalOn(R, S)
  <2>1. \A x, y, z \in S : <<x, y>> \in R /\ <<y, z>> \in R => <<x, z>> \in R
    BY <1>1, <1>2
  <2>2. \A x, y \in S : x # y => <<x, y>> \in R \/ <<y, x>> \in R
    BY <1>1, <1>2
  <2> QED BY <1>1, <1>2, <2>1, <2>2 DEF TotalOn
<1>5. Lists(RankedBy(S, R), S)
  BY <1>4, RankingLists
<1>6. \A i, j \in DOMAIN RankedBy(S, R) : i < j => <<RankedBy(S, R)[i], RankedBy(S, R)[j]>> \in R
  BY <1>4, RankingLists
<1> DEFINE r == RankedBy(S, R)
<1>7. \A i \in DOMAIN r : r[i] \in S
  BY <1>5 DEF Lists, Elements
<1>8. \A i, j \in DOMAIN r : i < j => w[r[i]] >= w[r[j]]
  <2> HIDE DEF r
  <2>1. \A i, j \in DOMAIN r : i < j => <<r[i], r[j]>> \in R
    BY <1>6 DEF r
  <2> SUFFICES ASSUME NEW i \in DOMAIN r, NEW j \in DOMAIN r, i < j PROVE w[r[i]] >= w[r[j]]
    OBVIOUS
  <2>2. <<r[i], r[j]>> \in R /\ r[i] \in S /\ r[j] \in S
    BY <1>7, <2>1
  <2> DEFINE x == r[i]
             y == r[j]
  <2>3. <<x, y>> \in R /\ x \in S /\ y \in S
    BY <2>2
  <2> HIDE DEF x, y
  <2>4. w[x] >= w[y]
    BY <1>1, <1>2, <2>3
  <2> QED BY <2>4 DEF x, y
<1> QED BY <1>3, <1>5, <1>8

(* Routes and lists of them *)

RouteSet(D) == [segment : D, score : Int]

OneEach(s) == \A i, j \in DOMAIN s : i # j => s[i].segment # s[j].segment

\* A list of routes to segments of D, no two to the same one.
IsPlan(s, D) == s \in Seq(RouteSet(D)) /\ OneEach(s)

\* At most one route of a set goes to a segment.
OneRouteEach(S) == \A a, b \in S : a.segment = b.segment => a = b

RouteBefore(a, b) == a.score > b.score \/ (a.score = b.score /\ a.segment < b.segment)

LEMMA ByRouteLists ==
    ASSUME NEW D \in SUBSET Int, NEW S \in SUBSET RouteSet(D), IsFiniteSet(S)
    PROVE  Lists(ByRoute(S), S) /\ (OneRouteEach(S) => IsPlan(ByRoute(S), D))
<1> DEFINE R == {p \in S \X S : RouteBefore(p[1], p[2])}
<1>1. \A x, y \in S : <<x, y>> \in R <=> RouteBefore(x, y)
  OBVIOUS
<1>2. \A x \in S : x.score \in Int /\ x.segment \in Int
  BY DEF RouteSet
<1>3. \A x, y \in S : x.score = y.score /\ x.segment = y.segment => x = y
  BY DEF RouteSet
<1>4. ByRoute(S) = RankedBy(S, R)
  <2> DEFINE one(i) == CHOOSE x \in S : Cardinality({y \in S : RouteBefore(y, x)}) = i - 1
             other(i) == CHOOSE x \in S : Cardinality({y \in S : <<y, x>> \in R}) = i - 1
  <2>1. \A x \in S : {y \in S : RouteBefore(y, x)} = {y \in S : <<y, x>> \in R}
    BY <1>1
  <2>2. \A i \in 1 .. Cardinality(S) : one(i) = other(i)
    <3> HIDE DEF R
    <3> QED BY <2>1
  <2>3. ByRoute(S) = [i \in 1 .. Cardinality(S) |-> one(i)]
    BY DEF ByRoute, Ranked, RouteBefore
  <2>4. RankedBy(S, R) = [i \in 1 .. Cardinality(S) |-> other(i)]
    BY DEF RankedBy
  <2> HIDE DEF one, other
  <2> QED BY <2>2, <2>3, <2>4
<1> HIDE DEF R
<1>5. TotalOn(R, S)
  <2>1. \A x, y, z \in S : RouteBefore(x, y) /\ RouteBefore(y, z) => RouteBefore(x, z)
    BY <1>2 DEF RouteBefore
  <2>2. \A x, y \in S : x # y => RouteBefore(x, y) \/ RouteBefore(y, x)
    BY <1>2, <1>3 DEF RouteBefore
  <2>3. \A x \in S : ~RouteBefore(x, x)
    BY <1>2 DEF RouteBefore
  <2> QED BY <1>1, <2>1, <2>2, <2>3 DEF TotalOn
<1>6. Lists(ByRoute(S), S)
  BY <1>4, <1>5, RankingLists
<1>7. ASSUME OneRouteEach(S) PROVE IsPlan(ByRoute(S), D)
  <2> DEFINE r == ByRoute(S)
  <2>1. r \in Seq(S) /\ (\A i \in DOMAIN r : r[i] \in S) /\ \A i, j \in DOMAIN r : i # j => r[i] # r[j]
    BY <1>6 DEF Lists, Elements
  <2> HIDE DEF r
  <2>2. r \in Seq(RouteSet(D))
    BY <2>1
  <2>3. OneEach(r)
    BY <1>7, <2>1 DEF OneEach, OneRouteEach
  <2> QED BY <2>2, <2>3 DEF IsPlan, r
<1> QED BY <1>6, <1>7

LEMMA TakeIsHead ==
    ASSUME NEW E, NEW s \in Seq(E), NEW n \in Nat
    PROVE  /\ Take(s, n) \in Seq(E)
           /\ Len(Take(s, n)) = (IF n <= Len(s) THEN n ELSE Len(s))
           /\ DOMAIN Take(s, n) = 1 .. Len(Take(s, n))
           /\ \A i \in DOMAIN Take(s, n) : i \in DOMAIN s /\ Take(s, n)[i] = s[i]
<1>1. Min({n, Len(s)}) = IF n <= Len(s) THEN n ELSE Len(s)
  BY DEF Min
<1> DEFINE m == IF n <= Len(s) THEN n ELSE Len(s)
<1>4. Take(s, n) = SubSeq(s, 1, m)
  BY <1>1 DEF Take
<1>2. m \in Nat /\ m <= Len(s) /\ Take(s, n) = SubSeq(s, 1, m)
  BY <1>4
<1> HIDE DEF m
<1>3. Len(Take(s, n)) = m
  BY <1>2
<1> QED BY <1>2, <1>3 DEF m

LEMMA TakePlan ==
    ASSUME NEW D, NEW s, IsPlan(s, D), NEW n \in Nat
    PROVE  IsPlan(Take(s, n), D) /\ Elements(Take(s, n)) \subseteq Elements(s)
<1> DEFINE t == Take(s, n)
<1>1. t \in Seq(RouteSet(D)) /\ \A i \in DOMAIN t : i \in DOMAIN s /\ t[i] = s[i]
  BY TakeIsHead DEF IsPlan
<1> HIDE DEF t
<1>2. OneEach(t)
  BY <1>1 DEF IsPlan, OneEach
<1>3. Elements(t) \subseteq Elements(s)
  BY <1>1 DEF Elements
<1> QED BY <1>1, <1>2, <1>3 DEF IsPlan, t

\* The order of indices.
LEMMA InOrder ==
    ASSUME NEW n \in Nat, NEW I \in SUBSET (1 .. n)
    PROVE  Lists(Ranked(I, LAMBDA i, j : i < j), I)
<1> DEFINE R == {p \in I \X I : p[1] < p[2]}
           r == Ranked(I, LAMBDA i, j : i < j)
<1>1. \A x, y \in I : <<x, y>> \in R <=> x < y
  OBVIOUS
<1>2. r = RankedBy(I, R)
  <2> DEFINE one(i) == CHOOSE x \in I : Cardinality({y \in I : y < x}) = i - 1
             other(i) == CHOOSE x \in I : Cardinality({y \in I : <<y, x>> \in R}) = i - 1
  <2>1. \A x \in I : {y \in I : y < x} = {y \in I : <<y, x>> \in R}
    BY <1>1
  <2>2. \A i \in 1 .. Cardinality(I) : one(i) = other(i)
    <3> HIDE DEF R
    <3> QED BY <2>1
  <2>3. r = [i \in 1 .. Cardinality(I) |-> one(i)]
    BY DEF Ranked
  <2>4. RankedBy(I, R) = [i \in 1 .. Cardinality(I) |-> other(i)]
    BY DEF RankedBy
  <2> HIDE DEF one, other
  <2> QED BY <2>2, <2>3, <2>4
<1> HIDE DEF R
<1>3. TotalOn(R, I)
  BY <1>1 DEF TotalOn
<1>4. IsFiniteSet(I)
  <2>1. IsFiniteSet(1 .. n)
    BY FS_Interval
  <2> HIDE DEF r, R
  <2> QED BY <2>1, FS_Subset
<1> QED BY <1>2, <1>3, <1>4, RankingLists

LEMMA WithinIsPart ==
    ASSUME NEW E, NEW s \in Seq(E), NEW T
    PROVE  /\ Within(s, T) \in Seq(E)
           /\ Elements(Within(s, T)) = Elements(s) \cap T
           /\ \A D : IsPlan(s, D) => IsPlan(Within(s, T), D)
<1> DEFINE I == {i \in DOMAIN s : s[i] \in T}
           at == Ranked(I, LAMBDA i, j : i < j)
           w == Within(s, T)
<1>1. I \in SUBSET (1 .. Len(s)) /\ Len(s) \in Nat /\ DOMAIN s = 1 .. Len(s)
  OBVIOUS
<1>2. Lists(at, I)
  <2> HIDE DEF I
  <2> QED BY <1>1, InOrder
<1>3. w = [k \in DOMAIN at |-> s[at[k]]]
  BY DEF Within
<1>4. \A i \in I : i \in DOMAIN s /\ s[i] \in T /\ s[i] \in E
  OBVIOUS
<1>5. \A i \in DOMAIN s : s[i] \in T => i \in I
  OBVIOUS
<1> HIDE DEF at, w, I
<1>6. /\ at \in Seq(I) /\ DOMAIN at = 1 .. Len(at) /\ Len(at) \in Nat /\ \A k \in DOMAIN at : at[k] \in I
      /\ \A i \in I : \E k \in DOMAIN at : at[k] = i
      /\ \A k, l \in DOMAIN at : k # l => at[k] # at[l]
  BY <1>2 DEF Lists, Elements
<1>7. DOMAIN w = DOMAIN at /\ \A k \in DOMAIN w : w[k] = s[at[k]]
  BY <1>3
<1>8. w \in Seq(E)
  BY <1>3, <1>4, <1>6
<1>9. Elements(w) = Elements(s) \cap T
  BY <1>4, <1>5, <1>6, <1>7 DEF Elements
<1>10. ASSUME NEW D, IsPlan(s, D) PROVE IsPlan(w, D)
  <2>1. \A k \in DOMAIN w : w[k] \in RouteSet(D)
    BY <1>4, <1>6, <1>7, <1>10 DEF IsPlan
  <2>2. w \in Seq(RouteSet(D))
    BY <1>3, <1>6, <1>7, <2>1
  <2>3. OneEach(w)
    BY <1>4, <1>6, <1>7, <1>10 DEF IsPlan, OneEach
  <2> QED BY <2>2, <2>3 DEF IsPlan
<1> QED BY <1>8, <1>9, <1>10 DEF w

-----------------------------------------------------------------------------
(* The types of weights and scores *)

\* A finite set of integers has a greatest.
LEMMA MaxIsIn ==
    ASSUME NEW S \in SUBSET Int, IsFiniteSet(S), S # {}
    PROVE  Max(S) \in S /\ \A y \in S : Max(S) >= y
<1> DEFINE w == [x \in S |-> x]
           r == ByWeight(S, w)
<1>1. S \subseteq Int /\ w \in [S -> Int]
  OBVIOUS
<1>2. Lists(r, S) /\ \A i, j \in DOMAIN r : i < j => w[r[i]] >= w[r[j]]
  <2> HIDE DEF w
  <2> QED BY <1>1, ByWeightLists
<1> HIDE DEF r
<1>3. /\ r \in Seq(S) /\ DOMAIN r = 1 .. Len(r) /\ Len(r) \in Nat
      /\ (\A i \in DOMAIN r : r[i] \in S) /\ \A x \in S : \E i \in DOMAIN r : r[i] = x
  BY <1>2 DEF Lists, Elements
<1>4. 1 \in DOMAIN r
  <2>1. PICK x \in S : TRUE
    OBVIOUS
  <2>2. PICK i \in DOMAIN r : r[i] = x
    BY <1>3, <2>1
  <2> QED BY <1>3, <2>2
<1>5. ASSUME NEW y \in S PROVE r[1] >= y
  <2>1. PICK i \in DOMAIN r : r[i] = y
    BY <1>3
  <2>2. i = 1 \/ 1 < i
    BY <1>3
  <2>3. 1 < i => w[r[1]] >= w[r[i]]
    BY <1>2, <1>4
  <2> QED BY <1>3, <1>4, <2>1, <2>2, <2>3
<1>6. r[1] \in S
  BY <1>3, <1>4
<1> HIDE DEF w
<1> QED BY <1>5, <1>6 DEF Max

LEMMA MaxOfTwo == ASSUME NEW a \in Int, NEW b \in Int PROVE Max({a, b}) = IF a >= b THEN a ELSE b
BY DEF Max

LEMMA AtMostType ==
    ASSUME NEW a \in Int, NEW b \in Int
    PROVE  AtMost(a, b) \in Int /\ AtMost(a, b) <= a /\ AtMost(a, b) <= b
           /\ (AtMost(a, b) = a \/ AtMost(a, b) = b)
<1>1. Min({a, b}) = IF a <= b THEN a ELSE b
  BY DEF Min
<1> QED BY <1>1 DEF AtMost

LEMMA NonNegativeType == ASSUME NEW a \in Int PROVE NonNegative(a) \in Nat
<1>1. NonNegative(a) = IF a >= 0 THEN a ELSE 0
  BY MaxOfTwo DEF NonNegative
<1> QED BY <1>1

\* The total of natural numbers, or of integers.
LEMMA TotalOfNat ==
    ASSUME NEW S, IsFiniteSet(S), NEW c \in [S -> Nat]
    PROVE  Total(c) \in Nat /\ \A x \in S : Total(c) >= c[x]
<1>1. c \in [S -> Int]
  OBVIOUS
<1> QED BY <1>1, TotalType

LEMMA TotalOfInt ==
    ASSUME NEW S, IsFiniteSet(S), NEW c \in [S -> Int]
    PROVE  Total(c) \in Int
BY TotalType

Weights == [Terms -> Nat]

LEMMA Shares ==
    ASSUME NEW a \in Nat, NEW b \in Nat \ {0}
    PROVE  a \div b \in Nat
OBVIOUS

LEMMA NormalisedType == ASSUME NEW d \in Weights PROVE Normalised(d) \in Weights
<1> DEFINE total == Total(d)
<1>1. IsFiniteSet(Terms) /\ d \in [Terms -> Nat] /\ DOMAIN d = Terms
  BY CatalogAssumption DEF Weights
<1>2. total \in Nat /\ \A t \in Terms : total >= d[t]
  BY <1>1, TotalOfNat
<1>3. d = [t \in Terms |-> d[t]]
  BY <1>1
<1>4. Sum(LAMBDA t : d[t], DOMAIN d) = total
  BY <1>1, <1>3 DEF Sum
<1> HIDE DEF total
<1>5. Normalised(d) = [t \in Terms |-> IF d[t] = 0 THEN 0 ELSE Max({1, (100 * d[t]) \div total})]
  BY <1>1, <1>4 DEF Normalised
<1>6. ASSUME NEW t \in Terms, d[t] # 0 PROVE Max({1, (100 * d[t]) \div total}) \in Nat
  <2>1. total \in Nat \ {0} /\ 100 * d[t] \in Nat
    BY <1>1, <1>2, <1>6
  <2>2. (100 * d[t]) \div total \in Nat
    BY <2>1, Shares
  <2> DEFINE q == (100 * d[t]) \div total
  <2> HIDE DEF q
  <2>3. Max({1, q}) = IF 1 >= q THEN 1 ELSE q
    BY <2>2, MaxOfTwo DEF q
  <2> QED BY <2>2, <2>3 DEF q
<1> QED BY <1>5, <1>6 DEF Weights

LEMMA RetainedType == ASSUME NEW d \in Weights, NEW n PROVE Retained(d, n) \in Weights
BY DEF Retained, Weights

LEMMA MergedType == ASSUME NEW d \in Weights, NEW e \in Weights PROVE Merged(d, e, 35) \in Weights
<1>1. ASSUME NEW t \in Terms PROVE Max({1, (e[t] * 35) \div 100}) \in Nat
  <2> DEFINE q == (e[t] * 35) \div 100
  <2>1. q \in Nat
    BY DEF Weights
  <2> HIDE DEF q
  <2>2. Max({1, q}) = IF 1 >= q THEN 1 ELSE q
    BY <2>1, MaxOfTwo
  <2> QED BY <2>1, <2>2 DEF q
<1>2. DOMAIN d = Terms /\ \A t \in Terms : d[t] \in Nat /\ e[t] \in Nat
  BY DEF Weights
<1> QED BY <1>1, <1>2 DEF Merged, Weights

LEMMA LnIsInt == ASSUME NEW n \in Nat \ {0} PROVE LnOf(n) \in Int
<1> DEFINE c == [k \in 7 .. n |-> 20000 \div (2 * k - 1)]
<1>1. IsFiniteSet(7 .. n) /\ n \in Int
  BY FS_Interval
<1>2. c \in [7 .. n -> Int]
  OBVIOUS
<1>4. Total(c) \in Int
  <2> HIDE DEF c
  <2> QED BY <1>1, <1>2, TotalOfInt
<1>5. LnOf(n) = IF n \in 1 .. 6 THEN <<0, 69, 110, 139, 161, 179>>[n] ELSE 179 + Total(c) \div 100
  BY DEF LnOf, Sum
<1> HIDE DEF c
<1>6. n \in 1 .. 6 => <<0, 69, 110, 139, 161, 179>>[n] \in Int
  OBVIOUS
<1> QED BY <1>4, <1>5, <1>6

LEMMA SqrtIsInt == ASSUME NEW n \in Nat PROVE SqrtOf(n) \in Int
<1> DEFINE m == 100 * n
           S == {r \in 0 .. m : r * r <= 10000 * n}
<1>1. m \in Nat /\ S \in SUBSET Int /\ 0 \in S
  OBVIOUS
<1>2. IsFiniteSet(S)
  <2>1. IsFiniteSet(0 .. m)
    <3> HIDE DEF m
    <3> QED BY <1>1, FS_Interval
  <2>2. S \in SUBSET (0 .. m)
    OBVIOUS
  <2> HIDE DEF S
  <2> QED BY <2>1, <2>2, FS_Subset
<1>3. SqrtOf(n) = Max(S)
  BY DEF SqrtOf
<1> HIDE DEF S
<1> QED BY <1>1, <1>2, <1>3, MaxIsIn

-----------------------------------------------------------------------------
(* The catalog of a corpus *)

LastOf(S) == Seqs!Max(S)
Anything(c, s, v) == TRUE
ActivityStep(c, i, v) == ActiveAfter(c[1], c[2], v, c[1].content[i])

Remembering == INSTANCE FoldTheorems WITH Step <- ActivityStep, Choice <- LastOf, Inv <- Anything

LEMMA LastOfInterval ==
    ASSUME NEW n \in Nat
    PROVE  /\ \A s \in SUBSET (1 .. n) : s # {} => LastOf(s) \in s
           /\ \A k \in 1 .. n : LastOf(1 .. k) = k
<1>1. ASSUME NEW s \in SUBSET (1 .. n), s # {} PROVE LastOf(s) \in s
  <2>1. PICK x \in s : \A y \in s : x >= y
    BY <1>1, Remembering!LastIndex
  <2> QED BY <2>1 DEF LastOf, Seqs!Max
<1>2. ASSUME NEW k \in 1 .. n PROVE LastOf(1 .. k) = k
  <2>1. k \in 1 .. k /\ \A y \in 1 .. k : k >= y
    OBVIOUS
  <2>2. \A x \in 1 .. k : (\A y \in 1 .. k : x >= y) => x = k
    OBVIOUS
  <2> QED BY <2>1, <2>2 DEF LastOf, Seqs!Max
<1> QED BY <1>1, <1>2

LEMMA ImportanceType ==
    ASSUME NEW doc, IsDocument(doc), NEW t \in Terms PROVE Importance(doc, t) \in Nat
BY DEF Importance, IsDocument

LEMMA ActiveAfterType ==
    ASSUME NEW doc, IsDocument(doc), NEW t \in Terms, NEW v \in Nat, NEW token \in Terms
    PROVE  ActiveAfter(doc, t, v, token) \in Nat
<1> DEFINE m == Importance(doc, token)
<1>1. m \in Nat
  BY ImportanceType
<1> HIDE DEF m
<1>2. (v * 82) \div 100 \in Nat /\ (m * 8) \div 100 \in Nat
  BY <1>1
<1> QED BY <1>1, <1>2 DEF ActiveAfter, m

LEMMA MemoryType == ASSUME NEW doc, IsDocument(doc) PROVE GatedLocalMemory(doc) \in Weights
<1> DEFINE n == Len(doc.content)
           Of(t) == Remembering!Iteration(<<doc, t>>, 0, n)
           memory == [t \in Terms |-> Total([i \in 1 .. n |-> Of(t)[i]])]
<1>1. n \in Nat /\ \A i \in 1 .. n : doc.content[i] \in Terms
  BY DEF IsDocument
<1>2. GatedLocalMemory(doc) = Normalised(Retained(Normalised(memory), MemoryLimit))
  BY DEF GatedLocalMemory, Remembering!Iteration, ActivityStep
<1> HIDE DEF n
<1>3. ASSUME NEW t \in Terms PROVE Total([i \in 1 .. n |-> Of(t)[i]]) \in Nat
  <2> DEFINE tr == Of(t)
  <2>1. Remembering!IsTrace(<<doc, t>>, 0, n, tr)
    <3>1. Remembering!Chooses(1 .. n) /\ \A k \in 1 .. n : LastOf(1 .. k) = k
      BY <1>1, LastOfInterval DEF Remembering!Chooses
    <3> QED BY <1>1, <3>1, Remembering!IterationIsTrace
  <2> HIDE DEF tr
  <2>2. tr[0] = 0 /\ \A k \in 1 .. n : tr[k] = ActiveAfter(doc, t, tr[k - 1], doc.content[k])
    BY <2>1 DEF Remembering!IsTrace, ActivityStep
  <2> DEFINE T == {k \in Nat : k <= n => tr[k] \in Nat}
  <2>3. 0 \in T
    BY <2>2
  <2>4. ASSUME NEW k \in Nat, k < n, k \in T PROVE k + 1 \in T
    <3>1. k + 1 \in 1 .. n /\ (k + 1) - 1 = k /\ tr[k] \in Nat
      BY <1>1, <2>4
    <3>2. tr[k + 1] = ActiveAfter(doc, t, tr[k], doc.content[k + 1])
      BY <2>2, <3>1
    <3>3. tr[k + 1] \in Nat
      BY <1>1, <3>1, <3>2, ActiveAfterType
    <3> QED BY <3>3
  <2>5. ASSUME NEW i \in 1 .. n PROVE tr[i] \in Nat
    <3>1. i \in Nat /\ i <= n
      BY <1>1
    <3>2. \A k \in Nat : k < i /\ k \in T => k + 1 \in T
      <4> HIDE DEF T
      <4> QED BY <1>1, <2>4, <3>1
    <3>3. i \in T
      <4> HIDE DEF T
      <4> QED BY <2>3, <3>1, <3>2, Remembering!StepsReach
    <3> QED BY <3>1, <3>3
  <2> DEFINE c == [i \in 1 .. n |-> tr[i]]
  <2>6. c \in [1 .. n -> Nat] /\ IsFiniteSet(1 .. n)
    BY <1>1, <2>5, FS_Interval
  <2>7. Total(c) \in Nat
    <3> HIDE DEF c
    <3> QED BY <2>6, TotalOfNat
  <2> QED BY <2>7 DEF tr
<1>4. memory \in Weights
  BY <1>3 DEF Weights
<1> HIDE DEF memory
<1> QED BY <1>2, <1>4, NormalisedType, RetainedType

IsSummary(m) ==
    m.terms \in Weights /\ m.entities \in Weights /\ m.topics \in Weights /\ m.memory \in Weights

LEMMA TotalsType ==
    ASSUME NEW docs, IsFiniteSet(docs), NEW f \in [docs -> Weights]
    PROVE  [t \in Terms |-> Total([d \in docs |-> f[d][t]])] \in Weights
<1>1. ASSUME NEW t \in Terms PROVE Total([d \in docs |-> f[d][t]]) \in Nat
  <2> DEFINE c == [d \in docs |-> f[d][t]]
  <2>1. c \in [docs -> Nat]
    BY DEF Weights
  <2>2. Total(c) \in Nat
    <3> HIDE DEF c
    <3> QED BY <2>1, TotalOfNat
  <2> QED BY <2>2
<1> QED BY <1>1 DEF Weights

LEMMA SummaryType ==
    ASSUME NEW docs, IsFiniteSet(docs), \A d \in docs : IsDocument(d)
    PROVE  IsSummary(Summary(docs))
<1> DEFINE all(f) == [t \in Terms |-> Total([d \in docs |-> f[d][t]])]
           a == [d \in docs |-> d.terms]
           b == [d \in docs |-> d.entities]
           g == [d \in docs |-> [t \in Terms |-> IF d.topic = t THEN 100 ELSE 0]]
           m == [d \in docs |-> Merged(NoWeight, GatedLocalMemory(d), 35)]
<1>1. a \in [docs -> Weights] /\ b \in [docs -> Weights]
  BY DEF IsDocument, Weights
<1>2. g \in [docs -> Weights]
  BY DEF Weights
<1>3. m \in [docs -> Weights]
  <2>1. NoWeight \in Weights
    BY DEF NoWeight, Weights
  <2> QED BY <2>1, MemoryType, MergedType
<1>4. Summary(docs) = [terms    |-> Normalised(all(a)),
                       entities |-> Normalised(all(b)),
                       topics   |-> Normalised(all(g)),
                       memory   |-> Normalised(Retained(Normalised(all(m)), MemoryLimit))]
  BY DEF Summary, Sum
<1> HIDE DEF a, b, g, m
<1>5. all(a) \in Weights /\ all(b) \in Weights /\ all(g) \in Weights /\ all(m) \in Weights
  BY <1>1, <1>2, <1>3, TotalsType
<1> HIDE DEF all
<1> QED BY <1>4, <1>5, NormalisedType, RetainedType DEF IsSummary

IsCorpus(C) ==
    /\ IsFiniteSet(DOMAIN C) /\ DOMAIN C \subseteq Nat
    /\ \A s \in DOMAIN C : IsFiniteSet(C[s]) /\ \A d \in C[s] : IsDocument(d)

IsProfile(p) == DOMAIN p = Kinds /\ \A k \in Kinds : IsFiniteSet(p[k])

IsCatalog(cat, D) ==
    /\ IsFiniteSet(D) /\ D \subseteq Nat
    /\ DOMAIN cat.summary = D /\ \A s \in D : IsSummary(cat.summary[s])
    /\ DOMAIN cat.profile = D /\ \A s \in D : IsProfile(cat.profile[s])
    /\ \A t \in Terms : cat.holders[t] \in SUBSET D

LEMMA FiniteTerms == ASSUME NEW S \in SUBSET Terms PROVE IsFiniteSet(S) /\ Cardinality(S) \in Nat
BY CatalogAssumption, FS_Subset, FS_CardinalityType

LEMMA ProfileType ==
    ASSUME NEW docs, IsFiniteSet(docs), \A d \in docs : IsDocument(d)
    PROVE  IsProfile(ConnectionProfile(docs))
<1> DEFINE p == ConnectionProfile(docs)
<1>1. \A d \in docs : /\ d.people \subseteq Terms /\ d.headings \subseteq Terms /\ d.temporal \subseteq Terms
                      /\ Support(d.terms) \subseteq Terms /\ Support(d.entities) \subseteq Terms
                      /\ d.topic \in Terms \cup {0}
  BY DEF IsDocument, Support
<1>2. p.people \in SUBSET Terms /\ p.subjects \in SUBSET Terms
  BY <1>1 DEF ConnectionProfile
<1>3. p.actions \in SUBSET Terms /\ p.objects \in SUBSET Terms
  BY <1>1, CatalogAssumption DEF ConnectionProfile
<1>4. IsFiniteSet(p.times)
  <2> DEFINE dated == {e \in docs : e.date > 0}
             days == {DateKey(d.date) : d \in dated}
             named == UNION {d.temporal : d \in docs}
             key == [d \in dated |-> DateKey(d.date)]
  <2>1. p.times = named \cup days
    BY DEF ConnectionProfile
  <2>2. named \in SUBSET Terms
    BY <1>1
  <2>3. dated \in SUBSET docs /\ key \in Surjection(dated, days)
    BY DEF Surjection
  <2>4. IsFiniteSet(days)
    <3> HIDE DEF dated, days, key
    <3> QED BY <2>3, FS_Subset, FS_Surjection
  <2> HIDE DEF named, days, p
  <2> QED BY <2>1, <2>2, <2>4, FiniteTerms, FS_Union, FS_Subset
<1>5. DOMAIN p = Kinds
  BY DEF ConnectionProfile, Kinds
<1> HIDE DEF p
<1> QED BY <1>2, <1>3, <1>4, <1>5, FiniteTerms DEF IsProfile, Kinds, p

LEMMA CatalogType ==
    ASSUME NEW C, IsCorpus(C)
    PROVE  IsCatalog(Catalog(C), DOMAIN C)
<1> DEFINE cat == Catalog(C)
<1>1. /\ cat.summary = [s \in DOMAIN C |-> Summary(C[s])]
      /\ cat.profile = [s \in DOMAIN C |-> ConnectionProfile(C[s])]
      /\ cat.holders = [t \in Terms |-> {s \in DOMAIN C : Covers(cat.summary[s], t)}]
  BY DEF Catalog
<1> HIDE DEF cat
<1>2. \A s \in DOMAIN C : IsSummary(Summary(C[s])) /\ IsProfile(ConnectionProfile(C[s]))
  BY SummaryType, ProfileType DEF IsCorpus
<1>3. \A s \in DOMAIN C : IsSummary(cat.summary[s]) /\ IsProfile(cat.profile[s])
  BY <1>1, <1>2
<1>4. \A t \in Terms : cat.holders[t] \in SUBSET DOMAIN C
  BY <1>1
<1> QED BY <1>1, <1>3, <1>4 DEF IsCatalog, IsCorpus, cat

-----------------------------------------------------------------------------
(* Scores are integers *)

LEMMA IdfType ==
    ASSUME NEW D, NEW cat, IsCatalog(cat, D), NEW t \in Terms
    PROVE  Idf(cat, t) \in Int
<1>1. SegmentIds(cat) = D /\ IsFiniteSet(D) /\ cat.holders[t] \in SUBSET D
  BY DEF IsCatalog, SegmentIds
<1>2. Cardinality(SegmentIds(cat)) \in Nat /\ Cardinality(cat.holders[t]) \in Nat
  BY <1>1, FS_Subset, FS_CardinalityType
<1>3. LnOf(Cardinality(SegmentIds(cat)) + 1) \in Int /\ LnOf(Cardinality(cat.holders[t]) + 1) \in Int
  BY <1>2, LnIsInt
<1> QED BY <1>3 DEF Idf

LEMMA TermWeights ==
    ASSUME NEW D, NEW cat, IsCatalog(cat, D), NEW s \in D, NEW t \in Terms
    PROVE  /\ LocalTermWeight(cat.summary[s], t) \in Nat
           /\ EvidenceMultiplier(cat.summary[s], t) \in Nat
           /\ Idf(cat, t) \in Int
<1> DEFINE m == cat.summary[s]
<1>1. m.terms[t] \in Nat /\ m.entities[t] \in Nat /\ m.topics[t] \in Nat /\ m.memory[t] \in Nat
  BY DEF IsCatalog, IsSummary, Weights
<1> HIDE DEF m
<1>2. LocalTermWeight(m, t) \in Nat
  BY <1>1 DEF LocalTermWeight
<1>3. EvidenceMultiplier(m, t) \in Nat
  BY DEF EvidenceMultiplier
<1> QED BY <1>2, <1>3, IdfType DEF m

LEMMA EvidenceWeightType ==
    ASSUME NEW D, NEW cat, IsCatalog(cat, D), NEW s \in D, NEW terms \in SUBSET Terms
    PROVE  EvidenceWeight(cat, s, terms) \in Int
<1> DEFINE c == [t \in terms |-> (LocalTermWeight(cat.summary[s], t) * Idf(cat, t)
                                    * EvidenceMultiplier(cat.summary[s], t)) \div 10000]
<1>1. c \in [terms -> Int] /\ IsFiniteSet(terms)
  BY TermWeights, FiniteTerms
<1>2. EvidenceWeight(cat, s, terms) = Total(c)
  BY DEF EvidenceWeight, Sum
<1> HIDE DEF c
<1> QED BY <1>1, <1>2, TotalOfInt

LEMMA RarityType ==
    ASSUME NEW D, NEW cat, IsCatalog(cat, D), NEW terms \in SUBSET Terms
    PROVE  Total([t \in terms |-> Idf(cat, t)]) \in Int
<1> DEFINE c == [t \in terms |-> Idf(cat, t)]
<1>3. c \in [terms -> Int] /\ IsFiniteSet(terms)
  BY IdfType, FiniteTerms
<1> HIDE DEF c
<1>4. Total(c) \in Int
  BY <1>3, TotalOfInt
<1> QED BY <1>4 DEF c

LEMMA RareShareType ==
    ASSUME NEW D, NEW cat, IsCatalog(cat, D), NEW part \in SUBSET Terms, NEW terms \in SUBSET Terms
    PROVE  RareShare(cat, part, terms) \in Int
<1> DEFINE a == Total([t \in part |-> Idf(cat, t)])
           b == Total([t \in terms |-> Idf(cat, t)])
<1>1. a \in Int /\ b \in Int
  BY RarityType
<1>2. RareShare(cat, part, terms) = (100 * a) \div Max({1, b})
  BY DEF RareShare, Sum
<1> HIDE DEF a, b
<1>3. Max({1, b}) = IF 1 >= b THEN 1 ELSE b
  BY <1>1, MaxOfTwo
<1>4. Max({1, b}) \in Nat \ {0}
  BY <1>1, <1>3
<1> QED BY <1>1, <1>2, <1>4

LEMMA TermShareType ==
    ASSUME NEW part \in SUBSET Terms, NEW terms \in SUBSET Terms, terms # {}
    PROVE  TermShare(part, terms) \in Nat
<1>1. Cardinality(part) \in Nat /\ Cardinality(terms) \in Nat /\ Cardinality(terms) # 0
  BY FiniteTerms, FS_EmptySet
<1> QED BY <1>1 DEF TermShare

LEMMA CoverageScoreType ==
    ASSUME NEW D, NEW cat, IsCatalog(cat, D), NEW s \in D, NEW terms \in SUBSET Terms
    PROVE  CoverageScore(cat, s, terms) \in Int
<1> DEFINE held == Held(cat, s, terms)
           rare == RareShare(cat, held, terms)
           n == Cardinality(held)
<1>1. held \in SUBSET terms /\ held \in SUBSET Terms
  BY DEF Held
<1> HIDE DEF held
<1>2. CASE held = {}
  BY <1>2 DEF CoverageScore, held
<1>3. CASE held # {}
  <2>1. rare \in Int /\ EvidenceWeight(cat, s, held) \in Int
    BY <1>1, RareShareType, EvidenceWeightType
  <2>2. TermShare(held, terms) \in Int
    BY <1>1, <1>3, TermShareType
  <2>3. n \in Nat /\ n - 1 \in Nat
    BY <1>1, <1>3, FiniteTerms, FS_EmptySet
  <2>4. SqrtOf(n - 1) \in Int
    BY <2>3, SqrtIsInt
  <2>5. CoverageScore(cat, s, terms)
          = (EvidenceWeight(cat, s, held) * (100 + rare)) \div 100 + 2 * rare
            + TermShare(held, terms) + (SqrtOf(n - 1) * 75) \div 100
    BY <1>3 DEF CoverageScore, held
  <2> HIDE DEF rare, n
  <2> QED BY <2>1, <2>2, <2>4, <2>5
<1> QED BY <1>2, <1>3

LEMMA SparseScoreType ==
    ASSUME NEW D, NEW cat, IsCatalog(cat, D), NEW s \in D, NEW terms \in SUBSET Terms
    PROVE  SparseOverlapScore(cat.summary[s], terms) \in Int
<1> DEFINE m == cat.summary[s]
           a == [t \in terms |-> m.terms[t]]
           b == [t \in terms |-> m.entities[t]]
           g == [t \in terms |-> m.topics[t]]
<1>1. SparseOverlapScore(m, terms) = Total(a) + (Total(b) * 130 + Total(g) * 70) \div 100
  BY DEF SparseOverlapScore, Sum
<1>2. a \in [terms -> Int] /\ b \in [terms -> Int] /\ g \in [terms -> Int] /\ IsFiniteSet(terms)
  BY FiniteTerms DEF IsCatalog, IsSummary, Weights
<1> HIDE DEF a, b, g
<1>3. Total(a) \in Int /\ Total(b) \in Int /\ Total(g) \in Int
  BY <1>2, TotalOfInt
<1> QED BY <1>1, <1>3

LEMMA DivergenceType ==
    ASSUME NEW D, NEW cat, IsCatalog(cat, D), NEW s \in D, NEW terms \in SUBSET Terms
    PROVE  KlDivergenceScore(cat.summary[s], terms) \in Int
<1> DEFINE m == cat.summary[s]
           raw == [t \in Terms |-> m.terms[t] + (m.entities[t] * 130 + m.topics[t] * 70
                                                  + m.memory[t] * 50 + 99) \div 100]
           combined == Normalised(raw)
           n == Cardinality(terms)
           c == [t \in terms |-> LnShare(combined[t]) - LnShare(100 \div n)]
<1>1. raw \in Weights
  <2>1. \A t \in Terms : m.terms[t] \in Nat /\ m.entities[t] \in Nat /\ m.topics[t] \in Nat /\ m.memory[t] \in Nat
    BY DEF IsCatalog, IsSummary, Weights
  <2>2. ASSUME NEW a \in Nat, NEW b \in Nat, NEW g \in Nat, NEW h \in Nat
        PROVE  a + (b * 130 + g * 70 + h * 50 + 99) \div 100 \in Nat
    <3>1. b * 130 + g * 70 + h * 50 + 99 \in Nat
      OBVIOUS
    <3> QED BY <3>1
  <2> HIDE DEF m
  <2>3. \A t \in Terms : m.terms[t] + (m.entities[t] * 130 + m.topics[t] * 70 + m.memory[t] * 50 + 99) \div 100 \in Nat
    BY <2>1, <2>2
  <2> QED BY <2>3 DEF Weights
<1>2. KlDivergenceScore(m, terms)
        = IF n = 0 THEN 0 ELSE IF Support(combined) = {} THEN NoScore ELSE Total(c) \div n
  BY DEF KlDivergenceScore, Sum
<1> HIDE DEF raw
<1>3. combined \in Weights
  BY <1>1, NormalisedType
<1> HIDE DEF combined
<1>4. n \in Nat /\ IsFiniteSet(terms)
  BY FiniteTerms
<1>5. \A p \in Nat : LnShare(p) \in Int
  BY DEF LnShare
<1>6. n # 0 => c \in [terms -> Int]
  <2> SUFFICES ASSUME n # 0, NEW t \in terms PROVE LnShare(combined[t]) - LnShare(100 \div n) \in Int
    OBVIOUS
  <2>1. 100 \div n \in Nat /\ combined[t] \in Nat
    BY <1>3, <1>4 DEF Weights
  <2>2. LnShare(100 \div n) \in Int /\ LnShare(combined[t]) \in Int
    BY <1>5, <2>1
  <2> QED BY <2>2
<1> HIDE DEF c, n
<1>7. n # 0 => Total(c) \in Int
  BY <1>4, <1>6, TotalOfInt
<1>8. NoScore \in Int
  BY DEF NoScore
<1> QED BY <1>2, <1>4, <1>7, <1>8

LEMMA LocalScoreType ==
    ASSUME NEW D, NEW cat, IsCatalog(cat, D), NEW s \in D, NEW terms \in SUBSET Terms
    PROVE  LocalDistinctivenessScore(cat, s, terms) \in Int
<1> DEFINE c == [t \in terms |-> LocalTermWeight(cat.summary[s], t) * Idf(cat, t)]
<1>1. c \in [terms -> Int] /\ IsFiniteSet(terms)
  BY TermWeights, FiniteTerms
<1>2. LocalDistinctivenessScore(cat, s, terms) = Total(c) \div 100
  BY DEF LocalDistinctivenessScore, Sum
<1> HIDE DEF c
<1>3. Total(c) \in Int
  BY <1>1, TotalOfInt
<1> QED BY <1>2, <1>3

LEMMA FiniteKinds == IsFiniteSet(Kinds) /\ \A S \in SUBSET Kinds : IsFiniteSet(S) /\ Cardinality(S) \in Nat
<1>1. Kinds = {"people"} \cup ({"subjects"} \cup ({"times"} \cup ({"actions"} \cup {"objects"})))
  BY DEF Kinds
<1>2. IsFiniteSet(Kinds)
  BY <1>1, FS_Singleton, FS_Union
<1> QED BY <1>2, FS_Subset, FS_CardinalityType

LEMMA SharedScoreType ==
    ASSUME NEW p, NEW q, IsProfile(p), NEW w, \A k \in Kinds : w[k] \in Nat
    PROVE  SharedScore(p, q, w) \in Nat
<1> DEFINE cap == [people |-> 3, subjects |-> 4, times |-> 2, actions |-> 3, objects |-> 4]
           n(k) == Cardinality(p[k] \cap q[k])
           c == [k \in Kinds |-> AtMost(n(k), cap[k]) * w[k]]
<1>1. SharedScore(p, q, w) = Total(c)
  BY DEF SharedScore, Sum
<1>2. \A k \in Kinds : cap[k] \in Nat
  BY DEF Kinds
<1>3. \A k \in Kinds : n(k) \in Nat
  <2> SUFFICES ASSUME NEW k \in Kinds PROVE n(k) \in Nat
    OBVIOUS
  <2>1. IsFiniteSet(p[k])
    BY DEF IsProfile
  <2>2. p[k] \cap q[k] \in SUBSET p[k]
    OBVIOUS
  <2> QED BY <2>1, <2>2, FS_Subset, FS_CardinalityType
<1> HIDE DEF cap, n
<1>4. ASSUME NEW k \in Kinds PROVE AtMost(n(k), cap[k]) * w[k] \in Nat
  <2>1. n(k) \in Nat /\ cap[k] \in Nat
    BY <1>2, <1>3
  <2> DEFINE a == n(k)
             b == cap[k]
  <2>5. a \in Int /\ b \in Int
    BY <2>1
  <2>3. AtMost(a, b) = a \/ AtMost(a, b) = b
    <3> HIDE DEF a, b
    <3> QED BY <2>5, AtMostType
  <2>2. \A u \in Nat, v \in Nat : u * v \in Nat
    OBVIOUS
  <2>4. AtMost(n(k), cap[k]) \in Nat /\ w[k] \in Nat
    BY <2>1, <2>3
  <2> QED BY <2>2, <2>4
<1>5. c \in [Kinds -> Nat]
  BY <1>4
<1> HIDE DEF c
<1> QED BY <1>1, <1>5, FiniteKinds, TotalOfNat

LEMMA TypedScoreType ==
    ASSUME NEW p, NEW q, IsProfile(p)
    PROVE  TypedEvidenceScore(p, q) \in Int
<1> DEFINE shared == SharedKinds(p, q)
           w == [people |-> 140, subjects |-> 75, times |-> 100, actions |-> 70, objects |-> 55]
           pair(kinds, bonus) == IF kinds \subseteq shared THEN bonus ELSE 0
           pairs == pair({"people"}, 100) + pair({"times"}, 80)
                    + pair({"subjects", "actions"}, 75) + pair({"subjects", "objects"}, 55)
                    + pair({"actions", "objects"}, 90)
<1>1. \A k \in Kinds : w[k] \in Nat
  BY DEF Kinds
<1>2. Cardinality(shared) \in Nat
  BY FiniteKinds DEF SharedKinds
<1>3. TypedEvidenceScore(p, q)
        = IF Cardinality(shared) < 2 \/ pairs = 0 THEN 0
          ELSE SharedScore(p, q, w) + pairs + (Cardinality(shared) - 1) * 35
  BY DEF TypedEvidenceScore
<1>4. pairs \in Int
  <2> HIDE DEF shared
  <2>1. \A kinds : \A b \in Nat : pair(kinds, b) \in Nat
    OBVIOUS
  <2> HIDE DEF pair
  <2> QED BY <2>1
<1> HIDE DEF pairs, w, shared
<1>5. SharedScore(p, q, w) \in Nat
  BY <1>1, SharedScoreType
<1> QED BY <1>2, <1>3, <1>4, <1>5

LEMMA ConnectionScoreType ==
    ASSUME NEW p, NEW q, IsProfile(p)
    PROVE  ConnectionScore(p, q) \in Nat
<1> DEFINE w == [people |-> 140, subjects |-> 90, times |-> 110, actions |-> 60, objects |-> 50]
<1>1. \A k \in Kinds : w[k] \in Nat
  BY DEF Kinds
<1>2. ConnectionScore(p, q) = SharedScore(p, q, w) \/ ConnectionScore(p, q) = 0
  BY DEF ConnectionScore
<1> HIDE DEF w
<1> QED BY <1>1, <1>2, SharedScoreType

LEMMA QueryProfileType ==
    ASSUME NEW q, q.terms \subseteq Terms, q.capitals \subseteq Terms
    PROVE  IsProfile(QueryProfile(q))
<1> DEFINE p == QueryProfile(q)
<1>1. \A k \in Kinds : p[k] \in SUBSET Terms
  BY DEF QueryProfile, Kinds
<1>2. DOMAIN p = Kinds
  BY DEF QueryProfile, Kinds
<1> HIDE DEF p
<1> QED BY <1>1, <1>2, FiniteTerms DEF IsProfile, p

-----------------------------------------------------------------------------
(* What a segment adds to a team *)

LEMMA TopTermsType == ASSUME NEW d \in Weights, NEW n \in Nat PROVE TopTerms(d, n) \in SUBSET Terms
<1> DEFINE S == Support(d)
           w == [t \in S |-> d[t]]
           r == ByWeight(S, w)
<1>1. S \in SUBSET Terms /\ S \subseteq Int /\ w \in [S -> Int]
  <2>1. S \in SUBSET Terms /\ Terms \subseteq Int
    BY CatalogAssumption DEF Support, Weights
  <2>2. \A t \in Terms : d[t] \in Int
    BY DEF Weights
  <2>3. \A t \in S : d[t] \in Int
    <3> HIDE DEF S
    <3> QED BY <2>1, <2>2
  <2> QED BY <2>1, <2>3
<1>2. TopTerms(d, n) = Elements(Take(r, n))
  BY DEF TopTerms, ByScore
<1> HIDE DEF w, S
<1>3. r \in Seq(S)
  BY <1>1, FiniteTerms, ByWeightLists DEF Lists
<1> HIDE DEF r
<1>4. Elements(Take(r, n)) \subseteq S
  <2>1. Take(r, n) \in Seq(S)
    BY <1>3, TakeIsHead
  <2> QED BY <2>1 DEF Elements
<1> QED BY <1>1, <1>2, <1>4

LEMMA CoverageGainType ==
    ASSUME NEW D, NEW cat, IsCatalog(cat, D), NEW s \in D, NEW terms \in SUBSET Terms, NEW covered
    PROVE  TeamCoverageGain(cat, s, terms, covered) \in Int
<1> DEFINE new == Held(cat, s, terms) \ covered
           rare == RareShare(cat, new, terms)
<1>1. new \in SUBSET terms /\ new \in SUBSET Terms
  BY DEF Held
<1> HIDE DEF new
<1>2. CASE new = {}
  BY <1>2 DEF TeamCoverageGain, new
<1>3. CASE new # {}
  <2>1. rare \in Int /\ EvidenceWeight(cat, s, new) \in Int
    BY <1>1, RareShareType, EvidenceWeightType
  <2>2. TermShare(new, terms) \in Int
    BY <1>1, <1>3, TermShareType
  <2>3. TeamCoverageGain(cat, s, terms, covered)
          = (EvidenceWeight(cat, s, new) * (100 + rare)) \div 100
            + (rare * 250) \div 100 + TermShare(new, terms)
    BY <1>3 DEF TeamCoverageGain, new
  <2> HIDE DEF rare
  <2> QED BY <2>1, <2>2, <2>3
<1> QED BY <1>2, <1>3

LEMMA TeamGainType ==
    ASSUME NEW D, NEW cat, IsCatalog(cat, D), NEW C, NEW s \in D, NEW terms \in SUBSET Terms, NEW team
    PROVE  TeamGain(cat, C, s, terms, team) \in Int
<1> DEFINE held == Held(cat, s, terms)
           new == held \ team.terms
           again == held \cap team.terms
           rare == RareShare(cat, new, terms)
           keys == EvidenceKeys(cat, s, held) \ team.evidence
           others == ConnectionTerms(cat.summary[s]) \ team.connections
           links == AtMost(Cardinality(others), 4)
           bonus == [entity |-> 75, local_memory |-> 65, topic |-> 45, term |-> 30]
           c == [k \in keys |-> (bonus[k[1]] * Idf(cat, k[2])) \div 100]
           weight == (EvidenceWeight(cat, s, new) * 135 + EvidenceWeight(cat, s, again) * 18) \div 100
                     + Total(c)
           timely == IF HasTemporalSignal(C[s]) /\ ~team.temporal THEN 90 ELSE 0
           Evidence == {"entity", "local_memory", "topic", "term"}
<1>1. new \in SUBSET Terms /\ again \in SUBSET Terms
  BY DEF Held
<1>2. keys \in SUBSET (Evidence \X Terms)
  BY DEF EvidenceKeys, EvidenceTypes, Held
<1>3. others \in SUBSET Terms
  BY TopTermsType DEF ConnectionTerms, IsCatalog, IsSummary
<1>4. TeamGain(cat, C, s, terms, team)
        = IF terms = {} THEN 0
          ELSE IF new = {} /\ keys = {} /\ links = 0 THEN timely
          ELSE (weight * (100 + rare)) \div 100 + (rare * 280) \div 100 + TermShare(new, terms)
               + Cardinality(keys) * 45 + links * 20 + timely
  BY DEF TeamGain, Sum
<1>5. \A k \in Evidence : bonus[k] \in Int
  OBVIOUS
<1>6. timely \in Int
  OBVIOUS
<1>7. IsFiniteSet(Evidence)
  <2>1. Evidence = {"entity"} \cup ({"local_memory"} \cup ({"topic"} \cup {"term"}))
    OBVIOUS
  <2> HIDE DEF Evidence
  <2> QED BY <2>1, FS_Singleton, FS_Union
<1> HIDE DEF held, new, again, keys, others, bonus, timely, Evidence
<1>8. IsFiniteSet(keys) /\ Cardinality(keys) \in Nat
  BY <1>2, <1>7, FiniteTerms, FS_Product, FS_Subset, FS_CardinalityType
<1>9. ASSUME NEW k \in keys PROVE (bonus[k[1]] * Idf(cat, k[2])) \div 100 \in Int
  <2>1. k[1] \in Evidence /\ k[2] \in Terms
    BY <1>2
  <2>2. bonus[k[1]] \in Int /\ Idf(cat, k[2]) \in Int
    BY <1>5, <2>1, IdfType
  <2> QED BY <2>2
<1>10. c \in [keys -> Int]
  BY <1>9
<1> HIDE DEF c
<1>11. Total(c) \in Int
  BY <1>8, <1>10, TotalOfInt
<1>12. rare \in Int /\ EvidenceWeight(cat, s, new) \in Int /\ EvidenceWeight(cat, s, again) \in Int
  BY <1>1, RareShareType, EvidenceWeightType
<1>13. terms # {} => TermShare(new, terms) \in Int
  BY <1>1, TermShareType
<1>14. links \in Int
  <2>1. Cardinality(others) \in Int
    BY <1>3, FiniteTerms
  <2> QED BY <2>1, AtMostType
<1> HIDE DEF links, rare
<1>15. weight \in Int
  BY <1>11, <1>12
<1> HIDE DEF weight
<1> QED BY <1>4, <1>6, <1>8, <1>12, <1>13, <1>14, <1>15

-----------------------------------------------------------------------------
(* The candidates of routing *)

LEMMA WeighedType ==
    ASSUME NEW S, IsFiniteSet(S), S \subseteq Int, NEW w \in [S -> Int], NEW n \in Nat
    PROVE  Take(ByWeight(S, w), n) \in Seq(S) /\ Elements(Take(ByWeight(S, w), n)) \subseteq S
<1> DEFINE r == ByWeight(S, w)
<1>1. r \in Seq(S)
  BY ByWeightLists DEF Lists
<1> HIDE DEF r
<1>2. Take(r, n) \in Seq(S)
  BY <1>1, TakeIsHead
<1> QED BY <1>2 DEF Elements, r

LEMMA PostingsType ==
    ASSUME NEW D, NEW cat, IsCatalog(cat, D), NEW t \in Terms
    PROVE  TopPostings(cat, t) \in SUBSET D
<1> DEFINE S == cat.holders[t]
           w == [s \in S |-> LocalTermWeight(cat.summary[s], t)]
<1>1. S \in SUBSET D /\ IsFiniteSet(D) /\ D \subseteq Nat
  BY DEF IsCatalog
<1>2. w \in [S -> Int]
  BY <1>1, TermWeights
<1>3. TopPostings(cat, t) = Elements(Take(ByWeight(S, w), PostingsPerTerm))
  BY DEF TopPostings, ByScore
<1>4. S \subseteq Int /\ IsFiniteSet(S) /\ PostingsPerTerm \in Nat
  BY <1>1, CatalogAssumption, FS_Subset
<1> HIDE DEF S, w
<1>5. Elements(Take(ByWeight(S, w), PostingsPerTerm)) \subseteq S
  BY <1>2, <1>4, WeighedType
<1> QED BY <1>1, <1>3, <1>5

LEMMA WiderSequence ==
    ASSUME NEW D, NEW S \in SUBSET D, NEW r \in Seq(S) PROVE r \in Seq(D)
<1>1. \A i \in 1 .. Len(r) : r[i] \in S
  OBVIOUS
<1>2. \A i \in 1 .. Len(r) : r[i] \in D
  BY <1>1
<1> QED BY <1>2

LEMMA BoundedType ==
    ASSUME NEW D, NEW cat, IsCatalog(cat, D), NEW terms \in SUBSET Terms
    PROVE  BoundedCandidates(cat, terms) \in Seq(D)
<1> DEFINE S == UNION {TopPostings(cat, t) : t \in terms}
           Of(s) == {t \in terms : s \in TopPostings(cat, t)}
           c(s) == [t \in Of(s) |-> LocalTermWeight(cat.summary[s], t) * Idf(cat, t)]
           w == [s \in S |-> Total(c(s))]
<1>1. S \in SUBSET D /\ IsFiniteSet(D) /\ D \subseteq Nat
  <2>1. \A t \in terms : TopPostings(cat, t) \in SUBSET D
    BY PostingsType
  <2>2. IsFiniteSet(D) /\ D \subseteq Nat
    BY DEF IsCatalog
  <2> QED BY <2>1, <2>2
<1>2. BoundedCandidates(cat, terms) = Take(ByWeight(S, w), PoolLimit)
  BY DEF BoundedCandidates, ByScore, Sum
<1>3. ASSUME NEW s \in S PROVE Total(c(s)) \in Int
  <2> DEFINE u == c(s)
             P == Of(s)
  <2>1. u \in [P -> Int]
    BY <1>1, TermWeights
  <2>2. IsFiniteSet(P)
    BY FiniteTerms
  <2> HIDE DEF u, P
  <2>3. Total(u) \in Int
    BY <2>1, <2>2, TotalOfInt
  <2> QED BY <2>3 DEF u
<1>4. w \in [S -> Int]
  BY <1>3
<1> HIDE DEF S, w, Of, c
<1>5. S \subseteq Int /\ IsFiniteSet(S) /\ PoolLimit \in Nat
  <2>1. S \in SUBSET D /\ IsFiniteSet(D)
    BY <1>1
  <2>2. S \subseteq Int
    BY <1>1
  <2>3. IsFiniteSet(S)
    BY <2>1, FS_Subset
  <2>4. PoolLimit \in Nat
    BY CatalogAssumption
  <2> QED BY <2>2, <2>3, <2>4
<1>6. Take(ByWeight(S, w), PoolLimit) \in Seq(S)
  BY <1>4, <1>5, WeighedType
<1> QED BY <1>1, <1>2, <1>6, WiderSequence

LEMMA TypedType ==
    ASSUME NEW D, NEW cat, IsCatalog(cat, D), NEW p
    PROVE  TypedCandidates(cat, p) \in SUBSET D
<1> DEFINE Holders(k, v) == {s \in SegmentIds(cat) : v \in cat.profile[s][k]}
           First(S) == {s \in S : Cardinality({r \in S : r < s}) < PostingsPerTerm}
<1>1. TypedCandidates(cat, p) = UNION {UNION {First(Holders(k, v)) : v \in p[k]} : k \in Kinds}
  BY DEF TypedCandidates
<1>2. \A S : First(S) \subseteq S
  OBVIOUS
<1>3. \A k, v : Holders(k, v) \subseteq D
  BY DEF SegmentIds, IsCatalog
<1> HIDE DEF First, Holders
<1>4. \A k, v : First(Holders(k, v)) \subseteq D
  BY <1>2, <1>3
<1> QED BY <1>1, <1>4

LEMMA PoolType ==
    ASSUME NEW D, NEW cat, IsCatalog(cat, D), NEW terms \in SUBSET Terms
    PROVE  RoutingPool(cat, terms) \in SUBSET D
<1> DEFINE S == SegmentIds(cat)
           w == [s \in S |-> 0]
<1>1. S = D /\ IsFiniteSet(S) /\ S \subseteq Int /\ w \in [S -> Int]
  BY DEF SegmentIds, IsCatalog
<1>2. RoutingPool(cat, terms) = Elements(BoundedCandidates(cat, terms))
        \/ RoutingPool(cat, terms) = Elements(Take(ByWeight(S, w), PoolLimit))
  BY DEF RoutingPool, ByScore
<1>3. PoolLimit \in Nat
  BY CatalogAssumption
<1> HIDE DEF S, w
<1>4. Elements(Take(ByWeight(S, w), PoolLimit)) \subseteq S
  BY <1>1, <1>3, WeighedType
<1>5. Elements(BoundedCandidates(cat, terms)) \subseteq D
  BY BoundedType DEF Elements
<1> QED BY <1>1, <1>2, <1>4, <1>5

-----------------------------------------------------------------------------
(* Every strategy plans no segment twice *)

\* One route to each segment of a pool.
LEMMA PoolPlan ==
    ASSUME NEW D, IsFiniteSet(D), D \subseteq Nat, NEW pool \in SUBSET D, NEW f \in [pool -> Int]
    PROVE  /\ IsPlan(ByRoute({Route(s, f[s]) : s \in pool}), D)
           /\ Segments(ByRoute({Route(s, f[s]) : s \in pool})) = pool
<1> DEFINE S == {Route(s, f[s]) : s \in pool}
           g == [s \in pool |-> Route(s, f[s])]
           r == ByRoute(S)
<1>1. S \in SUBSET RouteSet(D) /\ OneRouteEach(S) /\ {a.segment : a \in S} = pool
  <2>1. \A s \in pool : Route(s, f[s]) \in RouteSet(D) /\ Route(s, f[s]).segment = s
    BY DEF Route, RouteSet
  <2>2. \A a \in S : \E s \in pool : a = Route(s, f[s])
    OBVIOUS
  <2>3. \A s \in pool : Route(s, f[s]) \in S
    OBVIOUS
  <2> HIDE DEF S
  <2>4. OneRouteEach(S)
    BY <2>1, <2>2 DEF OneRouteEach
  <2>5. {a.segment : a \in S} = pool
    BY <2>1, <2>2, <2>3
  <2> QED BY <2>1, <2>2, <2>4, <2>5
<1>2. IsFiniteSet(S)
  <2>1. g \in Surjection(pool, S) /\ IsFiniteSet(pool)
    BY FS_Subset DEF Surjection
  <2> HIDE DEF g, S
  <2> QED BY <2>1, FS_Surjection
<1>3. D \in SUBSET Int
  OBVIOUS
<1> HIDE DEF S
<1>4. Lists(r, S) /\ IsPlan(r, D)
  BY <1>1, <1>2, <1>3, ByRouteLists
<1> HIDE DEF r
<1>5. Elements(r) = S
  BY <1>4 DEF Lists
<1>6. Segments(r) = {a.segment : a \in Elements(r)}
  BY DEF Segments, Elements
<1> QED BY <1>1, <1>4, <1>5, <1>6 DEF r, S

LEMMA ScoredPlan ==
    ASSUME NEW D, NEW cat, IsCatalog(cat, D), NEW q, q.terms \subseteq Terms,
           NEW strategy \in {"SparseOverlap", "KlDivergence", "LocalDistinctiveness",
                             "CoverageLocalDistinctiveness"}
    PROVE  IsPlan(ScoredRoutes(cat, q, strategy), D)
<1> DEFINE proposed == Elements(BoundedCandidates(cat, q.terms))
           Score(s) == CASE strategy = "SparseOverlap" -> SparseOverlapScore(cat.summary[s], q.terms)
                    [] strategy = "KlDivergence" -> KlDivergenceScore(cat.summary[s], q.terms)
                    [] strategy = "LocalDistinctiveness" ->
                         LocalDistinctivenessScore(cat, s, q.terms)
                    [] strategy = "CoverageLocalDistinctiveness" ->
                         CoverageScore(cat, s, q.terms)
           all == [s \in D |-> Score(s)]
           none == [s \in D |-> 0]
           some == [s \in proposed |-> Score(s)]
<1>1. SegmentIds(cat) = D /\ IsFiniteSet(D) /\ D \subseteq Nat
  BY DEF IsCatalog, SegmentIds
<1>2. proposed \in SUBSET D
  BY BoundedType DEF Elements
<1>3. ASSUME NEW s \in D PROVE Score(s) \in Int
  <2>1. q.terms \in SUBSET Terms
    OBVIOUS
  <2>2. /\ SparseOverlapScore(cat.summary[s], q.terms) \in Int
        /\ KlDivergenceScore(cat.summary[s], q.terms) \in Int
    BY <2>1, SparseScoreType, DivergenceType
  <2>3. /\ LocalDistinctivenessScore(cat, s, q.terms) \in Int
        /\ CoverageScore(cat, s, q.terms) \in Int
    BY <2>1, LocalScoreType, CoverageScoreType
  <2> QED BY <2>2, <2>3
<1>4. ScoredRoutes(cat, q, strategy)
        = ByRoute(IF strategy = "KlDivergence" THEN {Route(s, Score(s)) : s \in SegmentIds(cat)}
                  ELSE IF proposed = {} THEN {Route(s, 0) : s \in SegmentIds(cat)}
                  ELSE {Route(s, Score(s)) : s \in proposed})
  BY DEF ScoredRoutes
<1> HIDE DEF proposed, Score
<1>5. all \in [D -> Int] /\ none \in [D -> Int] /\ some \in [proposed -> Int]
  BY <1>2, <1>3
<1>6. /\ {Route(s, all[s]) : s \in D} = {Route(s, Score(s)) : s \in D}
      /\ {Route(s, none[s]) : s \in D} = {Route(s, 0) : s \in D}
      /\ {Route(s, some[s]) : s \in proposed} = {Route(s, Score(s)) : s \in proposed}
  OBVIOUS
<1> HIDE DEF all, none, some
<1>7. IsPlan(ByRoute({Route(s, all[s]) : s \in D}), D)
  BY <1>1, <1>5, PoolPlan
<1>8. IsPlan(ByRoute({Route(s, none[s]) : s \in D}), D)
  BY <1>1, <1>5, PoolPlan
<1>9. IsPlan(ByRoute({Route(s, some[s]) : s \in proposed}), D)
  BY <1>1, <1>2, <1>5, PoolPlan
<1> QED BY <1>1, <1>4, <1>6, <1>7, <1>8, <1>9

LEMMA TypedPlan ==
    ASSUME NEW D, NEW cat, IsCatalog(cat, D), NEW q, q.terms \subseteq Terms, q.capitals \subseteq Terms
    PROVE  IsPlan(TypedEvidenceRoutes(cat, q), D)
<1> DEFINE profile == QueryProfile(q)
           proposed == TypedCandidates(cat, profile) \cup Elements(BoundedCandidates(cat, q.terms))
           pool == IF proposed = {} THEN SegmentIds(cat) ELSE proposed
           Score(s) == CoverageScore(cat, s, q.terms)
                        + (TypedEvidenceScore(profile, cat.profile[s]) * 115) \div 100
           f == [s \in pool |-> Score(s)]
<1>1. SegmentIds(cat) = D /\ IsFiniteSet(D) /\ D \subseteq Nat
  BY DEF IsCatalog, SegmentIds
<1>2. proposed \in SUBSET D
  <2>1. TypedCandidates(cat, profile) \in SUBSET D
    BY TypedType
  <2>2. Elements(BoundedCandidates(cat, q.terms)) \subseteq D
    BY BoundedType DEF Elements
  <2> QED BY <2>1, <2>2
<1>3. TypedEvidenceRoutes(cat, q) = ByRoute({Route(s, Score(s)) : s \in pool})
  BY DEF TypedEvidenceRoutes
<1>4. IsProfile(profile)
  BY QueryProfileType
<1> HIDE DEF profile, proposed
<1>5. pool \in SUBSET D
  BY <1>1, <1>2
<1>6. ASSUME NEW s \in D PROVE Score(s) \in Int
  <2>1. q.terms \in SUBSET Terms
    OBVIOUS
  <2>2. CoverageScore(cat, s, q.terms) \in Int /\ TypedEvidenceScore(profile, cat.profile[s]) \in Int
    BY <1>4, <2>1, CoverageScoreType, TypedScoreType
  <2> QED BY <2>2
<1> HIDE DEF pool, Score
<1>7. f \in [pool -> Int]
  BY <1>5, <1>6
<1>8. {Route(s, f[s]) : s \in pool} = {Route(s, Score(s)) : s \in pool}
  OBVIOUS
<1> HIDE DEF f
<1>9. IsPlan(ByRoute({Route(s, f[s]) : s \in pool}), D)
  BY <1>1, <1>5, <1>7, PoolPlan
<1> QED BY <1>3, <1>8, <1>9

-----------------------------------------------------------------------------
(* Greedy teams *)

LEMMA WiderPlan == ASSUME NEW D, NEW P \in SUBSET D, NEW r, IsPlan(r, P) PROVE IsPlan(r, D)
<1>1. RouteSet(P) \in SUBSET RouteSet(D)
  BY DEF RouteSet
<1> QED BY <1>1, WiderSequence DEF IsPlan

LEMMA FirstIsIn ==
    ASSUME NEW S, S # {}, NEW r, IsFiniteSet(S), Lists(r, S)
    PROVE  r[1] \in S /\ 1 \in DOMAIN r
<1>1. Cardinality(S) \in Nat /\ Cardinality(S) # 0
  BY FS_CardinalityType, FS_EmptySet
<1>2. 1 \in DOMAIN r
  BY <1>1 DEF Lists
<1> QED BY <1>2 DEF Lists, Elements

LEMMA SegmentsOfPlan ==
    ASSUME NEW D, NEW r, IsPlan(r, D)
    PROVE  /\ Segments(r) = {a.segment : a \in Elements(r)} /\ Segments(r) \in SUBSET D
           /\ IsFiniteSet(Segments(r)) /\ Cardinality(Segments(r)) = Len(r)
           /\ OneRouteEach(Elements(r)) /\ Elements(r) \in SUBSET RouteSet(D)
           /\ IsFiniteSet(Elements(r))
<1> DEFINE n == Len(r)
           f == [i \in 1 .. n |-> r[i].segment]
           g == [i \in 1 .. n |-> r[i]]
           S == Segments(r)
           E == Elements(r)
<1>1. n \in Nat /\ DOMAIN r = 1 .. n /\ \A i \in 1 .. n : r[i] \in RouteSet(D) /\ r[i].segment \in D
  <2>1. r \in Seq(RouteSet(D))
    BY DEF IsPlan
  <2>2. n \in Nat /\ DOMAIN r = 1 .. n /\ \A i \in 1 .. n : r[i] \in RouteSet(D)
    BY <2>1
  <2>3. \A a \in RouteSet(D) : a.segment \in D
    BY DEF RouteSet
  <2> QED BY <2>2, <2>3
<1>2. S = {r[i].segment : i \in 1 .. n} /\ E = {r[i] : i \in 1 .. n}
  BY <1>1 DEF Segments, Elements
<1>3. \A i, j \in 1 .. n : i # j => r[i].segment # r[j].segment
  BY <1>1 DEF IsPlan, OneEach
<1> HIDE DEF n, S, E
<1>4. IsFiniteSet(1 .. n) /\ Cardinality(1 .. n) = n
  <2>1. IsFiniteSet(1 .. n) /\ Cardinality(1 .. n) = IF 1 > n THEN 0 ELSE n - 1 + 1
    BY <1>1, FS_Interval
  <2> QED BY <1>1, <2>1
<1>5. f \in Bijection(1 .. n, S)
  BY <1>2, <1>3 DEF Bijection, Injection, IsInjective, Surjection
<1>6. g \in Surjection(1 .. n, E)
  BY <1>2 DEF Surjection
<1> HIDE DEF f, g
<1>7. IsFiniteSet(S) /\ Cardinality(S) = n
  <2>1. IsFiniteSet(S)
    BY <1>4, <1>5, FS_Bijection DEF ExistsBijection
  <2>2. Cardinality(S) = Cardinality(1 .. n)
    BY <1>4, <1>5, FS_Bijection DEF ExistsBijection
  <2> QED BY <1>4, <2>1, <2>2
<1>8. IsFiniteSet(E)
  BY <1>4, <1>6, FS_Surjection
<1>9. S = {a.segment : a \in E} /\ S \in SUBSET D /\ E \in SUBSET RouteSet(D)
  BY <1>1, <1>2
<1>10. OneRouteEach(E)
  BY <1>2, <1>3 DEF OneRouteEach
<1> QED BY <1>7, <1>8, <1>9, <1>10 DEF n, S, E

LEMMA LongerPlan ==
    ASSUME NEW D, NEW r, IsPlan(r, D), NEW a \in RouteSet(D), a.segment \notin Segments(r)
    PROVE  IsPlan(Append(r, a), D) /\ Len(Append(r, a)) = Len(r) + 1
<1>1. r \in Seq(RouteSet(D)) /\ \A i, j \in 1 .. Len(r) : i # j => r[i].segment # r[j].segment
  BY DEF IsPlan, OneEach
<1>2. \A i \in 1 .. Len(r) : r[i].segment # a.segment
  BY <1>1 DEF Segments
<1> DEFINE p == Append(r, a)
<1>3. p \in Seq(RouteSet(D)) /\ Len(p) = Len(r) + 1
      /\ p[Len(r) + 1] = a /\ \A i \in 1 .. Len(r) : p[i] = r[i]
  BY <1>1
<1> HIDE DEF p
<1>4. ASSUME NEW i \in DOMAIN p, NEW j \in DOMAIN p, i # j PROVE p[i].segment # p[j].segment
  <2>1. (i \in 1 .. Len(r) \/ i = Len(r) + 1) /\ (j \in 1 .. Len(r) \/ j = Len(r) + 1)
    BY <1>3
  <2> QED BY <1>1, <1>2, <1>3, <1>4, <2>1
<1>5. OneEach(p)
  BY <1>4 DEF OneEach
<1> QED BY <1>3, <1>5 DEF IsPlan, p

LEMMA OpenType ==
    ASSUME NEW P, IsFiniteSet(P), NEW order, Lists(order, P), NEW r, IsPlan(r, P),
           Len(r) < Len(order), NEW width \in Nat
    PROVE  /\ Open(order, r, width) # {} /\ Open(order, r, width) \in SUBSET P
           /\ Open(order, r, width) \cap Segments(r) = {}
<1> DEFINE left(w) == Elements(Take(order, w)) \ Segments(r)
           n == Len(order)
<1>1. order \in Seq(P) /\ n = Cardinality(P) /\ n \in Nat /\ Elements(order) = P
  BY DEF Lists
<1>2. \A w \in Nat : left(w) \in SUBSET P /\ left(w) \cap Segments(r) = {}
  <2> SUFFICES ASSUME NEW w \in Nat PROVE left(w) \in SUBSET P
    OBVIOUS
  <2>1. Take(order, w) \in Seq(P)
    BY <1>1, TakeIsHead
  <2> QED BY <2>1 DEF Elements
<1>3. Elements(Take(order, n)) = P
  <2> DEFINE t == Take(order, n)
  <2>1. Len(t) = n /\ DOMAIN t = 1 .. n /\ \A i \in DOMAIN t : t[i] = order[i]
    BY <1>1, TakeIsHead
  <2>2. DOMAIN order = 1 .. n
    BY <1>1
  <2> HIDE DEF t, n
  <2>3. Elements(t) = Elements(order)
    BY <2>1, <2>2 DEF Elements
  <2> QED BY <1>1, <2>3 DEF t
<1>4. ASSUME left(n) = {} PROVE FALSE
  <2>1. P \in SUBSET Segments(r)
    BY <1>3, <1>4
  <2>2. IsFiniteSet(Segments(r)) /\ Cardinality(Segments(r)) = Len(r)
    BY SegmentsOfPlan
  <2>3. Cardinality(P) <= Cardinality(Segments(r))
    BY <2>1, <2>2, FS_Subset
  <2>4. Len(r) \in Nat
    BY DEF IsPlan
  <2> QED BY <1>1, <2>2, <2>3, <2>4
<1>5. Open(order, r, width) = IF left(width) = {} THEN left(n) ELSE left(width)
  BY DEF Open
<1> HIDE DEF left
<1> QED BY <1>1, <1>2, <1>4, <1>5

\* One more segment for a team.
GrowsBy(P, r, s) ==
    s \in P /\ \A x \in Int : IsPlan(Append(r, Route(s, x)), P) /\ Len(Append(r, Route(s, x))) = Len(r) + 1

LEMMA TeamGrows ==
    ASSUME NEW P, IsFiniteSet(P), P \subseteq Nat, NEW order, Lists(order, P), NEW r, IsPlan(r, P),
           Len(r) < Len(order), NEW width \in Nat, NEW w \in [Open(order, r, width) -> Int]
    PROVE  GrowsBy(P, r, ByWeight(Open(order, r, width), w)[1])
<1> DEFINE S == Open(order, r, width)
           best == ByWeight(S, w)[1]
<1>1. S # {} /\ S \in SUBSET P /\ S \cap Segments(r) = {}
  BY OpenType
<1> HIDE DEF S
<1>2. IsFiniteSet(S) /\ S \subseteq Int
  <2>1. IsFiniteSet(S)
    BY <1>1, FS_Subset
  <2>2. S \subseteq Int
    BY <1>1
  <2> QED BY <2>1, <2>2
<1>3. w \in [S -> Int]
  BY DEF S
<1>4. Lists(ByWeight(S, w), S)
  BY <1>2, <1>3, ByWeightLists
<1>5. best \in S
  BY <1>1, <1>2, <1>4, FirstIsIn
<1> HIDE DEF best
<1>6. best \in P /\ best \notin Segments(r)
  BY <1>1, <1>5
<1>7. ASSUME NEW x \in Int
      PROVE  IsPlan(Append(r, Route(best, x)), P) /\ Len(Append(r, Route(best, x))) = Len(r) + 1
  <2>1. Route(best, x) \in RouteSet(P) /\ Route(best, x).segment = best
    BY <1>6 DEF Route, RouteSet
  <2> QED BY <1>6, <2>1, LongerPlan
<1> QED BY <1>6, <1>7 DEF best, S, GrowsBy

LEMMA BaseOrderType ==
    ASSUME NEW D, NEW cat, IsCatalog(cat, D), NEW terms \in SUBSET Terms
    PROVE  /\ RoutingPool(cat, terms) \in SUBSET D /\ IsFiniteSet(RoutingPool(cat, terms))
           /\ RoutingPool(cat, terms) \subseteq Nat
           /\ BaseScores(cat, terms) \in [RoutingPool(cat, terms) -> Int]
           /\ Lists(BaseOrder(BaseScores(cat, terms)), RoutingPool(cat, terms))
<1> DEFINE P == RoutingPool(cat, terms)
           b == BaseScores(cat, terms)
           w == [s \in P |-> b[s]]
<1>1. P \in SUBSET D
  BY PoolType
<1>2. IsFiniteSet(D) /\ D \subseteq Nat
  BY DEF IsCatalog
<1>3. IsFiniteSet(P)
  BY <1>1, <1>2, FS_Subset
<1>4. b = [s \in P |-> CoverageScore(cat, s, terms)]
  BY DEF BaseScores
<1>5. b \in [P -> Int]
  <2> HIDE DEF P
  <2> QED BY <1>1, <1>4, CoverageScoreType
<1>6. BaseOrder(b) = ByWeight(P, w)
  <2>1. DOMAIN b = P
    BY <1>5
  <2> HIDE DEF P, b
  <2> QED BY <2>1 DEF BaseOrder, ByScore
<1> HIDE DEF P, b
<1>7. w \in [P -> Int] /\ P \subseteq Int
  BY <1>1, <1>2, <1>5
<1> HIDE DEF w
<1>8. Lists(ByWeight(P, w), P)
  BY <1>3, <1>7, ByWeightLists
<1>9. P \subseteq Nat
  BY <1>1, <1>2
<1> QED BY <1>1, <1>3, <1>5, <1>6, <1>8, <1>9 DEF P, b

LEMMA WidthIsNat ==
    ASSUME NEW n \in Nat, NEW stride \in Nat, NEW least \in Nat
    PROVE  Max({n * stride, least}) \in Nat
<1> DEFINE m == n * stride
<1>1. m \in Nat
  OBVIOUS
<1> HIDE DEF m
<1>2. Max({m, least}) = IF m >= least THEN m ELSE least
  BY <1>1, MaxOfTwo
<1>3. Max({m, least}) \in Nat
  BY <1>1, <1>2
<1> QED BY <1>3 DEF m

CoveringStep(c, n, v) == CoveringTeam(c[1], c[2], c[3], n, v)

Covering == INSTANCE FoldTheorems WITH Step <- CoveringStep, Choice <- LastOf, Inv <- Anything

LEMMA TeamCoveragePlan ==
    ASSUME NEW D, NEW cat, IsCatalog(cat, D), NEW terms \in SUBSET Terms
    PROVE  IsPlan(TeamCoverageRoutes(cat, terms), D)
<1> DEFINE P == RoutingPool(cat, terms)
           base == BaseScores(cat, terms)
           order == BaseOrder(base)
           n == Len(order)
           c == <<cat, terms, base>>
           start == [routes |-> <<>>, team |-> {}]
<1>1. P \in SUBSET D /\ IsFiniteSet(P) /\ P \subseteq Nat /\ base \in [P -> Int] /\ Lists(order, P)
  BY BaseOrderType
<1>2. TeamCoverageRoutes(cat, terms) = Covering!Iterated(c, start, n).routes
  BY DEF TeamCoverageRoutes, Covering!Iterated, CoveringStep
<1> HIDE DEF P, base, order
<1>3. n \in Nat
  BY <1>1 DEF Lists
<1> HIDE DEF n
<1>4. PICK tr : Covering!IsTrace(c, start, n, tr) /\ Covering!Iterated(c, start, n) = tr[n]
  <2>1. Covering!Chooses(1 .. n) /\ \A k \in 1 .. n : LastOf(1 .. k) = k
    BY <1>3, LastOfInterval DEF Covering!Chooses
  <2> QED BY <1>3, <2>1, Covering!IterationHasTrace
<1>5. tr[0] = start /\ \A k \in 1 .. n : tr[k] = CoveringTeam(cat, terms, base, k, tr[k - 1])
  BY <1>4 DEF Covering!IsTrace, CoveringStep
<1> DEFINE Holds(k) == IsPlan(tr[k].routes, P) /\ Len(tr[k].routes) = k
           T == {k \in Nat : k <= n => Holds(k)}
<1>6. Holds(0)
  BY <1>5 DEF IsPlan, OneEach
<1>7. ASSUME NEW k \in Nat, k < n, Holds(k) PROVE Holds(k + 1)
  <2> DEFINE v == tr[k]
             width == Max({(k + 1) * 3, 8})
             open == Open(order, v.routes, width)
             Value(s) == TeamCoverageGain(cat, s, terms, v.team) + (base[s] * 200) \div 100
             w == [s \in open |-> Value(s)]
             best == ByWeight(open, w)[1]
  <2>1. k + 1 \in 1 .. n /\ (k + 1) - 1 = k
    BY <1>3, <1>7
  <2>2. tr[k + 1] = CoveringTeam(cat, terms, base, k + 1, v)
    BY <1>5, <2>1
  <2>3. tr[k + 1].routes = Append(v.routes, Route(best, Value(best)))
    BY <2>2 DEF CoveringTeam, Grown, ByScore, order
  <2>4. width \in Nat
    <3>1. k + 1 \in Nat
      OBVIOUS
    <3>2. \A m \in Nat : Max({m * 3, 8}) \in Nat
      BY WidthIsNat
    <3> QED BY <3>1, <3>2
  <2> HIDE DEF width
  <2>5. Len(v.routes) < Len(order)
    BY <1>7 DEF n
  <2>6. open \in SUBSET P
    BY <1>1, <1>7, <2>4, <2>5, OpenType
  <2>7. ASSUME NEW s \in P PROVE Value(s) \in Int
    <3>1. TeamCoverageGain(cat, s, terms, v.team) \in Int
      BY <1>1, CoverageGainType
    <3>2. base[s] \in Int
      BY <1>1
    <3> QED BY <3>1, <3>2
  <2> HIDE DEF Value
  <2>8. w \in [open -> Int]
    BY <2>6, <2>7
  <2> HIDE DEF w, v
  <2>10. IsPlan(v.routes, P)
    BY <1>7 DEF v
  <2>9. GrowsBy(P, v.routes, best)
    BY <1>1, <2>4, <2>5, <2>8, <2>10, TeamGrows
  <2> HIDE DEF best
  <2> QED BY <1>7, <2>3, <2>7, <2>9 DEF v, GrowsBy
<1>8. n \in T
  <2>1. 0 \in T
    BY <1>6
  <2>2. \A k \in Nat : k < n /\ k \in T => k + 1 \in T
    BY <1>3, <1>7
  <2> HIDE DEF T
  <2> QED BY <1>3, <2>1, <2>2, Covering!StepsReach
<1>9. IsPlan(TeamCoverageRoutes(cat, terms), P)
  BY <1>2, <1>3, <1>4, <1>8
<1> QED BY <1>1, <1>9, WiderPlan
GatheringStep(c, n, v) == EvidenceTeam(c[1], c[2], c[3], c[4], n, v)

Gathering == INSTANCE FoldTheorems WITH Step <- GatheringStep, Choice <- LastOf, Inv <- Anything

LEMMA CoverageTeamPlan ==
    ASSUME NEW D, NEW cat, IsCatalog(cat, D), NEW C, NEW terms \in SUBSET Terms
    PROVE  IsPlan(CoverageTeamRoutes(cat, C, terms), D)
<1> DEFINE P == RoutingPool(cat, terms)
           base == BaseScores(cat, terms)
           order == BaseOrder(base)
           n == Len(order)
           c == <<cat, C, terms, base>>
           start == [routes |-> <<>>, team |-> NoCoverage]
<1>1. P \in SUBSET D /\ IsFiniteSet(P) /\ P \subseteq Nat /\ base \in [P -> Int] /\ Lists(order, P)
  BY BaseOrderType
<1>2. CoverageTeamRoutes(cat, C, terms) = Gathering!Iterated(c, start, n).routes
  BY DEF CoverageTeamRoutes, Gathering!Iterated, GatheringStep
<1> HIDE DEF P, base, order
<1>3. n \in Nat
  BY <1>1 DEF Lists
<1> HIDE DEF n
<1>4. PICK tr : Gathering!IsTrace(c, start, n, tr) /\ Gathering!Iterated(c, start, n) = tr[n]
  <2>1. Gathering!Chooses(1 .. n) /\ \A k \in 1 .. n : LastOf(1 .. k) = k
    BY <1>3, LastOfInterval DEF Gathering!Chooses
  <2> QED BY <1>3, <2>1, Gathering!IterationHasTrace
<1>5. tr[0] = start /\ \A k \in 1 .. n : tr[k] = EvidenceTeam(cat, C, terms, base, k, tr[k - 1])
  BY <1>4 DEF Gathering!IsTrace, GatheringStep
<1> DEFINE Holds(k) == IsPlan(tr[k].routes, P) /\ Len(tr[k].routes) = k
           T == {k \in Nat : k <= n => Holds(k)}
<1>6. Holds(0)
  BY <1>5 DEF IsPlan, OneEach
<1>7. ASSUME NEW k \in Nat, k < n, Holds(k) PROVE Holds(k + 1)
  <2> DEFINE v == tr[k]
             width == Max({(k + 1) * 5, 16})
             open == Open(order, v.routes, width)
             Value(s) == TeamGain(cat, C, s, terms, v.team) + (base[s] * 160) \div 100
             w == [s \in open |-> Value(s)]
             best == ByWeight(open, w)[1]
  <2>1. k + 1 \in 1 .. n /\ (k + 1) - 1 = k
    BY <1>3, <1>7
  <2>2. tr[k + 1] = EvidenceTeam(cat, C, terms, base, k + 1, v)
    BY <1>5, <2>1
  <2>3. tr[k + 1].routes = Append(v.routes, Route(best, Value(best)))
    BY <2>2 DEF EvidenceTeam, Grown, ByScore, order
  <2>4. width \in Nat
    <3>1. k + 1 \in Nat
      OBVIOUS
    <3>2. \A m \in Nat : Max({m * 5, 16}) \in Nat
      BY WidthIsNat
    <3> QED BY <3>1, <3>2
  <2> HIDE DEF width
  <2>5. Len(v.routes) < Len(order)
    BY <1>7 DEF n
  <2>6. open \in SUBSET P
    BY <1>1, <1>7, <2>4, <2>5, OpenType
  <2>7. ASSUME NEW s \in P PROVE Value(s) \in Int
    <3>1. TeamGain(cat, C, s, terms, v.team) \in Int
      BY <1>1, TeamGainType
    <3>2. base[s] \in Int
      BY <1>1
    <3> QED BY <3>1, <3>2
  <2> HIDE DEF Value
  <2>8. w \in [open -> Int]
    BY <2>6, <2>7
  <2> HIDE DEF w, v
  <2>10. IsPlan(v.routes, P)
    BY <1>7 DEF v
  <2>9. GrowsBy(P, v.routes, best)
    BY <1>1, <2>4, <2>5, <2>8, <2>10, TeamGrows
  <2> HIDE DEF best
  <2> QED BY <1>7, <2>3, <2>7, <2>9 DEF v, GrowsBy
<1>8. n \in T
  <2>1. 0 \in T
    BY <1>6
  <2>2. \A k \in Nat : k < n /\ k \in T => k + 1 \in T
    BY <1>3, <1>7
  <2> HIDE DEF T
  <2> QED BY <1>3, <2>1, <2>2, Gathering!StepsReach
<1>9. IsPlan(CoverageTeamRoutes(cat, C, terms), P)
  BY <1>2, <1>3, <1>4, <1>8
<1> QED BY <1>1, <1>9, WiderPlan

LEMMA RoutesPlan ==
    ASSUME NEW D, NEW cat, IsCatalog(cat, D), NEW C, NEW q, IsRequest(q)
    PROVE  IsPlan(Routes(cat, C, q, q.strategy), D)
<1>1. q.terms \in SUBSET Terms /\ q.terms \subseteq Terms /\ q.capitals \subseteq Terms /\ q.strategy \in Strategies
  BY DEF IsRequest
<1>2. CASE q.strategy = "TeamCoverageLocalDistinctiveness"
  BY <1>1, <1>2, TeamCoveragePlan DEF Routes
<1>3. CASE q.strategy = "CoverageTeamSelection"
  BY <1>1, <1>3, CoverageTeamPlan DEF Routes
<1>4. CASE q.strategy = "TypedEvidence"
  BY <1>1, <1>4, TypedPlan DEF Routes
<1>5. CASE q.strategy \in {"SparseOverlap", "KlDivergence", "LocalDistinctiveness",
                           "CoverageLocalDistinctiveness"}
  <2>1. Routes(cat, C, q, q.strategy) = ScoredRoutes(cat, q, q.strategy)
    BY <1>5 DEF Routes
  <2> QED BY <1>1, <1>5, <2>1, ScoredPlan
<1> QED BY <1>1, <1>2, <1>3, <1>4, <1>5 DEF Strategies

IsContext(c) == c.end \in Nat /\ c.window \in Nat \ {0}

LEMMA DistanceType == ASSUME NEW a \in Int, NEW b \in Int PROVE Distance(a, b) \in Nat
BY DEF Distance

LEMMA BoostType ==
    ASSUME NEW docs, IsFiniteSet(docs), \A d \in docs : IsDocument(d), NEW c, IsContext(c)
    PROVE  TemporalBoost(docs, c) \in Int
<1> DEFINE Near(d) == Distance(d.date, c.end)
           Proximity(d) == IF Near(d) > c.window THEN 0 ELSE 125 - (125 * Near(d)) \div c.window
           Hinted(d) == CASE c.hint = "past" /\ d.date <= c.end -> 18
                          [] c.hint \in {"present", "ongoing"} /\ Near(d) <= 30 -> 22
                          [] c.hint = "mixed" /\ Near(d) <= 30 -> 12
                          [] OTHER -> 0
           Lift(d) == (IF d.temporal # {} THEN 8 ELSE 0)
                      + IF d.date = 0 THEN 0
                        ELSE IF c.end = 0 THEN 5 ELSE Proximity(d) + Hinted(d)
           f == [d \in docs |-> Lift(d)]
<1>1. TemporalBoost(docs, c)
        = IF ~c.explicit /\ c.hint = "none" THEN 0 ELSE AtMost(Total(f), 200)
  BY DEF TemporalBoost, Sum
<1>2. ASSUME NEW d \in docs PROVE Lift(d) \in Int
  <2>1. d.date \in Nat /\ c.end \in Nat /\ c.window \in Nat \ {0}
    BY DEF IsDocument, IsContext
  <2>2. Near(d) \in Nat
    <3>1. \A a, b \in Nat : Distance(a, b) \in Nat
      BY DistanceType
    <3> QED BY <2>1, <3>1
  <2> HIDE DEF Near
  <2>3. Proximity(d) \in Int
    BY <2>1, <2>2
  <2>4. Hinted(d) \in Int
    OBVIOUS
  <2> HIDE DEF Proximity, Hinted
  <2> QED BY <2>3, <2>4
<1> HIDE DEF Lift
<1>3. f \in [docs -> Int]
  BY <1>2
<1> HIDE DEF f
<1>4. Total(f) \in Int
  BY <1>3, TotalOfInt
<1> QED BY <1>1, <1>4, AtMostType

\* Every planned segment holds an allowed document.
AllEligible(C, c, r) == \A s \in Segments(r) : HasAllowed(C[s], c.allowed)

LEMMA TemporalPlan ==
    ASSUME NEW C, IsCorpus(C), NEW r, IsPlan(r, DOMAIN C), NEW c, IsContext(c)
    PROVE  IsPlan(TemporalRoutes(C, r, c), DOMAIN C) /\ AllEligible(C, c, TemporalRoutes(C, r, c))
<1> DEFINE D == DOMAIN C
           eligible == {a \in Elements(r) : HasAllowed(C[a.segment], c.allowed)}
           Lifted(a) == Route(a.segment, a.score + TemporalBoost(C[a.segment], c))
           S == {Lifted(a) : a \in eligible}
           f == [a \in eligible |-> Lifted(a)]
           t == ByRoute(S)
<1>1. TemporalRoutes(C, r, c) = t
  BY DEF TemporalRoutes
<1>2. Elements(r) \in SUBSET RouteSet(D) /\ IsFiniteSet(Elements(r)) /\ OneRouteEach(Elements(r))
  BY SegmentsOfPlan
<1>3. \A a \in eligible : a \in RouteSet(D) /\ HasAllowed(C[a.segment], c.allowed)
  BY <1>2
<1>4. eligible \in SUBSET Elements(r)
  OBVIOUS
<1> HIDE DEF eligible
<1>5. ASSUME NEW a \in eligible PROVE Lifted(a) \in RouteSet(D) /\ Lifted(a).segment = a.segment
  <2>1. a.segment \in D /\ a.score \in Int
    BY <1>3 DEF RouteSet
  <2>2. TemporalBoost(C[a.segment], c) \in Int
    BY <2>1, BoostType DEF IsCorpus
  <2>3. a.score + TemporalBoost(C[a.segment], c) \in Int
    BY <2>1, <2>2
  <2> QED BY <2>1, <2>3 DEF Route, RouteSet
<1> HIDE DEF Lifted
<1>6. S \in SUBSET RouteSet(D)
  BY <1>5
<1>7. OneRouteEach(S)
  <2>1. ASSUME NEW a \in eligible, NEW b \in eligible, Lifted(a).segment = Lifted(b).segment PROVE a = b
    BY <1>2, <1>4, <1>5, <2>1 DEF OneRouteEach
  <2> QED BY <2>1 DEF OneRouteEach
<1>8. IsFiniteSet(S)
  <2>1. f \in Surjection(eligible, S)
    BY DEF Surjection
  <2>2. IsFiniteSet(eligible)
    BY <1>2, <1>4, FS_Subset
  <2> HIDE DEF f, S
  <2> QED BY <2>1, <2>2, FS_Surjection
<1>9. \A x \in S : HasAllowed(C[x.segment], c.allowed)
  BY <1>3, <1>5
<1>10. D \in SUBSET Int
  BY DEF IsCorpus
<1> HIDE DEF S, D
<1>11. Lists(t, S) /\ IsPlan(t, D)
  BY <1>6, <1>7, <1>8, <1>10, ByRouteLists
<1> HIDE DEF t
<1>12. AllEligible(C, c, t)
  <2>1. Segments(t) = {x.segment : x \in Elements(t)} /\ Elements(t) = S
    BY <1>11 DEF Segments, Elements, Lists
  <2> QED BY <1>9, <2>1 DEF AllEligible
<1> QED BY <1>1, <1>11, <1>12 DEF D

-----------------------------------------------------------------------------
(* Parts of plans and plans put together *)

LEMMA PartOfPlan ==
    ASSUME NEW D, NEW r, IsPlan(r, D), NEW p, IsPlan(p, D), Elements(p) \subseteq Elements(r)
    PROVE  /\ Segments(p) \subseteq Segments(r)
           /\ \A C, c : AllEligible(C, c, r) => AllEligible(C, c, p)
<1>1. Segments(p) = {x.segment : x \in Elements(p)} /\ Segments(r) = {x.segment : x \in Elements(r)}
  BY DEF Segments, Elements
<1> QED BY <1>1 DEF AllEligible

LEMMA JoinedPlans ==
    ASSUME NEW D, NEW a, IsPlan(a, D), NEW b, IsPlan(b, D), Segments(a) \cap Segments(b) = {}
    PROVE  /\ IsPlan(a \o b, D) /\ Segments(a \o b) = Segments(a) \cup Segments(b)
           /\ Elements(a \o b) = Elements(a) \cup Elements(b)
<1> DEFINE p == a \o b
           m == Len(a)
           n == Len(b)
<1>1. a \in Seq(RouteSet(D)) /\ b \in Seq(RouteSet(D))
  BY DEF IsPlan
<1>2. /\ p \in Seq(RouteSet(D)) /\ Len(p) = m + n /\ m \in Nat /\ n \in Nat
      /\ DOMAIN p = 1 .. m + n /\ DOMAIN a = 1 .. m /\ DOMAIN b = 1 .. n
  BY <1>1
<1>3. /\ \A i \in 1 .. m : p[i] = a[i]
      /\ \A i \in 1 .. n : p[m + i] = b[i]
  BY <1>1
<1>4. \A i \in 1 .. m + n : i \in 1 .. m \/ (i - m \in 1 .. n /\ i = m + (i - m))
  BY <1>2
<1>5. \A i \in 1 .. m : a[i].segment \in Segments(a)
  BY <1>2 DEF Segments
<1>6. \A i \in 1 .. n : b[i].segment \in Segments(b)
  BY <1>2 DEF Segments
<1>7. /\ \A i, j \in 1 .. m : i # j => a[i].segment # a[j].segment
      /\ \A i, j \in 1 .. n : i # j => b[i].segment # b[j].segment
  BY <1>2 DEF IsPlan, OneEach
<1> HIDE DEF p, m, n
<1>8. ASSUME NEW i \in 1 .. m + n, NEW j \in 1 .. m + n, i # j PROVE p[i].segment # p[j].segment
  <2>1. CASE i \in 1 .. m /\ j \in 1 .. m
    BY <1>3, <1>7, <1>8, <2>1
  <2>2. CASE i \in 1 .. m /\ j - m \in 1 .. n /\ j = m + (j - m)
    BY <1>3, <1>5, <1>6, <2>2
  <2>3. CASE j \in 1 .. m /\ i - m \in 1 .. n /\ i = m + (i - m)
    BY <1>3, <1>5, <1>6, <2>3
  <2>4. CASE i - m \in 1 .. n /\ i = m + (i - m) /\ j - m \in 1 .. n /\ j = m + (j - m)
    <3>1. i - m # j - m
      BY <1>8, <2>4
    <3> QED BY <1>3, <1>7, <2>4, <3>1
  <2> QED BY <1>4, <2>1, <2>2, <2>3, <2>4
<1>9. IsPlan(p, D)
  BY <1>2, <1>8 DEF IsPlan, OneEach
<1>10. \A i \in 1 .. n : m + i \in 1 .. m + n
  BY <1>2
<1>11. \A i \in 1 .. m : i \in 1 .. m + n
  BY <1>2
<1>12. {p[i] : i \in 1 .. m + n} = {a[i] : i \in 1 .. m} \cup {b[i] : i \in 1 .. n}
  BY <1>3, <1>4, <1>10, <1>11
<1>13. Elements(p) = Elements(a) \cup Elements(b)
  BY <1>2, <1>12 DEF Elements
<1>14. Segments(p) = Segments(a) \cup Segments(b)
  <2>1. \A s : Segments(s) = {x.segment : x \in Elements(s)}
    BY DEF Segments, Elements
  <2> QED BY <1>13, <2>1
<1> QED BY <1>9, <1>13, <1>14 DEF p

LEMMA TakenPlan ==
    ASSUME NEW D, NEW r, IsPlan(r, D), NEW n \in Nat
    PROVE  /\ IsPlan(Take(r, n), D) /\ Segments(Take(r, n)) \subseteq Segments(r)
           /\ \A C, c : AllEligible(C, c, r) => AllEligible(C, c, Take(r, n))
BY TakePlan, PartOfPlan

LEMMA WithinPlan ==
    ASSUME NEW D, NEW r, IsPlan(r, D), NEW T
    PROVE  /\ IsPlan(Within(r, T), D) /\ Segments(Within(r, T)) \subseteq Segments(r)
           /\ Elements(Within(r, T)) = Elements(r) \cap T
           /\ \A C, c : AllEligible(C, c, r) => AllEligible(C, c, Within(r, T))
<1>1. IsPlan(Within(r, T), D) /\ Elements(Within(r, T)) = Elements(r) \cap T
  BY WithinIsPart DEF IsPlan
<1>2. Elements(Within(r, T)) \subseteq Elements(r)
  BY <1>1
<1> QED BY <1>1, <1>2, PartOfPlan

LEMMA RequestType ==
    ASSUME NEW q \in Requests
    PROVE  /\ IsRequest(q) /\ q.limit \in Nat /\ q.maxLimit \in Nat /\ q.topK \in Nat
           /\ q.end \in Nat /\ q.window \in Nat /\ q.terms \in SUBSET Terms
BY RequestAssumption DEF IsRequest

\* The routes a default plan is taken from: those with an allowed document, and
\* the segments without a route when every one is to be searched.
LEMMA DefaultRoutes ==
    ASSUME IsCorpus(corpus), NEW r, IsPlan(r, DOMAIN corpus), NEW c, NEW executeAll \in BOOLEAN
    PROVE  LET p == DefaultPlan(r, c, executeAll).routes IN
           /\ IsPlan(p, DOMAIN corpus) /\ AllEligible(corpus, c, p)
           /\ executeAll => \A s \in DOMAIN corpus : HasAllowed(corpus[s], c.allowed) => s \in Segments(p)
<1> DEFINE D == DOMAIN corpus
           eligible(s) == HasAllowed(corpus[s], c.allowed)
           T == {a \in Elements(r) : eligible(a.segment)}
           known == Within(r, T)
           unrouted == {s \in D : eligible(s) /\ s \notin Segments(known)}
           none == [s \in unrouted |-> 0]
           S == {Route(s, 0) : s \in unrouted}
           rest == ByRoute(S)
           p == DefaultPlan(r, c, executeAll).routes
<1>1. p = IF executeAll THEN known \o rest ELSE known
  BY DEF DefaultPlan
<1>2. IsFiniteSet(D) /\ D \subseteq Nat
  BY DEF IsCorpus
<1>3. IsPlan(known, D) /\ Elements(known) = Elements(r) \cap T
  BY WithinPlan
<1>4. ASSUME NEW s \in Segments(known) PROVE eligible(s)
  <2>1. Segments(known) = {a.segment : a \in Elements(known)}
    BY DEF Segments, Elements
  <2> QED BY <1>3, <2>1
<1>5. IsPlan(rest, D) /\ Segments(rest) = unrouted
  <2>1. S = {Route(s, none[s]) : s \in unrouted}
    OBVIOUS
  <2>2. unrouted \in SUBSET D /\ none \in [unrouted -> Int]
    OBVIOUS
  <2> HIDE DEF S, none, unrouted, D
  <2> QED BY <1>2, <2>1, <2>2, PoolPlan
<1>6. Segments(known) \cap unrouted = {} /\ \A s \in unrouted : eligible(s)
  OBVIOUS
<1>7. \A s \in D : eligible(s) => s \in Segments(known) \/ s \in unrouted
  OBVIOUS
<1> HIDE DEF p, rest, unrouted, known, eligible, D
<1>8. executeAll => IsPlan(p, D) /\ Segments(p) = Segments(known) \cup unrouted
  BY <1>1, <1>3, <1>5, <1>6, JoinedPlans
<1>9. ~executeAll => IsPlan(p, D) /\ Segments(p) = Segments(known)
  BY <1>1, <1>3
<1>10. \A s \in Segments(p) : eligible(s)
  BY <1>4, <1>6, <1>8, <1>9
<1>11. IsPlan(p, D)
  BY <1>8, <1>9
<1>12. executeAll => \A s \in D : eligible(s) => s \in Segments(p)
  BY <1>7, <1>8
<1> QED BY <1>10, <1>11, <1>12 DEF p, D, eligible, AllEligible

LEMMA DefaultChosen ==
    ASSUME IsCorpus(corpus), request \in Requests, NEW r, IsPlan(r, DOMAIN corpus), NEW c,
           NEW executeAll \in BOOLEAN
    PROVE  LET p == DefaultPlan(r, c, executeAll).chosen IN
           IsPlan(p, DOMAIN corpus) /\ AllEligible(corpus, c, p)
<1> DEFINE D == DOMAIN corpus
           routes == DefaultPlan(r, c, executeAll).routes
           signal == {a \in Elements(routes) : RouteHasSignal(a, request.strategy, request.terms)}
           with == Within(routes, signal)
           without == Within(routes, Elements(routes) \ signal)
           chosen == Take(with, request.limit)
           room == IF executeAll \/ chosen = <<>> THEN request.limit - Len(chosen) ELSE 0
           more == Take(without, room)
           p == DefaultPlan(r, c, executeAll).chosen
<1>1. p = chosen \o more
  BY DEF DefaultPlan
<1>2. IsPlan(routes, D) /\ AllEligible(corpus, c, routes)
  BY DefaultRoutes
<1>3. request.limit \in Nat
  BY RequestType
<1> HIDE DEF routes, signal
<1>4. /\ IsPlan(with, D) /\ Elements(with) = Elements(routes) \cap signal
      /\ AllEligible(corpus, c, with)
  BY <1>2, WithinPlan
<1>5. /\ IsPlan(without, D) /\ Elements(without) = Elements(routes) \cap (Elements(routes) \ signal)
      /\ AllEligible(corpus, c, without)
  BY <1>2, WithinPlan
<1> HIDE DEF with, without, D
<1>6. IsPlan(chosen, D) /\ Segments(chosen) \subseteq Segments(with) /\ AllEligible(corpus, c, chosen)
  BY <1>3, <1>4, TakenPlan
<1>7. room \in Nat
  <2>1. with \in Seq(RouteSet(D))
    BY <1>4 DEF IsPlan
  <2>2. Len(chosen) = (IF request.limit <= Len(with) THEN request.limit ELSE Len(with)) /\ Len(with) \in Nat
    BY <1>3, <2>1, TakeIsHead
  <2> HIDE DEF chosen
  <2> QED BY <1>3, <2>2
<1> HIDE DEF chosen, room
<1>8. IsPlan(more, D) /\ Segments(more) \subseteq Segments(without) /\ AllEligible(corpus, c, more)
  BY <1>5, <1>7, TakenPlan
<1> HIDE DEF more
<1>9. Segments(with) \cap Segments(without) = {}
  <2>1. \A s : Segments(s) = {x.segment : x \in Elements(s)}
    BY DEF Segments, Elements
  <2>2. OneRouteEach(Elements(routes))
    BY <1>2, SegmentsOfPlan
  <2>3. ASSUME NEW a \in Elements(with), NEW b \in Elements(without) PROVE a.segment # b.segment
    <3>1. a \in Elements(routes) /\ b \in Elements(routes) /\ a # b
      BY <1>4, <1>5, <2>3
    <3> QED BY <2>2, <3>1 DEF OneRouteEach
  <2> QED BY <2>1, <2>3
<1>10. IsPlan(chosen \o more, D) /\ Segments(chosen \o more) = Segments(chosen) \cup Segments(more)
  <2>1. Segments(chosen) \cap Segments(more) = {}
    BY <1>6, <1>8, <1>9
  <2> QED BY <1>6, <1>8, <2>1, JoinedPlans
<1>11. AllEligible(corpus, c, chosen \o more)
  BY <1>6, <1>8, <1>10 DEF AllEligible
<1> HIDE DEF p
<1> QED BY <1>1, <1>10, <1>11 DEF p, D

-----------------------------------------------------------------------------
(* Rankings by a list of numbers *)

FirstDiffers(n, a, b) == \E i \in 1 .. n : a[i] # b[i] /\ \A j \in 1 .. i - 1 : a[j] = b[j]

\* The numbers of two ranks of one length agree, or differ first somewhere.
LEMMA FirstDifference ==
    ASSUME NEW n \in Nat, NEW a, NEW b, \A i \in 1 .. n : a[i] \in Int /\ b[i] \in Int,
           NEW k \in 1 .. n, a[k] # b[k]
    PROVE  FirstDiffers(n, a, b)
<1> DEFINE T == {-i : i \in {m \in 1 .. n : a[m] # b[m]}}
           most == Max(T)
<1>1. T \in SUBSET Int /\ T # {}
  OBVIOUS
<1>2. IsFiniteSet(T)
  <2>1. T \in SUBSET ((-n) .. n)
    OBVIOUS
  <2>2. IsFiniteSet((-n) .. n)
    BY FS_Interval
  <2> HIDE DEF T
  <2> QED BY <2>1, <2>2, FS_Subset
<1>3. most \in T /\ \A y \in T : most >= y
  <2> HIDE DEF T
  <2> QED BY <1>1, <1>2, MaxIsIn
<1> HIDE DEF most
<1>4. PICK i \in 1 .. n : most = -i /\ a[i] # b[i]
  BY <1>3
<1>5. ASSUME NEW j \in 1 .. i - 1, a[j] # b[j] PROVE FALSE
  <2>1. j \in 1 .. n /\ -j \in T
    BY <1>4, <1>5
  <2>2. most >= -j
    BY <1>3, <2>1
  <2> QED BY <1>4, <2>2
<1> QED BY <1>4, <1>5 DEF FirstDiffers

\* Every element of S has n numbers, and two elements do not have the same.
IsRanking(S, f, n) ==
    /\ \A x \in S : DOMAIN f[x] = 1 .. n /\ \A i \in 1 .. n : f[x][i] \in Int
    /\ \A x, y \in S : x # y => \E i \in 1 .. n : f[x][i] # f[y][i]

HigherRank(S, f) ==
    {p \in S \X S : \E i \in DOMAIN f[p[1]] :
                     f[p[1]][i] > f[p[2]][i] /\ \A j \in 1 .. i - 1 : f[p[1]][j] = f[p[2]][j]}

\* Ranks of one length that tell the elements apart list them in their order.
LEMMA ByRankLists ==
    ASSUME NEW S, IsFiniteSet(S), NEW n \in Nat, NEW f, IsRanking(S, f, n)
    PROVE  /\ Lists(ByRank(S, f), S)
           /\ \A i, j \in DOMAIN ByRank(S, f) :
                i < j => <<ByRank(S, f)[i], ByRank(S, f)[j]>> \in HigherRank(S, f)
<1> DEFINE R == HigherRank(S, f)
           before(x, y) == \E i \in DOMAIN f[x] :
                             f[x][i] > f[y][i] /\ \A j \in 1 .. i - 1 : f[x][j] = f[y][j]
           one(i) == CHOOSE x \in S : Cardinality({y \in S : before(y, x)}) = i - 1
           other(i) == CHOOSE x \in S : Cardinality({y \in S : <<y, x>> \in R}) = i - 1
<1>1. \A x, y \in S : <<x, y>> \in R <=> before(x, y)
  BY DEF HigherRank
<1>2. ByRank(S, f) = [i \in 1 .. Cardinality(S) |-> one(i)]
  BY DEF ByRank, Ranked
<1>3. RankedBy(S, R) = [i \in 1 .. Cardinality(S) |-> other(i)]
  BY DEF RankedBy
<1> HIDE DEF R
<1>4. \A x, y \in S : <<x, y>> \in R <=>
        \E i \in 1 .. n : f[x][i] > f[y][i] /\ \A j \in 1 .. i - 1 : f[x][j] = f[y][j]
  <2>1. \A x \in S : DOMAIN f[x] = 1 .. n
    BY DEF IsRanking
  <2>2. \A x, y \in S : before(x, y) <=>
          \E i \in 1 .. n : f[x][i] > f[y][i] /\ \A j \in 1 .. i - 1 : f[x][j] = f[y][j]
    BY <2>1
  <2> HIDE DEF before
  <2> QED BY <1>1, <2>2
<1> HIDE DEF before
<1>5. \A x \in S : {y \in S : before(y, x)} = {y \in S : <<y, x>> \in R}
  BY <1>1
<1>6. \A i \in 1 .. Cardinality(S) : one(i) = other(i)
  BY <1>5
<1>7. ByRank(S, f) = RankedBy(S, R)
  <2> HIDE DEF one, other
  <2> QED BY <1>2, <1>3, <1>6
<1>8. \A x \in S : <<x, x>> \notin R
  <2> SUFFICES ASSUME NEW x \in S, <<x, x>> \in R PROVE FALSE
    OBVIOUS
  <2>1. PICK i \in 1 .. n : f[x][i] > f[x][i]
    BY <1>4
  <2>2. f[x][i] \in Int
    BY DEF IsRanking
  <2> QED BY <2>1, <2>2
<1>9. ASSUME NEW x \in S, NEW y \in S, x # y PROVE <<x, y>> \in R \/ <<y, x>> \in R
  <2>1. PICK k \in 1 .. n : f[x][k] # f[y][k]
    BY <1>9 DEF IsRanking
  <2> DEFINE a == f[x]
             b == f[y]
  <2>2. \A i \in 1 .. n : a[i] \in Int /\ b[i] \in Int
    BY DEF IsRanking
  <2>3. a[k] # b[k]
    BY <2>1
  <2> HIDE DEF a, b
  <2>7. FirstDiffers(n, a, b)
    BY <2>2, <2>3, FirstDifference
  <2>4. PICK i \in 1 .. n : a[i] # b[i] /\ \A j \in 1 .. i - 1 : a[j] = b[j]
    BY <2>7 DEF FirstDiffers
  <2>5. a[i] > b[i] \/ b[i] > a[i]
    BY <2>2, <2>4
  <2>6. \A j \in 1 .. i - 1 : b[j] = a[j]
    BY <2>4
  <2> QED BY <1>4, <2>4, <2>5, <2>6 DEF a, b
<1>10. ASSUME NEW x \in S, NEW y \in S, NEW z \in S, <<x, y>> \in R, <<y, z>> \in R
       PROVE  <<x, z>> \in R
  <2> DEFINE a == f[x]
             b == f[y]
             c == f[z]
  <2>1. \A i \in 1 .. n : a[i] \in Int /\ b[i] \in Int /\ c[i] \in Int
    BY DEF IsRanking
  <2>2. PICK i \in 1 .. n : a[i] > b[i] /\ \A j \in 1 .. i - 1 : a[j] = b[j]
    BY <1>4, <1>10
  <2>3. PICK k \in 1 .. n : b[k] > c[k] /\ \A j \in 1 .. k - 1 : b[j] = c[j]
    BY <1>4, <1>10
  <2>4. SUFFICES \E m \in 1 .. n : a[m] > c[m] /\ \A j \in 1 .. m - 1 : a[j] = c[j]
    BY <1>4
  <2> HIDE DEF a, b, c
  <2>5. CASE i <= k
    <3>1. a[i] > c[i]
      <4>1. CASE i = k
        BY <2>1, <2>2, <2>3, <4>1
      <4>2. CASE i < k
        <5>1. i \in 1 .. k - 1
          BY <4>2
        <5> QED BY <2>2, <2>3, <5>1
      <4> QED BY <2>5, <4>1, <4>2
    <3>2. \A j \in 1 .. i - 1 : a[j] = c[j]
      <4>1. \A j \in 1 .. i - 1 : j \in 1 .. k - 1
        BY <2>5
      <4> QED BY <2>2, <2>3, <4>1
    <3> QED BY <3>1, <3>2
  <2>6. CASE k < i
    <3>1. k \in 1 .. i - 1 /\ \A j \in 1 .. k - 1 : j \in 1 .. i - 1
      BY <2>6
    <3>2. a[k] > c[k] /\ \A j \in 1 .. k - 1 : a[j] = c[j]
      BY <2>2, <2>3, <3>1
    <3> QED BY <3>2
  <2> QED BY <2>5, <2>6
<1>11. TotalOn(R, S)
  BY <1>8, <1>9, <1>10 DEF TotalOn
<1>12. /\ Lists(RankedBy(S, R), S)
       /\ \A i, j \in DOMAIN RankedBy(S, R) : i < j => <<RankedBy(S, R)[i], RankedBy(S, R)[j]>> \in R
  BY <1>11, RankingLists
<1> QED BY <1>7, <1>12 DEF R

-----------------------------------------------------------------------------
(* Adaptive widening *)

LEMMA CoveredType ==
    ASSUME NEW cat, NEW terms \in SUBSET Terms, NEW S
    PROVE  CoveredTerms(cat, terms, S) \in SUBSET terms /\ Cardinality(CoveredTerms(cat, terms, S)) \in Nat
<1>1. CoveredTerms(cat, terms, S) \in SUBSET terms
  BY DEF CoveredTerms
<1>2. CoveredTerms(cat, terms, S) \in SUBSET Terms
  BY <1>1
<1> QED BY <1>1, <1>2, FiniteTerms

LEMMA WidenedPlan ==
    ASSUME NEW D \in SUBSET Nat, NEW cat, NEW terms \in SUBSET Terms,
           NEW routes, IsPlan(routes, D), NEW most \in Nat,
           NEW v, IsPlan(v, D), Elements(v) \subseteq Elements(routes)
    PROVE  /\ IsPlan(Widened(cat, terms, routes, most, v), D)
           /\ Elements(Widened(cat, terms, routes, most, v)) \subseteq Elements(routes)
<1> DEFINE covered == CoveredTerms(cat, terms, Segments(v))
           cutoff  == IF v = <<>> THEN 0 ELSE v[Len(v)].score
           Added(r) == Cardinality(CoveredTerms(cat, terms \ covered, {r.segment}))
           Close(r) == ScoreIsClose(r.score, cutoff)
           open == {r \in Elements(Take(routes, most)) :
                      /\ r.segment \notin Segments(v)
                      /\ Added(r) > 0
                      /\ 100 * Cardinality(covered) < 80 * Cardinality(terms) \/ Close(r)}
           one(r) == IF Close(r) THEN 1 ELSE 0
           rank == [r \in open |-> <<Added(r), one(r), r.score, -r.segment>>]
           best == ByRank(open, rank)[1]
<1>1. Widened(cat, terms, routes, most, v)
        = IF open = {} \/ Len(v) >= most THEN v ELSE Append(v, best)
  BY DEF Widened
<1>2. /\ open \subseteq Elements(Take(routes, most))
      /\ \A r \in open : r.segment \notin Segments(v)
  OBVIOUS
<1>3. \A r : Added(r) \in Int
  <2> SUFFICES ASSUME NEW r PROVE Added(r) \in Int
    OBVIOUS
  <2>1. terms \ covered \in SUBSET Terms
    OBVIOUS
  <2> HIDE DEF covered
  <2> QED BY <2>1, CoveredType
<1>4. \A r : one(r) \in Int
  OBVIOUS
<1> HIDE DEF Added, one, open
<1>5. Elements(Take(routes, most)) \subseteq Elements(routes)
  BY TakePlan
<1>6. /\ Elements(routes) \in SUBSET RouteSet(D) /\ IsFiniteSet(Elements(routes))
      /\ OneRouteEach(Elements(routes))
  BY SegmentsOfPlan
<1>7. open \in SUBSET Elements(routes) /\ IsFiniteSet(open)
  <2>1. open \in SUBSET Elements(routes)
    BY <1>2, <1>5
  <2> QED BY <1>6, <2>1, FS_Subset
<1>8. \A r \in open : r \in RouteSet(D)
  BY <1>6, <1>7
<1>9. \A r \in open : r.score \in Int /\ r.segment \in Nat
  BY <1>8 DEF RouteSet
<1>10. \A r \in open : DOMAIN rank[r] = 1 .. 4
  OBVIOUS
<1>11. \A r \in open : \A i \in 1 .. 4 : rank[r][i] \in Int
  <2> SUFFICES ASSUME NEW r \in open, NEW i \in 1 .. 4 PROVE rank[r][i] \in Int
    OBVIOUS
  <2>1. Added(r) \in Int /\ one(r) \in Int /\ r.score \in Int /\ -r.segment \in Int
    BY <1>3, <1>4, <1>9
  <2>2. i = 1 \/ i = 2 \/ i = 3 \/ i = 4
    OBVIOUS
  <2> QED BY <2>1, <2>2
<1>12. \A x, y \in open : x # y => rank[x][4] # rank[y][4]
  <2>1. \A x \in open : rank[x][4] = -x.segment
    OBVIOUS
  <2>2. \A x, y \in open : -x.segment = -y.segment => x.segment = y.segment
    BY <1>9
  <2>3. \A x, y \in open : x # y => x.segment # y.segment
    BY <1>6, <1>7 DEF OneRouteEach
  <2> HIDE DEF rank
  <2> QED BY <2>1, <2>2, <2>3
<1> HIDE DEF rank
<1>13. Lists(ByRank(open, rank), open)
  <2>1. \A x, y \in open : x # y => \E i \in 1 .. 4 : rank[x][i] # rank[y][i]
    BY <1>12
  <2>2. IsRanking(open, rank, 4)
    BY <1>10, <1>11, <2>1 DEF IsRanking
  <2> QED BY <1>7, <2>2, ByRankLists
<1>14. CASE open = {} \/ Len(v) >= most
  BY <1>1, <1>14
<1>15. CASE ~(open = {} \/ Len(v) >= most)
  <2>1. best \in open
    BY <1>7, <1>13, <1>15, FirstIsIn
  <2> HIDE DEF best
  <2>2. best \in RouteSet(D) /\ best.segment \notin Segments(v) /\ best \in Elements(routes)
    BY <1>2, <1>7, <1>8, <2>1
  <2>3. IsPlan(Append(v, best), D)
    BY <2>2, LongerPlan
  <2>4. Elements(Append(v, best)) = Elements(v) \cup {best}
    <3> DEFINE p == Append(v, best)
    <3>1. v \in Seq(RouteSet(D))
      BY DEF IsPlan
    <3>2. /\ DOMAIN p = 1 .. Len(v) + 1 /\ DOMAIN v = 1 .. Len(v) /\ Len(v) \in Nat
          /\ p[Len(v) + 1] = best /\ \A i \in 1 .. Len(v) : p[i] = v[i]
      BY <2>2, <3>1
    <3> HIDE DEF p
    <3>3. \A i \in 1 .. Len(v) + 1 : i \in 1 .. Len(v) \/ i = Len(v) + 1
      BY <3>2
    <3> QED BY <3>2, <3>3 DEF Elements, p
  <2> QED BY <1>1, <1>15, <2>2, <2>3, <2>4
<1> QED BY <1>14, <1>15

LEMMA BoundsOfNat ==
    ASSUME NEW a \in Nat, NEW b \in Nat, NEW n \in Nat
    PROVE  Max({a, b}) \in Nat /\ AtMost(Max({a, b}), n) \in Nat
<1> DEFINE m == Max({a, b})
<1>1. m = IF a >= b THEN a ELSE b
  BY MaxOfTwo
<1>2. m \in Nat
  BY <1>1
<1> HIDE DEF m
<1>3. AtMost(m, n) = m \/ AtMost(m, n) = n
  BY <1>2, AtMostType
<1> QED BY <1>2, <1>3 DEF m

WideningStep(c, n, v) == Widened(c[1], c[2], c[3], c[4], v)

Widening == INSTANCE FoldTheorems WITH Step <- WideningStep, Choice <- LastOf, Inv <- Anything

\* What adaptive widening plans are routes, each once.
LEMMA AdaptivePlan ==
    ASSUME NEW D \in SUBSET Nat, NEW cat, NEW terms \in SUBSET Terms,
           NEW routes, IsPlan(routes, D), NEW baseLimit \in Nat, NEW maxLimit \in Nat
    PROVE  LET p == AdaptiveRoutes(cat, terms, routes, baseLimit, maxLimit) IN
           IsPlan(p, D) /\ Elements(p) \subseteq Elements(routes)
<1> DEFINE n == Len(routes)
           base == AtMost(Max({baseLimit, 1}), n)
           most == AtMost(Max({maxLimit, base}), n)
           c == <<cat, terms, routes, most>>
           start == Take(routes, base)
           p == AdaptiveRoutes(cat, terms, routes, baseLimit, maxLimit)
           Holds(v) == IsPlan(v, D) /\ Elements(v) \subseteq Elements(routes)
<1>1. p = IF terms = {} THEN start ELSE Widening!Iterated(c, start, n)
  BY DEF AdaptiveRoutes, Widening!Iterated, WideningStep
<1>2. n \in Nat
  BY DEF IsPlan
<1>3. base \in Nat
  BY <1>2, BoundsOfNat
<1> HIDE DEF base
<1>4. most \in Nat
  BY <1>2, <1>3, BoundsOfNat
<1> HIDE DEF most, n
<1>5. Holds(start)
  BY <1>3, TakePlan
<1> HIDE DEF start, p
<1>6. PICK tr : Widening!IsTrace(c, start, n, tr) /\ Widening!Iterated(c, start, n) = tr[n]
  <2>1. Widening!Chooses(1 .. n) /\ \A k \in 1 .. n : LastOf(1 .. k) = k
    BY <1>2, LastOfInterval DEF Widening!Chooses
  <2> QED BY <1>2, <2>1, Widening!IterationHasTrace
<1>7. tr[0] = start /\ \A k \in 1 .. n : tr[k] = Widened(cat, terms, routes, most, tr[k - 1])
  BY <1>6 DEF Widening!IsTrace, WideningStep
<1> DEFINE T == {k \in Nat : k <= n => Holds(tr[k])}
<1>8. ASSUME NEW k \in Nat, k < n, Holds(tr[k]) PROVE Holds(tr[k + 1])
  <2>1. k + 1 \in 1 .. n /\ (k + 1) - 1 = k
    BY <1>2, <1>8
  <2>2. tr[k + 1] = Widened(cat, terms, routes, most, tr[k])
    BY <1>7, <2>1
  <2> DEFINE v == tr[k]
  <2>3. IsPlan(v, D) /\ Elements(v) \subseteq Elements(routes)
    BY <1>8
  <2> HIDE DEF v
  <2>4. Holds(Widened(cat, terms, routes, most, v))
    BY <1>4, <2>3, WidenedPlan
  <2> QED BY <2>2, <2>4 DEF v
<1>9. n \in T
  <2>1. 0 \in T
    BY <1>5, <1>7
  <2>2. \A k \in Nat : k < n /\ k \in T => k + 1 \in T
    BY <1>2, <1>8
  <2> HIDE DEF T
  <2> QED BY <1>2, <2>1, <2>2, Widening!StepsReach
<1>10. Holds(p)
  BY <1>1, <1>2, <1>5, <1>6, <1>9
<1> QED BY <1>10 DEF p

-----------------------------------------------------------------------------
(* Recovery of missing coverage *)

LEMMA KindsType ==
    ASSUME NEW m, NEW t
    PROVE  Cardinality(EvidenceTypes(m, t)) \in Nat
<1> DEFINE Evidence == {"entity", "term", "topic", "local_memory"}
<1>1. EvidenceTypes(m, t) \in SUBSET Evidence
  BY DEF EvidenceTypes
<1>2. IsFiniteSet(Evidence)
  <2>1. Evidence = {"entity"} \cup ({"term"} \cup ({"topic"} \cup {"local_memory"}))
    OBVIOUS
  <2> HIDE DEF Evidence
  <2> QED BY <2>1, FS_Singleton, FS_Union
<1> HIDE DEF Evidence
<1> QED BY <1>1, <1>2, FS_Subset, FS_CardinalityType

LEMMA WeakScoreType ==
    ASSUME NEW D, NEW cat, IsCatalog(cat, D), NEW terms \in SUBSET Terms,
           NEW r \in RouteSet(D), NEW selected
    PROVE  WeakScore(cat, terms, r, selected) \in Int
<1> DEFINE m       == cat.summary[r.segment]
           covered == CoveredTerms(cat, terms, {r.segment})
           others  == CoveredTerms(cat, terms, Segments(selected) \ {r.segment})
           unique  == Cardinality(covered \ others)
           f       == [t \in covered |-> Cardinality(EvidenceTypes(m, t))]
           g       == [t \in covered |-> LocalTermWeight(m, t)]
<1>1. WeakScore(cat, terms, r, selected)
        = IF covered = {} THEN 300
          ELSE (IF unique = 0 THEN 160 ELSE -110 * unique)
               + (IF Cardinality(covered) <= 1 THEN 80 ELSE 0)
               + (IF Total(f) <= Cardinality(covered) THEN 50 ELSE 0)
               + (IF Total(g) < 75 THEN 70 ELSE 0)
               - (NonNegative(r.score) * 3) \div 100
  BY DEF WeakScore, Sum
<1>2. r.segment \in D /\ r.score \in Int
  BY DEF RouteSet
<1>3. covered \in SUBSET Terms /\ covered \ others \in SUBSET Terms
  BY DEF CoveredTerms
<1> HIDE DEF covered, others
<1>4. unique \in Nat
  BY <1>3, FiniteTerms
<1>5. NonNegative(r.score) \in Nat
  BY <1>2, NonNegativeType
<1> HIDE DEF unique, f, g
<1>6. (NonNegative(r.score) * 3) \div 100 \in Int
  BY <1>5
<1> QED BY <1>1, <1>4, <1>6

LEMMA RecoveryGainType ==
    ASSUME NEW D, NEW cat, IsCatalog(cat, D), NEW terms \in SUBSET Terms, NEW missing \in SUBSET terms,
           NEW r \in RouteSet(D)
    PROVE  RecoveryGain(cat, terms, missing, r) \in Int
<1> DEFINE found == CoveredTerms(cat, missing, {r.segment})
           rare == Total([t \in found |-> Idf(cat, t)])
<1>1. RecoveryGain(cat, terms, missing, r)
        = IF found = {} THEN 0
          ELSE EvidenceWeight(cat, r.segment, found) + (rare * 45) \div 100
               + TermShare(found, terms) + (NonNegative(r.score) * 8) \div 100
  BY DEF RecoveryGain, Sum
<1>2. r.segment \in D /\ r.score \in Int
  BY DEF RouteSet
<1>3. found \in SUBSET terms /\ found \in SUBSET Terms
  BY DEF CoveredTerms
<1> HIDE DEF found
<1>4. EvidenceWeight(cat, r.segment, found) \in Int /\ rare \in Int
  BY <1>2, <1>3, EvidenceWeightType, RarityType
<1>5. found # {} => TermShare(found, terms) \in Nat
  <2>1. found # {} => terms # {}
    BY <1>3
  <2> QED BY <1>3, <2>1, TermShareType
<1>6. NonNegative(r.score) \in Nat
  BY <1>2, NonNegativeType
<1> HIDE DEF rare
<1> QED BY <1>1, <1>4, <1>5, <1>6

\* A recovery leaves the selection as it is or swaps one route that is weak
\* enough for a segment outside it that gains enough.
Swapped(cat, terms, selected, routes, p) ==
    \E i \in DOMAIN selected, best \in Elements(routes), x \in Int :
       /\ best.segment \notin Segments(selected)
       /\ RecoveryGain(cat, terms, terms \ CoveredTerms(cat, terms, Segments(selected)), best) >= 180
       /\ WeakScore(cat, terms, selected[i], selected) >= 150
       /\ p = ByRoute((Elements(selected) \ {selected[i]}) \cup {Route(best.segment, x)})

LEMMA WeakestExists ==
    ASSUME NEW D, NEW cat, IsCatalog(cat, D), NEW terms \in SUBSET Terms,
           NEW selected, IsPlan(selected, D), selected # <<>>
    PROVE  Weakest(cat, terms, selected) \in DOMAIN selected
<1> DEFINE n == Len(selected)
           weak(i) == WeakScore(cat, terms, selected[i], selected)
           W == {weak(i) : i \in 1 .. n}
           most == Max(W)
           I == {i \in 1 .. n : weak(i) = most}
           last == Max(I)
<1>1. selected \in Seq(RouteSet(D)) /\ n \in Nat \ {0} /\ DOMAIN selected = 1 .. n
  BY DEF IsPlan
<1>2. Weakest(cat, terms, selected)
        = CHOOSE i \in 1 .. n : \A j \in 1 .. n : weak(j) < weak(i) \/ (weak(j) = weak(i) /\ j <= i)
  BY <1>1 DEF Weakest
<1>3. ASSUME NEW i \in 1 .. n PROVE weak(i) \in Int
  <2>1. selected[i] \in RouteSet(D)
    BY <1>1
  <2> QED BY <2>1, WeakScoreType
<1> HIDE DEF n, weak
<1>4. W \in SUBSET Int /\ W # {} /\ IsFiniteSet(W)
  <2>1. IsFiniteSet(1 .. n)
    BY <1>1, FS_Interval
  <2> DEFINE f == [i \in 1 .. n |-> weak(i)]
  <2>2. f \in Surjection(1 .. n, W)
    BY DEF Surjection
  <2>3. W \in SUBSET Int /\ W # {}
    BY <1>1, <1>3
  <2> HIDE DEF f, W
  <2> QED BY <2>1, <2>2, <2>3, FS_Surjection
<1>5. most \in W /\ \A y \in W : most >= y
  <2> HIDE DEF W
  <2> QED BY <1>4, MaxIsIn
<1> HIDE DEF most
<1>6. I \in SUBSET Int /\ I # {} /\ IsFiniteSet(I)
  <2>1. IsFiniteSet(1 .. n) /\ I \in SUBSET (1 .. n)
    BY <1>1, FS_Interval
  <2>2. I # {} /\ I \in SUBSET Int
    BY <1>1, <1>5
  <2> HIDE DEF I
  <2> QED BY <2>1, <2>2, FS_Subset
<1>7. last \in I /\ \A y \in I : last >= y
  <2> HIDE DEF I
  <2> QED BY <1>6, MaxIsIn
<1> HIDE DEF last
<1>8. ASSUME NEW j \in 1 .. n PROVE weak(j) < weak(last) \/ (weak(j) = weak(last) /\ j <= last)
  <2>1. weak(last) = most /\ last \in 1 .. n
    BY <1>7
  <2>2. most >= weak(j) /\ weak(j) \in Int /\ most \in Int
    BY <1>3, <1>4, <1>5
  <2>3. CASE weak(j) = most
    BY <1>7, <2>1, <2>3
  <2> QED BY <2>1, <2>2, <2>3
<1>9. \E i \in 1 .. n : \A j \in 1 .. n : weak(j) < weak(i) \/ (weak(j) = weak(i) /\ j <= i)
  BY <1>7, <1>8
<1> QED BY <1>1, <1>2, <1>9

LEMMA RecoveryShape ==
    ASSUME NEW D \in SUBSET Nat, NEW cat, IsCatalog(cat, D), NEW terms \in SUBSET Terms,
           NEW selected, IsPlan(selected, D), NEW routes, IsPlan(routes, D)
    PROVE  LET p == RecoveredRoutes(cat, terms, selected, routes) IN
           \/ p = selected /\ selected = <<>>
           \/ p = ByRoute(Elements(selected))
           \/ Swapped(cat, terms, selected, routes, p)
<1> DEFINE missing == terms \ CoveredTerms(cat, terms, Segments(selected))
           gain(r) == RecoveryGain(cat, terms, missing, r)
           worthy == {r \in Elements(Take(routes, RecoveryPool)) :
                        r.segment \notin Segments(selected) /\ gain(r) >= 180}
           rank == [r \in worthy |-> <<gain(r), r.score, -r.segment>>]
           best == ByRank(worthy, rank)[1]
           weakest == Weakest(cat, terms, selected)
           raised == Route(best.segment, best.score + (gain(best) * 5) \div 100)
           p == RecoveredRoutes(cat, terms, selected, routes)
<1>1. p = IF selected = <<>> THEN selected
          ELSE IF \/ terms = {} \/ missing = {} \/ worthy = {}
                  \/ WeakScore(cat, terms, selected[weakest], selected) < 150
               THEN ByRoute(Elements(selected))
               ELSE ByRoute((Elements(selected) \ {selected[weakest]}) \cup {raised})
  BY DEF RecoveredRoutes
<1>2. SUFFICES ASSUME selected # <<>>, worthy # {},
                      ~(WeakScore(cat, terms, selected[weakest], selected) < 150),
                      p = ByRoute((Elements(selected) \ {selected[weakest]}) \cup {raised})
               PROVE  Swapped(cat, terms, selected, routes, p)
  <2> HIDE DEF p, raised, weakest, worthy, missing
  <2> QED BY <1>1 DEF p
<1>3. weakest \in DOMAIN selected /\ selected[weakest] \in RouteSet(D)
  <2>1. weakest \in DOMAIN selected
    BY <1>2, WeakestExists
  <2>2. selected \in Seq(RouteSet(D))
    BY DEF IsPlan
  <2> HIDE DEF weakest
  <2> QED BY <2>1, <2>2
<1>4. WeakScore(cat, terms, selected[weakest], selected) >= 150
  <2>1. WeakScore(cat, terms, selected[weakest], selected) \in Int
    BY <1>3, WeakScoreType
  <2> QED BY <1>2, <2>1
<1>5. missing \in SUBSET terms
  OBVIOUS
<1>6. /\ worthy \subseteq Elements(Take(routes, RecoveryPool))
      /\ \A r \in worthy : r.segment \notin Segments(selected) /\ gain(r) >= 180
  OBVIOUS
<1> HIDE DEF worthy, weakest, missing
<1>7. /\ Elements(routes) \in SUBSET RouteSet(D) /\ IsFiniteSet(Elements(routes))
      /\ OneRouteEach(Elements(routes))
  BY SegmentsOfPlan
<1>8. worthy \in SUBSET Elements(routes) /\ IsFiniteSet(worthy)
  <2>1. Elements(Take(routes, RecoveryPool)) \subseteq Elements(routes)
    <3>1. RecoveryPool \in Nat
      BY ExpansionAssumption
    <3> QED BY <3>1, TakePlan
  <2>2. worthy \in SUBSET Elements(routes)
    BY <1>6, <2>1
  <2> QED BY <1>7, <2>2, FS_Subset
<1>9. \A r \in worthy : r \in RouteSet(D) /\ r.score \in Int /\ r.segment \in Nat
  <2>1. \A r \in worthy : r \in RouteSet(D)
    BY <1>7, <1>8
  <2> QED BY <2>1 DEF RouteSet
<1>10. \A r \in worthy : gain(r) \in Int
  BY <1>5, <1>9, RecoveryGainType
<1>11. IsRanking(worthy, rank, 3)
  <2> HIDE DEF gain
  <2>1. \A r \in worthy : rank[r] = <<gain(r), r.score, -r.segment>>
    OBVIOUS
  <2>2. \A r \in worthy : DOMAIN rank[r] = 1 .. 3
    BY <2>1
  <2>3. ASSUME NEW r \in worthy, NEW i \in 1 .. 3 PROVE rank[r][i] \in Int
    <3>1. i = 1 \/ i = 2 \/ i = 3
      OBVIOUS
    <3>2. gain(r) \in Int /\ r.score \in Int /\ -r.segment \in Int
      BY <1>9, <1>10
    <3> QED BY <2>1, <3>1, <3>2
  <2>4. \A x \in worthy : rank[x][3] = -x.segment
    BY <2>1
  <2>5. \A x, y \in worthy : -x.segment = -y.segment => x.segment = y.segment
    BY <1>9
  <2>6. \A x, y \in worthy : x # y => x.segment # y.segment
    BY <1>7, <1>8 DEF OneRouteEach
  <2> HIDE DEF rank
  <2>7. \A x, y \in worthy : x # y => rank[x][3] # rank[y][3]
    BY <2>4, <2>5, <2>6
  <2>8. \A x, y \in worthy : x # y => \E i \in 1 .. 3 : rank[x][i] # rank[y][i]
    BY <2>7
  <2> QED BY <2>2, <2>3, <2>8 DEF IsRanking
<1> HIDE DEF rank
<1>12. best \in worthy
  <2>1. Lists(ByRank(worthy, rank), worthy)
    BY <1>8, <1>11, ByRankLists
  <2> QED BY <1>2, <1>8, <2>1, FirstIsIn
<1> HIDE DEF best
<1>13. best.score + (gain(best) * 5) \div 100 \in Int
  <2> DEFINE a == best.score
             b == gain(best)
  <2>1. a \in Int /\ b \in Int
    BY <1>9, <1>10, <1>12
  <2> HIDE DEF a, b
  <2>2. a + (b * 5) \div 100 \in Int
    BY <2>1
  <2> QED BY <2>2 DEF a, b
<1>14. best \in Elements(routes) /\ best.segment \notin Segments(selected) /\ gain(best) >= 180
  BY <1>6, <1>8, <1>12
<1> HIDE DEF p
<1> QED BY <1>2, <1>3, <1>4, <1>13, <1>14 DEF Swapped, missing

LEMMA RecoveredPlan ==
    ASSUME NEW D \in SUBSET Nat, NEW cat, IsCatalog(cat, D), NEW terms \in SUBSET Terms,
           NEW selected, IsPlan(selected, D), NEW routes, IsPlan(routes, D),
           Segments(selected) \subseteq Segments(routes)
    PROVE  LET p == RecoveredRoutes(cat, terms, selected, routes) IN
           IsPlan(p, D) /\ Segments(p) \subseteq Segments(routes)
<1> DEFINE p == RecoveredRoutes(cat, terms, selected, routes)
           E == Elements(selected)
<1>1. /\ E \in SUBSET RouteSet(D) /\ IsFiniteSet(E) /\ OneRouteEach(E)
      /\ Segments(selected) = {a.segment : a \in E}
  BY SegmentsOfPlan
<1>2. D \in SUBSET Int
  OBVIOUS
<1>3. \A S : Segments(S) = {a.segment : a \in Elements(S)}
  BY DEF Segments, Elements
<1> HIDE DEF p, E
<1>4. CASE p = selected
  BY <1>4 DEF p
<1>5. CASE p = ByRoute(E)
  <2>1. Lists(ByRoute(E), E) /\ IsPlan(ByRoute(E), D)
    BY <1>1, <1>2, ByRouteLists
  <2>2. Segments(ByRoute(E)) = Segments(selected)
    BY <1>1, <1>3, <2>1 DEF Lists
  <2> QED BY <1>5, <2>1, <2>2 DEF p
<1>6. CASE Swapped(cat, terms, selected, routes, p)
  <2>1. PICK i \in DOMAIN selected, best \in Elements(routes), x \in Int :
           /\ best.segment \notin Segments(selected)
           /\ p = ByRoute((E \ {selected[i]}) \cup {Route(best.segment, x)})
    BY <1>6 DEF Swapped, E
  <2> DEFINE new == Route(best.segment, x)
             S == (E \ {selected[i]}) \cup {new}
  <2>2. best.segment \in D /\ best.segment \in Segments(routes)
    <3>1. best \in RouteSet(D)
      BY SegmentsOfPlan
    <3> QED BY <1>3, <3>1 DEF RouteSet
  <2>3. new \in RouteSet(D) /\ new.segment = best.segment
    BY <2>2 DEF Route, RouteSet
  <2> HIDE DEF new
  <2>4. S \in SUBSET RouteSet(D)
    BY <1>1, <2>3
  <2>5. IsFiniteSet(S)
    <3>1. E \ {selected[i]} \in SUBSET E
      OBVIOUS
    <3>2. IsFiniteSet(E \ {selected[i]})
      BY <1>1, <3>1, FS_Subset
    <3> QED BY <3>2, FS_AddElement
  <2>6. OneRouteEach(S)
    <3>1. \A a \in E : a.segment # new.segment
      BY <1>1, <2>1, <2>3
    <3> QED BY <1>1, <3>1 DEF OneRouteEach
  <2> HIDE DEF S
  <2>7. Lists(ByRoute(S), S) /\ IsPlan(ByRoute(S), D)
    BY <1>2, <2>4, <2>5, <2>6, ByRouteLists
  <2>8. Segments(ByRoute(S)) \subseteq Segments(routes)
    <3>1. \A a \in S : a \in E \/ a = new
      BY DEF S
    <3>2. \A a \in S : a.segment \in Segments(routes)
      BY <1>1, <2>2, <2>3, <3>1
    <3> QED BY <1>3, <2>7, <3>2 DEF Lists
  <2> QED BY <2>1, <2>7, <2>8 DEF p, S, new
<1> QED BY <1>4, <1>5, <1>6, RecoveryShape DEF p, E

-----------------------------------------------------------------------------
(* Segments close in time *)

LEMMA MinIsIn ==
    ASSUME NEW S \in SUBSET Int, IsFiniteSet(S), S # {}
    PROVE  Min(S) \in S
<1> DEFINE N == {-x : x \in S}
           f == [x \in S |-> -x]
           least == -Max(N)
<1>1. N \in SUBSET Int /\ N # {}
  <2>1. \A x \in S : -x \in Int
    OBVIOUS
  <2> QED BY <2>1
<1>2. IsFiniteSet(N)
  <2>1. f \in Surjection(S, N)
    BY DEF Surjection
  <2> HIDE DEF f, N
  <2> QED BY <2>1, FS_Surjection
<1>3. Max(N) \in N /\ \A y \in N : Max(N) >= y
  <2> HIDE DEF N
  <2> QED BY <1>1, <1>2, MaxIsIn
<1>4. PICK x \in S : Max(N) = -x
  BY <1>3
<1>5. ASSUME NEW y \in S PROVE x <= y
  <2>1. -y \in N
    OBVIOUS
  <2>2. -x >= -y /\ x \in Int /\ y \in Int
    BY <1>3, <1>4, <2>1
  <2> QED BY <2>2
<1> QED BY <1>5 DEF Min

LEMMA DatesType ==
    ASSUME NEW docs, IsFiniteSet(docs), \A d \in docs : IsDocument(d)
    PROVE  SegmentDates(docs) \in SUBSET Nat /\ IsFiniteSet(SegmentDates(docs))
<1> DEFINE dated == {e \in docs : e.date > 0}
           f == [d \in dated |-> d.date]
<1>1. SegmentDates(docs) = {d.date : d \in dated}
  BY DEF SegmentDates
<1>2. f \in Surjection(dated, {d.date : d \in dated})
  BY DEF Surjection
<1>3. IsFiniteSet(dated)
  BY FS_Subset
<1>4. {d.date : d \in dated} \in SUBSET Nat
  BY DEF IsDocument
<1> HIDE DEF f, dated
<1> QED BY <1>1, <1>2, <1>3, <1>4, FS_Surjection

LEMMA PathScoreType ==
    ASSUME NEW distance \in Nat, NEW window \in Nat \ {0}, NEW relation
    PROVE  PathScore(distance, window, relation) \in Int
<1> DEFINE a == AtMost(distance, 4 * window)
           b == 4 * window
           part == (100 * a) \div b
<1>1. b \in Nat \ {0}
  OBVIOUS
<1>2. a \in Int
  <2> HIDE DEF b
  <2>1. AtMost(distance, b) \in Int
    BY <1>1, AtMostType
  <2> QED BY <2>1 DEF b
<1>3. PathScore(distance, window, relation)
        = ((100 - part) * 3) \div 2 + IF relation = "near" THEN 100 ELSE 65
  BY DEF PathScore
<1> HIDE DEF a, b
<1>4. part \in Int
  BY <1>1, <1>2
<1> HIDE DEF part
<1> QED BY <1>3, <1>4

LEMMA AnchoredType ==
    ASSUME NEW C, IsCorpus(C), NEW chosen \in SUBSET DOMAIN C, NEW date \in Nat, NEW c, IsContext(c)
    PROVE  Anchored(C, chosen, date, c) \in SUBSET Int /\ IsFiniteSet(Anchored(C, chosen, date, c))
<1> DEFINE all == UNION {SegmentDates(C[s]) : s \in chosen}
           anchors == {a \in all : LET relation == PathRelation(date - a, c.window)
                                   IN  relation # "none" /\ MatchesHint(relation, date, c)}
           Worth(a) == PathScore(Distance(date, a), c.window, PathRelation(date - a, c.window))
           S == {Worth(a) : a \in anchors}
           f == [a \in anchors |-> Worth(a)]
           g == [s \in chosen |-> SegmentDates(C[s])]
<1>1. Anchored(C, chosen, date, c) = S
  BY DEF Anchored
<1>2. \A s \in chosen : SegmentDates(C[s]) \in SUBSET Nat /\ IsFiniteSet(SegmentDates(C[s]))
  BY DatesType DEF IsCorpus
<1>3. IsFiniteSet(all)
  <2> DEFINE G == {SegmentDates(C[s]) : s \in chosen}
  <2>1. g \in Surjection(chosen, G)
    BY DEF Surjection
  <2>2. IsFiniteSet(chosen)
    BY FS_Subset DEF IsCorpus
  <2>3. \A X \in G : IsFiniteSet(X)
    BY <1>2
  <2> HIDE DEF g, G
  <2>4. IsFiniteSet(G)
    BY <2>1, <2>2, FS_Surjection
  <2>5. IsFiniteSet(UNION G)
    BY <2>3, <2>4, FS_UNION
  <2> QED BY <2>5 DEF G
<1>4. all \in SUBSET Nat
  BY <1>2
<1>5. anchors \in SUBSET all
  OBVIOUS
<1> HIDE DEF all, anchors
<1>6. anchors \in SUBSET Nat /\ IsFiniteSet(anchors)
  BY <1>3, <1>4, <1>5, FS_Subset
<1>7. ASSUME NEW a \in anchors PROVE Worth(a) \in Int
  <2>1. Distance(date, a) \in Nat
    <3>1. a \in Int /\ date \in Int
      BY <1>6
    <3> QED BY <3>1, DistanceType
  <2>2. c.window \in Nat \ {0}
    BY DEF IsContext
  <2> DEFINE d == Distance(date, a)
             w == c.window
             r == PathRelation(date - a, c.window)
  <2> HIDE DEF d, w, r
  <2>3. PathScore(d, w, r) \in Int
    BY <2>1, <2>2, PathScoreType DEF d, w
  <2> QED BY <2>3 DEF d, w, r
<1>8. S \in SUBSET Int
  BY <1>7
<1>9. IsFiniteSet(S)
  <2>1. f \in Surjection(anchors, S)
    BY DEF Surjection
  <2> HIDE DEF f, S
  <2> QED BY <1>6, <2>1, FS_Surjection
<1> QED BY <1>1, <1>8, <1>9

\* The segments close in time follow the selection, each once.
LEMMA TemporalPathPlan ==
    ASSUME NEW C, IsCorpus(C), NEW selected, IsPlan(selected, DOMAIN C), NEW limit \in Nat,
           NEW c, IsContext(c)
    PROVE  IsPlan(TemporalPathRoutes(C, selected, limit, c), DOMAIN C)
<1> DEFINE D == DOMAIN C
           chosen == Segments(selected)
           Related(s) == {date \in SegmentDates(C[s]) : Anchored(C, chosen, date, c) # {}}
           Score(s) == Max(Anchored(C, chosen, Min(Related(s)), c))
           pool == {r \in D \ chosen : Related(r) # {}}
           near == {Route(s, Score(s)) : s \in pool}
           f == [s \in pool |-> Score(s)]
           more == Take(ByRoute(near), Max({limit, 1}))
           p == TemporalPathRoutes(C, selected, limit, c)
<1>1. p = IF ~TemporalActive(c) THEN selected ELSE selected \o more
  BY DEF TemporalPathRoutes
<1>2. chosen \in SUBSET D
  BY SegmentsOfPlan
<1>3. ASSUME NEW s \in pool PROVE Score(s) \in Int
  <2>1. Related(s) \in SUBSET SegmentDates(C[s]) /\ Related(s) # {} /\ s \in D
    OBVIOUS
  <2>2. SegmentDates(C[s]) \in SUBSET Nat /\ IsFiniteSet(SegmentDates(C[s]))
    BY <2>1, DatesType DEF IsCorpus
  <2> DEFINE R == Related(s)
             date == Min(R)
  <2>3. R \in SUBSET Int /\ IsFiniteSet(R) /\ R # {}
    <3>1. R \in SUBSET SegmentDates(C[s]) /\ R # {}
      BY <2>1
    <3> HIDE DEF R
    <3> QED BY <2>2, <3>1, FS_Subset
  <2>4. \A x \in R : x \in Nat /\ Anchored(C, chosen, x, c) # {}
    BY <2>1, <2>2
  <2>5. Score(s) = Max(Anchored(C, chosen, date, c))
    OBVIOUS
  <2> HIDE DEF R, chosen
  <2>6. date \in R
    BY <2>3, MinIsIn
  <2> HIDE DEF date
  <2>7. date \in Nat /\ Anchored(C, chosen, date, c) # {}
    BY <2>4, <2>6
  <2> DEFINE A == Anchored(C, chosen, date, c)
  <2>8. A \in SUBSET Int /\ IsFiniteSet(A)
    BY <1>2, <2>7, AnchoredType
  <2> HIDE DEF A
  <2>9. Max(A) \in A
    BY <2>7, <2>8, MaxIsIn DEF A
  <2> HIDE DEF Score
  <2> QED BY <2>5, <2>8, <2>9 DEF A
<1>4. pool \in SUBSET D /\ pool \cap chosen = {}
  OBVIOUS
<1>5. near = {Route(s, f[s]) : s \in pool}
  OBVIOUS
<1>6. f \in [pool -> Int]
  BY <1>3
<1> HIDE DEF f, pool, near
<1>7. IsPlan(ByRoute(near), D) /\ Segments(ByRoute(near)) = pool
  BY <1>4, <1>5, <1>6, PoolPlan DEF IsCorpus
<1>8. Max({limit, 1}) \in Nat
  BY BoundsOfNat
<1> DEFINE width == Max({limit, 1})
<1> HIDE DEF width
<1>9. IsPlan(more, D) /\ Segments(more) \subseteq pool
  <2>1. IsPlan(Take(ByRoute(near), width), D) /\ Segments(Take(ByRoute(near), width)) \subseteq pool
    BY <1>7, <1>8, TakenPlan DEF width
  <2> QED BY <2>1 DEF width
<1> HIDE DEF more, p
<1>10. Segments(selected) \cap Segments(more) = {}
  BY <1>4, <1>9
<1> HIDE DEF chosen, D
<1>11. IsPlan(selected \o more, D)
  BY <1>9, <1>10, JoinedPlans DEF D
<1> QED BY <1>1, <1>11 DEF p, D

-----------------------------------------------------------------------------
(* Segments connected to a selected one *)

\* Routes to segments of D, at most one to each.
Selection(D, S) == S \in SUBSET RouteSet(D) /\ IsFiniteSet(S) /\ OneRouteEach(S)

Targets(S) == {a.segment : a \in S}

LEMMA MeetKeeps ==
    ASSUME NEW D, NEW profile, NEW v, Selection(D, v.selected), NEW limit,
           NEW a \in RouteSet(D), a.segment \notin Targets(v.selected), NEW e \in Int
    PROVE  LET w == Meet(profile, v, a, e, limit) IN
           Selection(D, w.selected) /\ Targets(w.selected) \subseteq Targets(v.selected) \cup {a.segment}
<1> DEFINE route == Route(a.segment, a.score + (e * 10) \div 100)
           least == LeastSupported(profile, v.selected)
           w == Meet(profile, v, a, e, limit)
           S == v.selected
<1>1. w = v \/ w.selected = S \cup {route} \/ w.selected = (S \ {least}) \cup {route}
  BY DEF Meet
<1>2. route \in RouteSet(D) /\ route.segment = a.segment
  <2> DEFINE x == a.score
  <2>1. x \in Int /\ a.segment \in D
    BY DEF RouteSet
  <2> HIDE DEF x
  <2>2. x + (e * 10) \div 100 \in Int
    BY <2>1
  <2> QED BY <2>1, <2>2 DEF Route, RouteSet, x
<1> HIDE DEF route, least, w
<1>3. ASSUME NEW P \in SUBSET S
      PROVE  Selection(D, P \cup {route}) /\ Targets(P \cup {route}) \subseteq Targets(S) \cup {a.segment}
  <2>1. IsFiniteSet(P \cup {route})
    <3>1. IsFiniteSet(P)
      BY FS_Subset DEF Selection
    <3> QED BY <3>1, FS_AddElement
  <2>2. P \cup {route} \in SUBSET RouteSet(D)
    BY <1>2 DEF Selection
  <2>3. OneRouteEach(P \cup {route})
    <3>1. \A b \in P : b.segment # route.segment
      BY <1>2 DEF Targets
    <3> QED BY <3>1 DEF Selection, OneRouteEach
  <2>4. Targets(P \cup {route}) \subseteq Targets(S) \cup {a.segment}
    BY <1>2 DEF Targets
  <2> QED BY <2>1, <2>2, <2>3, <2>4 DEF Selection
<1>4. S \in SUBSET S /\ S \ {least} \in SUBSET S
  OBVIOUS
<1>5. CASE w = v
  BY <1>5 DEF w
<1>6. CASE w.selected = S \cup {route}
  BY <1>3, <1>4, <1>6 DEF w
<1>7. CASE w.selected = (S \ {least}) \cup {route}
  BY <1>3, <1>4, <1>7 DEF w
<1> QED BY <1>1, <1>5, <1>6, <1>7

LEMMA ConnectionSupportType ==
    ASSUME NEW profile, NEW s, IsProfile(profile[s]), NEW others, IsFiniteSet(others)
    PROVE  ConnectionSupport(profile, s, others) \in Nat
<1> DEFINE rest == others \ {s}
           f == [r \in rest |-> ConnectionScore(profile[s], profile[r])]
           V == {ConnectionScore(profile[s], profile[r]) : r \in rest}
           S == {0} \cup V
<1>1. V \in SUBSET Nat
  BY ConnectionScoreType
<1>2. IsFiniteSet(V)
  <2>1. f \in Surjection(rest, V)
    BY DEF Surjection
  <2>2. IsFiniteSet(rest)
    BY FS_Subset
  <2> HIDE DEF f, rest, V
  <2> QED BY <2>1, <2>2, FS_Surjection
<1>3. ConnectionSupport(profile, s, others) = Max(S)
  BY DEF ConnectionSupport
<1> HIDE DEF V
<1>4. S \in SUBSET Nat /\ S \in SUBSET Int /\ S # {}
  BY <1>1
<1>5. IsFiniteSet(S)
  <2>1. IsFiniteSet({0})
    BY FS_Singleton
  <2> QED BY <1>2, <2>1, FS_Union
<1> HIDE DEF S
<1>6. Max(S) \in S
  BY <1>4, <1>5, MaxIsIn
<1> QED BY <1>3, <1>4, <1>6

LEMMA DatedProfile ==
    ASSUME NEW p, IsProfile(p), NEW docs, NEW c
    PROVE  IsProfile(WithQueryDate(p, docs, c))
<1> DEFINE q == WithQueryDate(p, docs, c)
           near == IF NearQueryDate(docs, c) THEN {NearKey} ELSE {}
<1>1. \A k \in Kinds : q[k] = p[k] \/ q[k] = p[k] \cup near
  <2>1. DOMAIN p = Kinds
    BY DEF IsProfile
  <2> HIDE DEF near
  <2>2. q = [p EXCEPT !.times = @ \cup near]
    BY DEF WithQueryDate, near
  <2> QED BY <2>1, <2>2
<1>4. DOMAIN q = Kinds
  BY DEF WithQueryDate, IsProfile
<1>2. IsFiniteSet(near)
  BY FS_Singleton, FS_EmptySet
<1> HIDE DEF near, q
<1>3. \A k \in Kinds : IsFiniteSet(p[k]) /\ IsFiniteSet(p[k] \cup near)
  BY <1>2, FS_Union DEF IsProfile
<1> QED BY <1>1, <1>3, <1>4 DEF IsProfile, q

LEMMA RouteOfType ==
    ASSUME NEW D, NEW routes, IsPlan(routes, D), NEW s \in D
    PROVE  RouteOf(routes, s) \in RouteSet(D) /\ RouteOf(routes, s).segment = s
<1>1. Segments(routes) = {r.segment : r \in Elements(routes)} /\ Elements(routes) \in SUBSET RouteSet(D)
  BY SegmentsOfPlan
<1>2. Route(s, 0) \in RouteSet(D) /\ Route(s, 0).segment = s
  BY DEF Route, RouteSet
<1>3. CASE s \in Segments(routes)
  <2>1. \E r \in Elements(routes) : r.segment = s
    BY <1>1, <1>3
  <2>2. RouteOf(routes, s) = CHOOSE r \in Elements(routes) : r.segment = s
    BY <1>3 DEF RouteOf
  <2>3. RouteOf(routes, s) \in Elements(routes) /\ RouteOf(routes, s).segment = s
    BY <2>1, <2>2
  <2> QED BY <1>1, <2>3
<1>4. CASE s \notin Segments(routes)
  BY <1>2, <1>4 DEF RouteOf
<1> QED BY <1>3, <1>4

LEMMA CandidatesType ==
    ASSUME NEW D, NEW cat, IsCatalog(cat, D), NEW selected, IsPlan(selected, D),
           NEW routes, IsPlan(routes, D), NEW limit \in Nat
    PROVE  LET S == ConnectedCandidates(cat, selected, routes, limit) IN
           S \in SUBSET D /\ S \cap Segments(selected) = {}
<1> DEFINE pool  == AtMost(Max({3 * limit, limit + 5}), NeighborLimit)
           typed == UNION {TypedCandidates(cat, cat.profile[s]) : s \in Segments(selected)}
           all   == (Segments(Take(routes, pool)) \cup typed) \ Segments(selected)
           w     == [s \in all |-> 0]
           order == ByWeight(all, w)
<1>1. ConnectedCandidates(cat, selected, routes, limit) = Elements(Take(order, NeighborLimit))
  BY DEF ConnectedCandidates, ByScore
<1>2. typed \in SUBSET D
  BY TypedType
<1>3. pool \in Nat
  <2> DEFINE a == 3 * limit
             b == limit + 5
  <2>1. a \in Nat /\ b \in Nat /\ NeighborLimit \in Nat
    BY ExpansionAssumption
  <2> HIDE DEF a, b
  <2>2. AtMost(Max({a, b}), NeighborLimit) \in Nat
    BY <2>1, BoundsOfNat
  <2> QED BY <2>2 DEF a, b
<1> HIDE DEF pool, typed
<1>4. Segments(Take(routes, pool)) \in SUBSET D
  <2>1. IsPlan(Take(routes, pool), D)
    BY <1>3, TakenPlan
  <2> QED BY <2>1, SegmentsOfPlan
<1>5. all \in SUBSET D /\ all \cap Segments(selected) = {}
  BY <1>2, <1>4
<1> HIDE DEF all
<1>6. IsFiniteSet(all) /\ all \subseteq Int /\ w \in [all -> Int]
  <2>1. IsFiniteSet(D) /\ D \subseteq Nat
    BY DEF IsCatalog
  <2>2. IsFiniteSet(all)
    BY <1>5, <2>1, FS_Subset
  <2>3. all \subseteq Int
    BY <1>5, <2>1
  <2> QED BY <2>2, <2>3
<1> HIDE DEF w
<1>7. Lists(order, all)
  BY <1>6, ByWeightLists
<1> HIDE DEF order
<1>8. Elements(Take(order, NeighborLimit)) \subseteq all
  <2>1. order \in Seq(all) /\ Elements(order) = all
    BY <1>7 DEF Lists
  <2>2. NeighborLimit \in Nat
    BY ExpansionAssumption
  <2> DEFINE t == Take(order, NeighborLimit)
  <2>3. \A i \in DOMAIN t : i \in DOMAIN order /\ t[i] = order[i]
    BY <2>1, <2>2, TakeIsHead
  <2> HIDE DEF t
  <2>4. Elements(t) \subseteq all
    BY <2>1, <2>3 DEF Elements
  <2> QED BY <2>4 DEF t
<1> QED BY <1>1, <1>5, <1>8

\* One candidate of the order meets the selection.
MeetNth(profile, routes, chosen, ordered, limit, n, v) ==
    Meet(profile, v, RouteOf(routes, ordered[n]), ConnectionSupport(profile, ordered[n], chosen), limit)

MeetingStep(c, n, v) == MeetNth(c[1], c[2], c[3], c[4], c[5], n, v)

Meeting == INSTANCE FoldTheorems WITH Step <- MeetingStep, Choice <- LastOf, Inv <- Anything

\* No segment is in a connected selection twice.
LEMMA ConnectedPlan ==
    ASSUME NEW C, IsCorpus(C), NEW cat, IsCatalog(cat, DOMAIN C),
           NEW selected, IsPlan(selected, DOMAIN C), NEW routes, IsPlan(routes, DOMAIN C),
           NEW limit \in Nat, NEW c
    PROVE  IsPlan(ConnectedRoutes(cat, C, selected, routes, limit, c), DOMAIN C)
<1> DEFINE D == DOMAIN C
           profile == [s \in D |-> WithQueryDate(cat.profile[s], C[s], c)]
           chosen == Segments(selected)
           evidence(s) == ConnectionSupport(profile, s, chosen)
           near == {s \in ConnectedCandidates(cat, selected, routes, limit) : evidence(s) >= 140}
           rank == [s \in near |-> <<evidence(s), RouteOf(routes, s).score, -s>>]
           ordered == ByRank(near, rank)
           n == Len(ordered)
           x == <<profile, routes, chosen, ordered, limit>>
           start == [selected |-> Elements(selected), swapped |-> FALSE]
           p == ConnectedRoutes(cat, C, selected, routes, limit, c)
<1>1. p = IF selected = <<>> THEN selected ELSE ByRoute(Meeting!Iterated(x, start, n).selected)
  BY DEF ConnectedRoutes, Meeting!Iterated, MeetingStep, MeetNth
<1>2. /\ chosen \in SUBSET D /\ IsFiniteSet(chosen) /\ Targets(Elements(selected)) = chosen
      /\ Selection(D, Elements(selected))
  BY SegmentsOfPlan DEF Selection, Targets
<1>3. \A s \in D : IsProfile(profile[s])
  <2>1. \A s \in D : IsProfile(cat.profile[s])
    BY DEF IsCatalog
  <2> QED BY <2>1, DatedProfile
<1> HIDE DEF profile, p
<1>4. IsFiniteSet(D) /\ D \subseteq Nat /\ D \in SUBSET Int
  BY DEF IsCorpus
<1>5. near \in SUBSET D /\ near \cap chosen = {} /\ IsFiniteSet(near)
  <2>1. near \subseteq ConnectedCandidates(cat, selected, routes, limit)
    OBVIOUS
  <2> HIDE DEF near
  <2>2. near \in SUBSET D /\ near \cap chosen = {}
    BY <2>1, CandidatesType
  <2> QED BY <1>4, <2>2, FS_Subset
<1> HIDE DEF chosen, near
<1>6. ASSUME NEW s \in D PROVE evidence(s) \in Int
  BY <1>2, <1>3, ConnectionSupportType
<1>7. \A s \in D : /\ RouteOf(routes, s) \in RouteSet(D) /\ RouteOf(routes, s).segment = s
                   /\ RouteOf(routes, s).score \in Int
  BY RouteOfType DEF RouteSet
<1>8. Lists(ordered, near)
  <2>1. \A s \in near : rank[s] = <<evidence(s), RouteOf(routes, s).score, -s>>
    OBVIOUS
  <2>2. \A s \in near : DOMAIN rank[s] = 1 .. 3
    BY <2>1
  <2>3. ASSUME NEW s \in near, NEW i \in 1 .. 3 PROVE rank[s][i] \in Int
    <3>1. i = 1 \/ i = 2 \/ i = 3
      OBVIOUS
    <3>2. evidence(s) \in Int /\ RouteOf(routes, s).score \in Int /\ -s \in Int
      BY <1>4, <1>5, <1>6, <1>7
    <3> HIDE DEF evidence, rank
    <3> QED BY <2>1, <3>1, <3>2
  <2>4. \A s, t \in near : s # t => -s # -t
    BY <1>4, <1>5
  <2>5. \A s \in near : rank[s][3] = -s
    BY <2>1
  <2> HIDE DEF rank
  <2>6. \A s, t \in near : s # t => \E i \in 1 .. 3 : rank[s][i] # rank[t][i]
    BY <2>4, <2>5
  <2>7. IsRanking(near, rank, 3)
    BY <2>2, <2>3, <2>6 DEF IsRanking
  <2> QED BY <1>5, <2>7, ByRankLists
<1> HIDE DEF rank, ordered
<1>9. /\ n \in Nat /\ DOMAIN ordered = 1 .. n /\ \A i \in 1 .. n : ordered[i] \in near
      /\ \A i, j \in 1 .. n : i # j => ordered[i] # ordered[j]
  BY <1>8 DEF Lists
<1> HIDE DEF n
<1>10. PICK tr : Meeting!IsTrace(x, start, n, tr) /\ Meeting!Iterated(x, start, n) = tr[n]
  <2>1. Meeting!Chooses(1 .. n) /\ \A k \in 1 .. n : LastOf(1 .. k) = k
    BY <1>9, LastOfInterval DEF Meeting!Chooses
  <2> QED BY <1>9, <2>1, Meeting!IterationHasTrace
<1>11. tr[0] = start /\ \A k \in 1 .. n : tr[k] = MeetNth(profile, routes, chosen, ordered, limit, k, tr[k - 1])
  BY <1>10 DEF Meeting!IsTrace, MeetingStep
<1> DEFINE Holds(k) == /\ Selection(D, tr[k].selected)
                       /\ \A i \in 1 .. n : i > k => ordered[i] \notin Targets(tr[k].selected)
           T == {k \in Nat : k <= n => Holds(k)}
<1>12. Holds(0)
  BY <1>2, <1>5, <1>9, <1>11
<1>13. ASSUME NEW k \in Nat, k < n, Holds(k) PROVE Holds(k + 1)
  <2> DEFINE v == tr[k]
             s == ordered[k + 1]
             a == RouteOf(routes, s)
             e == ConnectionSupport(profile, s, chosen)
             w == Meet(profile, v, a, e, limit)
  <2>1. k + 1 \in 1 .. n /\ (k + 1) - 1 = k /\ k + 1 > k
    BY <1>9, <1>13
  <2>2. tr[k + 1] = w
    BY <1>11, <2>1 DEF MeetNth
  <2>3. s \in D
    BY <1>5, <1>9, <2>1
  <2>4. a \in RouteSet(D) /\ a.segment = s /\ e \in Int
    BY <1>6, <1>7, <2>3
  <2>5. Selection(D, v.selected) /\ s \notin Targets(v.selected)
    BY <1>13, <2>1
  <2> HIDE DEF v, a, e
  <2>6. Selection(D, w.selected) /\ Targets(w.selected) \subseteq Targets(v.selected) \cup {a.segment}
    BY <2>4, <2>5, MeetKeeps
  <2> HIDE DEF w
  <2>7. ASSUME NEW i \in 1 .. n, i > k + 1 PROVE ordered[i] \notin Targets(w.selected)
    <3>1. i > k /\ i # k + 1
      BY <2>7
    <3>2. ordered[i] \notin Targets(v.selected) /\ ordered[i] # s
      BY <1>9, <1>13, <2>1, <3>1 DEF v
    <3> QED BY <2>4, <2>6, <3>2
  <2> QED BY <2>2, <2>6, <2>7
<1>14. Holds(n)
  <2>1. 0 \in T
    BY <1>12
  <2>2. \A k \in Nat : k < n /\ k \in T => k + 1 \in T
    BY <1>9, <1>13
  <2>3. n \in T
    <3> HIDE DEF T
    <3> QED BY <1>9, <2>1, <2>2, Meeting!StepsReach
  <2> QED BY <1>9, <2>3
<1>15. IsPlan(ByRoute(tr[n].selected), D)
  <2> DEFINE S == tr[n].selected
  <2>1. Selection(D, S)
    BY <1>14
  <2> HIDE DEF S
  <2>2. IsPlan(ByRoute(S), D)
    BY <1>4, <2>1, ByRouteLists DEF Selection
  <2> QED BY <2>2 DEF S
<1> HIDE DEF D
<1>16. IsPlan(p, D)
  BY <1>1, <1>10, <1>15 DEF D
<1> QED BY <1>16 DEF p, D

-----------------------------------------------------------------------------
(* The plan of a query *)

LEMMA PreparedIsContext ==
    ASSUME NEW r, NEW allowed
    PROVE  IsContext(PreparedContext(r, allowed))
<1>1. WindowOf(r.hint) \in Nat \ {0}
  BY DEF WindowOf
<1>2. PreparedContext(r, allowed).window = WindowOf(r.hint) /\ PreparedContext(r, allowed).end = 0
  BY DEF PreparedContext, NoContext
<1> QED BY <1>1, <1>2 DEF IsContext

LEMMA GivenIsContext ==
    ASSUME NEW r, r.end \in Nat, r.window \in Nat
    PROVE  IsContext(GivenContext(r))
<1> DEFINE w == r.window
<1> HIDE DEF w
<1>1. Max({w, 1}) = IF w >= 1 THEN w ELSE 1
  BY MaxOfTwo DEF w
<1>2. Max({w, 1}) \in Nat \ {0}
  BY <1>1 DEF w
<1>3. GivenContext(r).window = Max({w, 1}) /\ GivenContext(r).end = r.end
  BY DEF GivenContext, w
<1> QED BY <1>2, <1>3 DEF IsContext

LEMMA PublishedType == ASSUME NEW p \in Publications PROVE IsCorpus(Published(p))
<1> DEFINE docs == p.docs
           groups == {d.group : d \in docs}
           f == [d \in docs |-> d.group]
           g == [s \in groups |-> {d \in docs : d.group = s}]
           m == [s \in DOMAIN p.manifest |-> {d \in docs : d.id \in p.manifest[s]}]
<1>1. /\ IsFiniteSet(docs) /\ \A d \in docs : IsDocument(d)
      /\ IsFiniteSet(DOMAIN p.manifest) /\ DOMAIN p.manifest \subseteq Nat
  BY PublicationAssumption
<1>2. Published(p) = m \/ Published(p) = g
  BY DEF Published, GroupSegments
<1>3. \A S \in SUBSET docs : IsFiniteSet(S) /\ \A d \in S : IsDocument(d)
  BY <1>1, FS_Subset
<1>4. IsFiniteSet(groups) /\ groups \subseteq Nat
  <2>1. f \in Surjection(docs, groups)
    BY DEF Surjection
  <2>2. groups \subseteq Nat
    BY <1>1 DEF IsDocument
  <2> HIDE DEF f, groups, docs
  <2> QED BY <1>1, <2>1, <2>2, FS_Surjection
<1>5. /\ DOMAIN m = DOMAIN p.manifest /\ \A s \in DOMAIN m : m[s] \in SUBSET docs
      /\ DOMAIN g = groups /\ \A s \in DOMAIN g : g[s] \in SUBSET docs
  OBVIOUS
<1> HIDE DEF m, g, groups, docs
<1> QED BY <1>1, <1>2, <1>3, <1>4, <1>5 DEF IsCorpus

\* What planning relies on and establishes: the published catalog is that of the
\* corpus, and the plan has one route per segment, each with an allowed document
\* but for the two expansions that follow dates and connections.
QueryInv ==
    /\ IsCorpus(corpus) /\ catalog = Catalog(corpus) /\ request \in Requests
    /\ stage = "new" => plan = <<>>
    /\ IsPlan(plan, DOMAIN corpus)
    /\ request.mode \notin {"temporal_path", "connected"} => AllEligible(corpus, ctx, plan)

LEMMA EmptyPlan ==
    ASSUME NEW D PROVE IsPlan(<<>>, D) /\ \A C, c : AllEligible(C, c, <<>>)
BY DEF IsPlan, OneEach, AllEligible, Segments

\* The head of the routes of an enriched query, as it is or widened or corrected.
LEMMA EnrichedPlan ==
    ASSUME QueryInv, NEW c, NEW ranked, IsPlan(ranked, DOMAIN corpus), AllEligible(corpus, c, ranked),
           IsContext(c), PlanWithin(c, ranked)
    PROVE  /\ IsPlan(plan', DOMAIN corpus) /\ ctx' = c
           /\ request.mode \notin {"temporal_path", "connected"} => AllEligible(corpus, c, plan')
           /\ UNCHANGED <<corpus, catalog, request>> /\ stage' = "planned"
<1> DEFINE D == DOMAIN corpus
           top == Take(ranked, request.limit)
           Good(p) == IsPlan(p, D) /\ AllEligible(corpus, c, p)
<1>1. /\ request.limit \in Nat /\ request.maxLimit \in Nat /\ request.terms \in SUBSET Terms
      /\ IsCorpus(corpus) /\ IsCatalog(catalog, D) /\ D \in SUBSET Nat
  BY RequestType, CatalogType DEF QueryInv, IsCorpus
<1>2. /\ IsPlan(top, D) /\ Segments(top) \subseteq Segments(ranked) /\ AllEligible(corpus, c, top)
      /\ Elements(top) \subseteq Elements(ranked)
  BY <1>1, TakenPlan, TakePlan
<1>3. Good(AdaptiveRoutes(catalog, request.terms, ranked, request.limit, request.maxLimit))
  <2> DEFINE p == AdaptiveRoutes(catalog, request.terms, ranked, request.limit, request.maxLimit)
  <2>1. IsPlan(p, D) /\ Elements(p) \subseteq Elements(ranked)
    BY <1>1, AdaptivePlan
  <2> HIDE DEF p
  <2>2. AllEligible(corpus, c, p)
    BY <2>1, PartOfPlan
  <2> QED BY <2>1, <2>2 DEF p
<1>4. Good(RecoveredRoutes(catalog, request.terms, top, ranked))
  <2> DEFINE p == RecoveredRoutes(catalog, request.terms, top, ranked)
  <2> HIDE DEF top
  <2>1. IsPlan(p, D) /\ Segments(p) \subseteq Segments(ranked)
    BY <1>1, <1>2, RecoveredPlan
  <2> HIDE DEF p
  <2>2. AllEligible(corpus, c, p)
    BY <2>1 DEF AllEligible
  <2> QED BY <2>1, <2>2 DEF p
<1>5. IsPlan(TemporalPathRoutes(corpus, top, request.limit, c), D)
  <2> HIDE DEF top
  <2> QED BY <1>1, <1>2, TemporalPathPlan
<1>6. IsPlan(ConnectedRoutes(catalog, corpus, top, ranked, request.limit, c), D)
  <2> HIDE DEF top
  <2> QED BY <1>1, <1>2, ConnectedPlan
<1>7. ASSUME NEW p, Good(p), Planned(c, ranked, p)
      PROVE  /\ IsPlan(plan', D) /\ ctx' = c /\ AllEligible(corpus, c, plan')
             /\ UNCHANGED <<corpus, catalog, request>> /\ stage' = "planned"
  BY <1>7 DEF Planned
<1> HIDE DEF top
<1>8. CASE PlanAdaptive(c, ranked)
  BY <1>3, <1>7, <1>8 DEF PlanAdaptive
<1>9. CASE PlanAdaptiveRouteAware(c, ranked)
  BY <1>3, <1>7, <1>9 DEF PlanAdaptiveRouteAware
<1>10. CASE PlanEnriched(c, ranked) \/ PlanRouteAware(c, ranked) \/ PlanSessionAggregated(c, ranked)
  <2>1. Planned(c, ranked, top)
    BY <1>10 DEF PlanEnriched, PlanRouteAware, PlanSessionAggregated, TopRoutes, top
  <2> QED BY <1>2, <1>7, <2>1
<1>11. CASE PlanTemporalPath(c, ranked)
  BY <1>5, <1>11 DEF PlanTemporalPath, Planned, top
<1>12. CASE PlanConnected(c, ranked)
  BY <1>6, <1>12 DEF PlanConnected, Planned, top
<1>13. CASE PlanRecovery(c, ranked)
  <2>1. Planned(c, ranked, RecoveredRoutes(catalog, request.terms, top, ranked))
    BY <1>13 DEF PlanRecovery, top
  <2> HIDE DEF Good
  <2> QED BY <1>4, <1>7, <2>1
<1> QED BY <1>8, <1>9, <1>10, <1>11, <1>12, <1>13 DEF PlanWithin

LEMMA PlanStep == ASSUME QueryInv, Plan PROVE QueryInv'
<1> DEFINE D == DOMAIN corpus
           routes == Routes(catalog, corpus, request, request.strategy)
<1>1. /\ IsRequest(request) /\ IsCorpus(corpus) /\ IsCatalog(catalog, D)
      /\ request.end \in Nat /\ request.window \in Nat
  BY RequestType, CatalogType DEF QueryInv
<1>2. IsPlan(routes, D)
  BY <1>1, RoutesPlan
<1>3. \/ PlanSegmented(routes) \/ PlanAll(routes)
      \/ \E c \in {EnrichedContext} : \E ranked \in {TemporalRoutes(corpus, routes, c)} :
            PlanWithin(c, ranked)
  BY DEF Plan
<1> HIDE DEF routes
<1>4. ASSUME NEW c, IsPlan(plan', D), ctx' = c, stage' = "planned",
             request.mode \notin {"temporal_path", "connected"} => AllEligible(corpus, c, plan'),
             UNCHANGED <<corpus, catalog, request>>
      PROVE  QueryInv'
  <2>1. corpus' = corpus /\ catalog' = catalog /\ request' = request
    BY <1>4
  <2>2. IsCorpus(corpus') /\ catalog' = Catalog(corpus') /\ request' \in Requests
    BY <2>1 DEF QueryInv
  <2>3. IsPlan(plan', DOMAIN corpus')
    BY <1>4, <2>1
  <2>4. request'.mode \notin {"temporal_path", "connected"} => AllEligible(corpus', ctx', plan')
    BY <1>4, <2>1
  <2>5. stage' # "new"
    BY <1>4
  <2> QED BY <2>2, <2>3, <2>4, <2>5 DEF QueryInv
<1>5. ASSUME NEW c, NEW executeAll \in BOOLEAN,
             Planned(c, DefaultPlan(routes, c, executeAll).routes, DefaultPlan(routes, c, executeAll).chosen)
      PROVE  QueryInv'
  <2> DEFINE p == DefaultPlan(routes, c, executeAll).chosen
  <2>1. IsPlan(p, D) /\ AllEligible(corpus, c, p)
    BY <1>1, <1>2, DefaultChosen DEF QueryInv
  <2>2. plan' = p /\ ctx' = c /\ stage' = "planned" /\ UNCHANGED <<corpus, catalog, request>>
    BY <1>5 DEF Planned
  <2> HIDE DEF p, D
  <2> QED BY <1>4, <2>1, <2>2
<1>6. CASE PlanSegmented(routes)
  <2>1. PICK c : Planned(c, DefaultPlan(routes, c, FALSE).routes, DefaultPlan(routes, c, FALSE).chosen)
    BY <1>6 DEF PlanSegmented
  <2> QED BY <1>5, <2>1
<1>7. CASE PlanAll(routes)
  <2>1. PICK c : Planned(c, DefaultPlan(routes, c, TRUE).routes, DefaultPlan(routes, c, TRUE).chosen)
    BY <1>7 DEF PlanAll
  <2> QED BY <1>5, <2>1
<1>8. ASSUME NEW c, c = EnrichedContext, NEW ranked, ranked = TemporalRoutes(corpus, routes, c),
             PlanWithin(c, ranked)
      PROVE  QueryInv'
  <2>1. IsContext(c)
    BY <1>1, <1>8, PreparedIsContext, GivenIsContext DEF EnrichedContext
  <2>2. IsPlan(ranked, D) /\ AllEligible(corpus, c, ranked)
    BY <1>1, <1>2, <1>8, <2>1, TemporalPlan
  <2>3. /\ IsPlan(plan', D) /\ ctx' = c
        /\ request.mode \notin {"temporal_path", "connected"} => AllEligible(corpus, c, plan')
        /\ UNCHANGED <<corpus, catalog, request>> /\ stage' = "planned"
    BY <1>8, <2>1, <2>2, EnrichedPlan
  <2> QED BY <1>4, <2>3
<1> QED BY <1>3, <1>6, <1>7, <1>8

LEMMA QueryInvStep == ASSUME QueryInv, [QueryNext]_queryVars PROVE QueryInv'
<1>1. CASE Plan
  BY <1>1, PlanStep
<1>2. CASE UNCHANGED <<corpus, catalog, request, ctx, plan>> /\ (stage' = "new" => stage = "new")
  <2>1. /\ corpus' = corpus /\ catalog' = catalog /\ request' = request /\ ctx' = ctx
        /\ plan' = plan
    BY <1>2
  <2> QED BY <1>2, <2>1 DEF QueryInv
<1>3. CASE /\ UNCHANGED <<corpus, catalog, request, plan>> /\ stage = "new" /\ stage' = "answered"
  <2>1. corpus' = corpus /\ catalog' = catalog /\ request' = request /\ plan' = <<>> /\ stage' # "new"
    BY <1>3 DEF QueryInv
  <2>2. IsPlan(plan', DOMAIN corpus') /\ AllEligible(corpus', ctx', plan')
    BY <2>1, EmptyPlan
  <2> QED BY <2>1, <2>2 DEF QueryInv
<1>4. CASE AnswerEmpty \/ SearchOneSegment \/ SearchSingleIndex
  BY <1>3, <1>4 DEF AnswerEmpty, SearchOneSegment, SearchSingleIndex
<1>5. CASE ExecuteBatch \/ ReduceDefault \/ ExecuteEnriched \/ PanicEnriched \/ ReduceEnriched
  BY <1>2, <1>5 DEF ExecuteBatch, ReduceDefault, ExecuteEnriched, PanicEnriched, ReduceEnriched
<1>6. CASE Terminated \/ UNCHANGED queryVars
  BY <1>2, <1>6 DEF Terminated, queryVars
<1> QED BY <1>1, <1>4, <1>5, <1>6 DEF QueryNext

THEOREM QueryInvHolds == QuerySpec => []QueryInv
<1>1. QueryInit => QueryInv
  BY PublishedType, EmptyPlan DEF QueryInit, QueryInv
<1> QED BY <1>1, QueryInvStep, PTL DEF QuerySpec

\* No query is planned on one segment twice, nor, the two expansions aside, on a
\* segment without an allowed document.
THEOREM PlanIsEligibleHolds == QuerySpec => []PlanIsEligible
<1>1. QueryInv => PlanIsEligible
  BY DEF QueryInv, PlanIsEligible, IsPlan, OneEach, AllEligible
<1> QED BY <1>1, QueryInvHolds, PTL

-----------------------------------------------------------------------------
(* What recovery gains *)

\* A segment that alone covers a term is never weak enough to be replaced.
LEMMA WeakIsNotAlone ==
    ASSUME NEW D, NEW cat, IsCatalog(cat, D), NEW terms \in SUBSET Terms,
           NEW r \in RouteSet(D), NEW selected, WeakScore(cat, terms, r, selected) >= 150
    PROVE  CoveredTerms(cat, terms, {r.segment}) \subseteq
             CoveredTerms(cat, terms, Segments(selected) \ {r.segment})
<1> DEFINE m       == cat.summary[r.segment]
           covered == CoveredTerms(cat, terms, {r.segment})
           others  == CoveredTerms(cat, terms, Segments(selected) \ {r.segment})
           unique  == Cardinality(covered \ others)
           f       == [t \in covered |-> Cardinality(EvidenceTypes(m, t))]
           g       == [t \in covered |-> LocalTermWeight(m, t)]
           few     == IF Cardinality(covered) <= 1 THEN 80 ELSE 0
           plain   == IF Total(f) <= Cardinality(covered) THEN 50 ELSE 0
           light   == IF Total(g) < 75 THEN 70 ELSE 0
           cut     == (NonNegative(r.score) * 3) \div 100
<1>1. WeakScore(cat, terms, r, selected)
        = IF covered = {} THEN 300
          ELSE (IF unique = 0 THEN 160 ELSE -110 * unique) + few + plain + light - cut
  BY DEF WeakScore, Sum
<1>2. covered \ others \in SUBSET Terms
  BY DEF CoveredTerms
<1> HIDE DEF covered, others
<1>3. unique \in Nat /\ (unique = 0 => covered \ others = {})
  <2>1. IsFiniteSet(covered \ others)
    BY <1>2, FiniteTerms
  <2> QED BY <2>1, FS_CardinalityType, FS_EmptySet
<1>4. few \in 0 .. 80 /\ plain \in 0 .. 50 /\ light \in 0 .. 70
  OBVIOUS
<1>5. cut \in Nat
  <2> DEFINE a == NonNegative(r.score)
  <2>1. a \in Nat
    BY NonNegativeType DEF RouteSet
  <2> HIDE DEF a
  <2>2. (a * 3) \div 100 \in Nat
    BY <2>1
  <2> QED BY <2>2 DEF a
<1> HIDE DEF unique, few, plain, light, cut
<1>6. covered = {} \/ unique = 0
  <2> SUFFICES ASSUME covered # {}, unique # 0 PROVE FALSE
    OBVIOUS
  <2>1. -110 * unique + few + plain + light - cut >= 150
    BY <1>1
  <2> QED BY <1>3, <1>4, <1>5, <2>1
<1> QED BY <1>3, <1>6 DEF covered, others

\* What a recovery leaves of the selection, and what it adds.
Gains(cat, terms, before, after) ==
    /\ CoveredTerms(cat, terms, before) \subseteq CoveredTerms(cat, terms, after)
    /\ after # before => CoveredTerms(cat, terms, before) # CoveredTerms(cat, terms, after)
    /\ Cardinality(after) = Cardinality(before)

LEMMA RecoveryGains ==
    ASSUME NEW D \in SUBSET Nat, NEW cat, IsCatalog(cat, D), NEW terms \in SUBSET Terms,
           NEW selected, IsPlan(selected, D), NEW routes, IsPlan(routes, D)
    PROVE  Gains(cat, terms, Segments(selected),
                 Segments(RecoveredRoutes(cat, terms, selected, routes)))
<1> DEFINE p == RecoveredRoutes(cat, terms, selected, routes)
           E == Elements(selected)
           B == Segments(selected)
           Reached(S) == CoveredTerms(cat, terms, S)
<1>1. /\ E \in SUBSET RouteSet(D) /\ IsFiniteSet(E) /\ OneRouteEach(E)
      /\ B = {a.segment : a \in E} /\ IsFiniteSet(B)
  BY SegmentsOfPlan
<1>2. D \in SUBSET Int
  OBVIOUS
<1>3. \A S : Segments(S) = {a.segment : a \in Elements(S)}
  BY DEF Segments, Elements
<1>4. Gains(cat, terms, B, B)
  BY DEF Gains
<1>5. \A i \in DOMAIN selected : selected[i] \in E
  BY DEF Elements
<1> HIDE DEF p, E, B
<1>6. CASE p = selected
  BY <1>4, <1>6 DEF p, B
<1>7. CASE p = ByRoute(E)
  <2>1. Lists(ByRoute(E), E)
    BY <1>1, <1>2, ByRouteLists
  <2>2. Segments(p) = B
    BY <1>1, <1>3, <1>7, <2>1 DEF Lists
  <2> QED BY <1>4, <2>2 DEF p, B
<1>8. CASE Swapped(cat, terms, selected, routes, p)
  <2>1. PICK i \in DOMAIN selected, best \in Elements(routes), x \in Int :
           /\ best.segment \notin B
           /\ RecoveryGain(cat, terms, terms \ Reached(B), best) >= 180
           /\ WeakScore(cat, terms, selected[i], selected) >= 150
           /\ p = ByRoute((E \ {selected[i]}) \cup {Route(best.segment, x)})
    BY <1>8 DEF Swapped, E, B
  <2> DEFINE new == Route(best.segment, x)
             w == selected[i]
             S == (E \ {w}) \cup {new}
             A == (B \ {w.segment}) \cup {best.segment}
  <2>2. best.segment \in D
    BY SegmentsOfPlan DEF RouteSet
  <2>3. new \in RouteSet(D) /\ new.segment = best.segment
    BY <2>2 DEF Route, RouteSet
  <2>4. w \in E /\ w.segment \in B
    BY <1>1, <1>5
  <2> HIDE DEF new, w
  <2>5. S \in SUBSET RouteSet(D) /\ IsFiniteSet(S)
    <3>1. E \ {w} \in SUBSET E
      OBVIOUS
    <3>2. IsFiniteSet(E \ {w})
      BY <1>1, <3>1, FS_Subset
    <3>3. IsFiniteSet(S)
      BY <3>2, FS_AddElement
    <3> QED BY <1>1, <2>3, <3>3
  <2>6. {a.segment : a \in S} = A
    <3>1. \A a \in E \ {w} : a.segment # w.segment /\ a.segment \in B
      BY <1>1, <2>4 DEF OneRouteEach
    <3>2. \A s \in B \ {w.segment} : \E a \in E \ {w} : a.segment = s
      BY <1>1
    <3> QED BY <2>3, <3>1, <3>2
  <2> HIDE DEF S
  <2>7. Lists(ByRoute(S), S)
    BY <1>2, <2>5, ByRouteLists
  <2>8. Segments(p) = A
    BY <1>3, <2>1, <2>6, <2>7 DEF Lists, S, new, w
  <2>9. Reached({w.segment}) \subseteq Reached(B \ {w.segment})
    <3>1. w \in RouteSet(D)
      BY <1>1, <2>4
    <3> QED BY <2>1, <3>1, WeakIsNotAlone DEF w, B
  <2>10. Reached(B) \subseteq Reached(A)
    <3>1. \A t \in Reached(B) : t \in Reached({w.segment}) \/ t \in Reached(B \ {w.segment})
      BY DEF CoveredTerms
    <3>2. Reached(B \ {w.segment}) \subseteq Reached(A)
      BY DEF CoveredTerms
    <3> QED BY <2>9, <3>1, <3>2
  <2>11. Reached(A) # Reached(B)
    <3>1. CoveredTerms(cat, terms \ Reached(B), {best.segment}) # {}
      <4> SUFFICES ASSUME CoveredTerms(cat, terms \ Reached(B), {best.segment}) = {} PROVE FALSE
        OBVIOUS
      <4>1. RecoveryGain(cat, terms, terms \ Reached(B), best) = 0
        BY DEF RecoveryGain
      <4> QED BY <2>1, <4>1
    <3>2. PICK t : t \in CoveredTerms(cat, terms \ Reached(B), {best.segment})
      BY <3>1
    <3>3. t \in terms /\ t \notin Reached(B) /\ best.segment \in cat.holders[t]
      BY <3>2 DEF CoveredTerms
    <3>4. t \in Reached(A)
      BY <3>3 DEF CoveredTerms
    <3> QED BY <3>3, <3>4
  <2>12. Cardinality(A) = Cardinality(B)
    <3>1. IsFiniteSet(B \ {w.segment}) /\ Cardinality(B \ {w.segment}) = Cardinality(B) - 1
      <4>1. \A u \in B : IsFiniteSet(B \ {u})
        BY <1>1, FS_RemoveElement
      <4>2. \A u \in B : Cardinality(B \ {u}) = Cardinality(B) - 1
        BY <1>1, FS_RemoveElement
      <4> QED BY <2>4, <4>1, <4>2
    <3>2. best.segment \notin B \ {w.segment}
      BY <2>1
    <3>3. Cardinality(A) = (Cardinality(B) - 1) + 1
      BY <3>1, <3>2, FS_AddElement
    <3>4. Cardinality(B) \in Nat
      BY <1>1, FS_CardinalityType
    <3> QED BY <3>3, <3>4
  <2> HIDE DEF A
  <2>13. Gains(cat, terms, B, A)
    BY <2>10, <2>11, <2>12 DEF Gains
  <2> QED BY <2>8, <2>13 DEF p, B
<1> QED BY <1>6, <1>7, <1>8, RecoveryShape DEF p, E

\* A recovery plan is the recovery of the head of the routes.
RecoveryInv ==
    request.mode = "recovery" /\ stage # "new" /\ ~IsEmptyRequest =>
      /\ IsPlan(routed, DOMAIN corpus)
      /\ plan = RecoveredRoutes(catalog, request.terms, Take(routed, request.limit), routed)

LEMMA RecoveryInvStep ==
    ASSUME QueryInv, RecoveryInv, [QueryNext]_queryVars PROVE RecoveryInv'
<1>1. CASE Plan
  <2> DEFINE routes == Routes(catalog, corpus, request, request.strategy)
  <2>1. /\ IsRequest(request) /\ IsCorpus(corpus) /\ IsCatalog(catalog, DOMAIN corpus)
        /\ request.end \in Nat /\ request.window \in Nat
    BY RequestType, CatalogType DEF QueryInv
  <2>2. IsPlan(routes, DOMAIN corpus)
    BY <2>1, RoutesPlan
  <2>3. \/ PlanSegmented(routes) \/ PlanAll(routes)
        \/ \E c \in {EnrichedContext} : \E ranked \in {TemporalRoutes(corpus, routes, c)} :
              PlanWithin(c, ranked)
    BY <1>1 DEF Plan
  <2> HIDE DEF routes
  <2>4. CASE PlanSegmented(routes) \/ PlanAll(routes)
    <3>1. request.mode # "recovery" /\ request' = request
      BY <2>4 DEF PlanSegmented, PlanAll, Planned
    <3> QED BY <3>1 DEF RecoveryInv
  <2>5. ASSUME NEW c, c = EnrichedContext, NEW ranked, ranked = TemporalRoutes(corpus, routes, c),
               PlanWithin(c, ranked)
        PROVE  RecoveryInv'
    <3>1. IsContext(c)
      BY <2>1, <2>5, PreparedIsContext, GivenIsContext DEF EnrichedContext
    <3>2. IsPlan(ranked, DOMAIN corpus)
      BY <2>1, <2>2, <2>5, <3>1, TemporalPlan
    <3>3. CASE request.mode # "recovery"
      <4>1. request' = request
        BY <2>5 DEF PlanWithin, PlanAdaptive, PlanAdaptiveRouteAware, PlanEnriched, PlanRouteAware,
                    PlanSessionAggregated, TopRoutes, PlanTemporalPath, PlanConnected, PlanRecovery,
                    Planned
      <4> QED BY <3>3, <4>1 DEF RecoveryInv
    <3>4. CASE request.mode = "recovery"
      <4>1. Planned(c, ranked, RecoveredRoutes(catalog, request.terms, Take(ranked, request.limit), ranked))
        BY <2>5, <3>4 DEF PlanWithin, PlanAdaptive, PlanAdaptiveRouteAware, PlanEnriched,
                    PlanRouteAware, PlanSessionAggregated, TopRoutes, PlanTemporalPath,
                    PlanConnected, PlanRecovery
      <4>2. /\ corpus' = corpus /\ catalog' = catalog /\ request' = request /\ routed' = ranked
            /\ plan' = RecoveredRoutes(catalog, request.terms, Take(ranked, request.limit), ranked)
        BY <4>1 DEF Planned
      <4> QED BY <3>2, <4>2 DEF RecoveryInv
    <3> QED BY <3>3, <3>4
  <2> QED BY <2>3, <2>4, <2>5
<1>2. CASE /\ UNCHANGED <<corpus, catalog, request, routed, plan>>
           /\ stage = "new" => stage' = "new" \/ IsEmptyRequest \/ request.mode # "recovery"
  <2>1. /\ corpus' = corpus /\ catalog' = catalog /\ request' = request /\ routed' = routed
        /\ plan' = plan
    BY <1>2
  <2>2. IsEmptyRequest' = IsEmptyRequest
    BY <2>1 DEF IsEmptyRequest
  <2> QED BY <1>2, <2>1, <2>2 DEF RecoveryInv
<1>3. CASE AnswerEmpty \/ SearchOneSegment \/ SearchSingleIndex
  BY <1>2, <1>3 DEF AnswerEmpty, SearchOneSegment, SearchSingleIndex
<1>4. CASE ExecuteBatch \/ ReduceDefault \/ ExecuteEnriched \/ PanicEnriched \/ ReduceEnriched
  BY <1>2, <1>4 DEF ExecuteBatch, ReduceDefault, ExecuteEnriched, PanicEnriched, ReduceEnriched
<1>5. CASE Terminated \/ UNCHANGED queryVars
  BY <1>2, <1>5 DEF Terminated, queryVars
<1> QED BY <1>1, <1>3, <1>4, <1>5 DEF QueryNext

\* The recovery of missing coverage never gives up a covered term, and only
\* swaps for one that was missing.
THEOREM RecoveryGrowsCoverageHolds == QuerySpec => []RecoveryGrowsCoverage
<1>1. QueryInit => RecoveryInv
  BY DEF QueryInit, RecoveryInv
<1>2. QuerySpec => []RecoveryInv
  BY <1>1, QueryInvHolds, RecoveryInvStep, PTL DEF QuerySpec
<1>3. QueryInv /\ RecoveryInv => RecoveryGrowsCoverage
  <2> SUFFICES ASSUME QueryInv, RecoveryInv, request.mode = "recovery", stage # "new", ~IsEmptyRequest
               PROVE  LET before == Segments(Take(routed, request.limit))
                          Reached(S) == CoveredTerms(catalog, request.terms, S)
                      IN  /\ Reached(before) \subseteq Reached(Segments(plan))
                          /\ Segments(plan) # before => Reached(before) # Reached(Segments(plan))
                          /\ Len(plan) = Cardinality(before)
    BY DEF RecoveryGrowsCoverage
  <2> DEFINE D == DOMAIN corpus
             top == Take(routed, request.limit)
  <2>1. /\ request.limit \in Nat /\ request.terms \in SUBSET Terms
        /\ IsCatalog(catalog, D) /\ D \in SUBSET Nat
    BY RequestType, CatalogType DEF QueryInv, IsCorpus
  <2>2. IsPlan(routed, D) /\ plan = RecoveredRoutes(catalog, request.terms, top, routed)
    BY DEF RecoveryInv
  <2>3. IsPlan(top, D)
    BY <2>1, <2>2, TakenPlan
  <2> HIDE DEF top
  <2>4. Gains(catalog, request.terms, Segments(top), Segments(plan))
    BY <2>1, <2>2, <2>3, RecoveryGains
  <2>5. Cardinality(Segments(plan)) = Len(plan)
    BY SegmentsOfPlan DEF QueryInv
  <2> QED BY <2>4, <2>5 DEF Gains, top
<1> QED BY <1>2, <1>3, QueryInvHolds, PTL

-----------------------------------------------------------------------------
(* A complete answer *)

BetterHits(H) == {p \in H \X H : p[1].score > p[2].score \/ (p[1].score = p[2].score /\ p[1].id < p[2].id)}

\* Hits an order tells apart.
AreHits(H) ==
    /\ IsFiniteSet(H) /\ \A h \in H : h.score \in Int /\ h.id \in Int
    /\ \A a, b \in H : a.id = b.id => a = b

LEMMA ByHitRanks ==
    ASSUME NEW T, AreHits(T), NEW S \in SUBSET T
    PROVE  IsFiniteSet(S) /\ TotalOn(BetterHits(T), S) /\ ByHit(S) = RankedBy(S, BetterHits(T))
<1> DEFINE R == BetterHits(T)
           before(a, b) == a.score > b.score \/ (a.score = b.score /\ a.id < b.id)
           one(i) == CHOOSE x \in S : Cardinality({y \in S : before(y, x)}) = i - 1
           other(i) == CHOOSE x \in S : Cardinality({y \in S : <<y, x>> \in R}) = i - 1
<1>1. \A x, y \in S : <<x, y>> \in R <=> before(x, y)
  BY DEF BetterHits
<1>2. \A x \in S : x.score \in Int /\ x.id \in Int
  BY DEF AreHits
<1>3. \A x, y \in S : x # y => x.id # y.id
  BY DEF AreHits
<1>4. ByHit(S) = [i \in 1 .. Cardinality(S) |-> one(i)]
  BY DEF ByHit, Ranked
<1>5. RankedBy(S, R) = [i \in 1 .. Cardinality(S) |-> other(i)]
  BY DEF RankedBy
<1> HIDE DEF R
<1>6. TotalOn(R, S)
  <2>1. \A x \in S : ~before(x, x)
    BY <1>2
  <2>2. \A x, y \in S : x # y => before(x, y) \/ before(y, x)
    BY <1>2, <1>3
  <2>3. ASSUME NEW x \in S, NEW y \in S, NEW z \in S, before(x, y), before(y, z) PROVE before(x, z)
    <3> DEFINE a == x.score
               b == y.score
               e == z.score
    <3>1. a \in Int /\ b \in Int /\ e \in Int /\ x.id \in Int /\ y.id \in Int /\ z.id \in Int
      BY <1>2
    <3> QED BY <2>3, <3>1
  <2> HIDE DEF before
  <2> QED BY <1>1, <2>1, <2>2, <2>3 DEF TotalOn
<1> HIDE DEF before
<1>7. \A x \in S : {y \in S : before(y, x)} = {y \in S : <<y, x>> \in R}
  BY <1>1
<1>8. \A i \in 1 .. Cardinality(S) : one(i) = other(i)
  BY <1>7
<1>9. ByHit(S) = RankedBy(S, R)
  <2> HIDE DEF one, other
  <2> QED BY <1>4, <1>5, <1>8
<1>10. IsFiniteSet(S)
  BY FS_Subset DEF AreHits
<1> QED BY <1>6, <1>9, <1>10 DEF R

\* The best of a set that lie in a part of it are among the best of the part.
LEMMA HeadOfPart ==
    ASSUME NEW T, IsFiniteSet(T), NEW R, TotalOn(R, T), NEW S \in SUBSET T,
           NEW k \in Nat, NEW m \in Nat, k <= m,
           NEW x \in S, x \in Elements(Take(RankedBy(T, R), k))
    PROVE  x \in Elements(Take(RankedBy(S, R), m))
<1> DEFINE t == RankedBy(T, R)
           s == RankedBy(S, R)
           above(X) == {y \in X : <<y, x>> \in R}
<1>1. IsFiniteSet(S) /\ TotalOn(R, S)
  BY FS_Subset DEF TotalOn
<1>2. t \in Seq(T) /\ s \in Seq(S) /\ Elements(s) = S
  BY <1>1, RankingLists DEF Lists
<1>3. \A i \in DOMAIN t : Cardinality({y \in T : <<y, t[i]>> \in R}) = i - 1
  BY RankingIsExact
<1>4. \A i \in DOMAIN s : Cardinality({y \in S : <<y, s[i]>> \in R}) = i - 1
  BY <1>1, RankingIsExact
<1>5. PICK j \in DOMAIN Take(t, k) : Take(t, k)[j] = x
  BY DEF Elements
<1> HIDE DEF t, s
<1>6. j \in DOMAIN t /\ t[j] = x /\ j <= k /\ j \in Nat
  BY <1>2, <1>5, TakeIsHead
<1>7. PICK i \in DOMAIN s : s[i] = x
  BY <1>2 DEF Elements
<1>8. Cardinality(above(T)) = j - 1 /\ Cardinality(above(S)) = i - 1
  BY <1>3, <1>4, <1>6, <1>7
<1>9. Cardinality(above(S)) <= Cardinality(above(T))
  <2>1. above(T) \in SUBSET T /\ above(S) \in SUBSET above(T)
    OBVIOUS
  <2> HIDE DEF above
  <2> QED BY <2>1, FS_Subset
<1> HIDE DEF above
<1>10. i \in Nat /\ i <= k /\ i >= 1 /\ i <= Len(s)
  <2>1. i \in 1 .. Len(s) /\ Len(s) \in Nat
    BY <1>2
  <2> QED BY <1>6, <1>8, <1>9, <2>1
<1>11. i \in DOMAIN Take(s, m) /\ Take(s, m)[i] = s[i]
  <2>1. /\ Len(Take(s, m)) = (IF m <= Len(s) THEN m ELSE Len(s))
        /\ DOMAIN Take(s, m) = 1 .. Len(Take(s, m)) /\ Len(s) \in Nat
        /\ \A n \in DOMAIN Take(s, m) : Take(s, m)[n] = s[n]
    BY <1>2, TakeIsHead
  <2> DEFINE l == Take(s, m)
  <2> HIDE DEF l
  <2>2. i \in 1 .. Len(l)
    BY <1>10, <2>1 DEF l
  <2> QED BY <2>1, <2>2 DEF l
<1> QED BY <1>7, <1>11 DEF Elements, s

\* A plan with room for every segment leaves out none with an allowed document.
LEMMA AllChosen ==
    ASSUME IsCorpus(corpus), request \in Requests, NEW r, IsPlan(r, DOMAIN corpus), NEW c,
           request.limit >= Cardinality(DOMAIN corpus)
    PROVE  Segments(DefaultPlan(r, c, TRUE).routes) \subseteq Segments(DefaultPlan(r, c, TRUE).chosen)
<1> DEFINE D == DOMAIN corpus
           routes == DefaultPlan(r, c, TRUE).routes
           signal == {a \in Elements(routes) : RouteHasSignal(a, request.strategy, request.terms)}
           with == Within(routes, signal)
           without == Within(routes, Elements(routes) \ signal)
           limit == request.limit
           chosen == Take(with, limit)
           room == limit - Len(chosen)
           more == Take(without, room)
           p == DefaultPlan(r, c, TRUE).chosen
<1>1. p = chosen \o more
  BY DEF DefaultPlan
<1>2. IsPlan(routes, D)
  BY DefaultRoutes
<1>3. limit \in Nat /\ IsFiniteSet(D) /\ limit >= Cardinality(D) /\ Cardinality(D) \in Nat
  BY RequestType, FS_CardinalityType DEF IsCorpus
<1> HIDE DEF routes, signal, limit
<1>4. IsPlan(with, D) /\ Elements(with) = Elements(routes) \cap signal
  BY <1>2, WithinPlan
<1>5. IsPlan(without, D) /\ Elements(without) = Elements(routes) \cap (Elements(routes) \ signal)
  BY <1>2, WithinPlan
<1>6. /\ Segments(routes) = {a.segment : a \in Elements(routes)} /\ Segments(routes) \in SUBSET D
      /\ OneRouteEach(Elements(routes))
  BY <1>2, SegmentsOfPlan
<1> HIDE DEF with, without, D
<1>7. Segments(with) = {a.segment : a \in Elements(with)} /\ IsFiniteSet(Segments(with))
      /\ Cardinality(Segments(with)) = Len(with)
  BY <1>4, SegmentsOfPlan
<1>8. Segments(without) = {a.segment : a \in Elements(without)} /\ IsFiniteSet(Segments(without))
      /\ Cardinality(Segments(without)) = Len(without)
  BY <1>5, SegmentsOfPlan
<1>9. Segments(with) \cup Segments(without) = Segments(routes)
  BY <1>4, <1>5, <1>6, <1>7, <1>8
<1>10. Segments(with) \cap Segments(without) = {}
  <2>1. ASSUME NEW a \in Elements(with), NEW b \in Elements(without) PROVE a.segment # b.segment
    <3>1. a \in Elements(routes) /\ b \in Elements(routes) /\ a # b
      BY <1>4, <1>5, <2>1
    <3> QED BY <1>6, <3>1 DEF OneRouteEach
  <2> QED BY <1>7, <1>8, <2>1
<1>11. Len(with) + Len(without) <= limit /\ Len(with) \in Nat /\ Len(without) \in Nat
  <2> DEFINE A == Segments(with)
             B == Segments(without)
  <2>1. IsFiniteSet(A) /\ IsFiniteSet(B) /\ A \cap B = {} /\ A \cup B \in SUBSET D
    BY <1>6, <1>7, <1>8, <1>9, <1>10
  <2>2. Cardinality(A) \in Nat /\ Cardinality(B) \in Nat
    BY <1>7, <1>8, FS_CardinalityType
  <2> HIDE DEF A, B
  <2>3. Cardinality(A \cup B) = Cardinality(A) + Cardinality(B) - Cardinality(A \cap B)
    BY <2>1, FS_Union
  <2>4. Cardinality(A \cap B) = 0
    BY <2>1, FS_EmptySet
  <2>5. Cardinality(A \cup B) <= Cardinality(D)
    BY <1>3, <2>1, FS_Subset
  <2>6. Cardinality(A) + Cardinality(B) <= limit
    BY <1>3, <2>2, <2>3, <2>4, <2>5
  <2> QED BY <1>7, <1>8, <2>2, <2>6 DEF A, B
<1>12. ASSUME NEW s, IsPlan(s, D), NEW n \in Nat, Len(s) <= n PROVE Take(s, n) = s
  <2>1. s \in Seq(RouteSet(D)) /\ Len(s) \in Nat
    BY <1>12 DEF IsPlan
  <2>2. Min({n, Len(s)}) = Len(s)
    BY <1>12, <2>1 DEF Min
  <2>3. Take(s, n) = SubSeq(s, 1, Len(s))
    BY <2>2 DEF Take
  <2> QED BY <2>1, <2>3
<1>13. chosen = with
  BY <1>3, <1>4, <1>11, <1>12
<1>14. more = without
  <2>1. room = limit - Len(with)
    BY <1>13
  <2>2. room \in Nat /\ Len(without) <= room
    BY <1>3, <1>11, <2>1
  <2> HIDE DEF room
  <2> QED BY <1>5, <1>12, <2>2
<1>15. Segments(with \o without) = Segments(with) \cup Segments(without)
  BY <1>4, <1>5, <1>10, JoinedPlans
<1> HIDE DEF p, chosen, more
<1> QED BY <1>1, <1>9, <1>13, <1>14, <1>15 DEF p, routes

\* A document of the snapshot has its identifier for itself.
OneDocumentEach == \A d, e \in Documents : d.id = e.id => d = e

IsList(s) == \E X : s \in Seq(X)

\* What a query over every segment has gathered so far: its outcomes are those
\* of the first routes of the plan, and the plan holds every segment with an
\* allowed document when the limit has room for all of them.
GatheredInv ==
    /\ OneDocumentEach
    /\ stage = "new" => outcomes = <<>>
    /\ IsList(outcomes) /\ Len(outcomes) <= Len(plan)
    /\ \A i \in DOMAIN outcomes : ~outcomes[i].failed => outcomes[i].hits = Hits(plan[i].segment, ctx)
    /\ request.mode = "all" /\ stage # "new" /\ ~IsEmptyRequest => ctx.allowed = request.scope
    /\ request.mode = "all" /\ stage # "new" /\ ~IsEmptyRequest /\ request.limit >= Cardinality(DOMAIN corpus) =>
         \A s \in DOMAIN corpus : HasAllowed(corpus[s], ctx.allowed) => s \in Segments(plan)

LEMMA OneDocumentEachInit ==
    ASSUME NEW p \in Publications, corpus = Published(p) PROVE OneDocumentEach
<1>1. \A d, e \in p.docs : d.id = e.id => d = e
  BY PublicationAssumption
<1>2. \A s \in DOMAIN corpus : corpus[s] \in SUBSET p.docs
  <2>1. CASE ValidManifest(p.docs, p.manifest)
    BY <2>1 DEF Published
  <2>2. CASE ~ValidManifest(p.docs, p.manifest)
    BY <2>2 DEF Published, GroupSegments
  <2> QED BY <2>1, <2>2
<1>3. Documents \in SUBSET p.docs
  BY <1>2 DEF Documents
<1> QED BY <1>1, <1>3 DEF OneDocumentEach

\* The outcomes of a list of segments.
LEMMA OutcomesAreHits ==
    ASSUME NEW n \in Nat, NEW s, NEW F
    PROVE  LET o == [i \in 1 .. n |-> Outcome(s[i], F[i])] IN
           /\ IsList(o) /\ Len(o) = n /\ DOMAIN o = 1 .. n
           /\ \A i \in 1 .. n : ~o[i].failed => o[i].hits = Hits(s[i], ctx)
<1> DEFINE o == [i \in 1 .. n |-> Outcome(s[i], F[i])]
           X == {Outcome(s[i], F[i]) : i \in 1 .. n}
<1>1. o \in [1 .. n -> X]
  OBVIOUS
<1>2. \A i \in 1 .. n : o[i].failed = F[i] /\ o[i].hits = IF F[i] THEN <<>> ELSE Hits(s[i], ctx)
  BY DEF Outcome
<1>3. o \in Seq(X) /\ Len(o) = n /\ DOMAIN o = 1 .. n
  <2> HIDE DEF X, o
  <2> QED BY <1>1
<1> HIDE DEF o, X
<1> QED BY <1>2, <1>3 DEF o, IsList

\* A batch adds the outcomes of the next routes of the plan.
LEMMA BatchKeepsGathered == ASSUME QueryInv, GatheredInv, ExecuteBatch PROVE GatheredInv'
<1> DEFINE lo == Len(outcomes)
           hi == AtMost(lo + Concurrency, Len(plan))
           batch == lo + 1 .. hi
           n == Cardinality(batch)
           s == [i \in 1 .. n |-> plan[lo + i].segment]
<1>1. PICK failed : outcomes' = outcomes \o [i \in 1 .. n |-> Outcome(plan[lo + i].segment, lo + i \in failed)]
  BY DEF ExecuteBatch
<1>2. /\ corpus' = corpus /\ catalog' = catalog /\ request' = request /\ stage' = stage /\ stage = "planned"
      /\ ctx' = ctx /\ plan' = plan /\ lo < Len(plan)
  BY DEF ExecuteBatch
<1>3. PICK X : outcomes \in Seq(X)
  BY DEF GatheredInv, IsList
<1>4. lo \in Nat /\ Len(plan) \in Nat /\ Concurrency \in Nat \ {0}
  <2>1. plan \in Seq(RouteSet(DOMAIN corpus))
    BY DEF QueryInv, IsPlan
  <2> QED BY <1>3, <2>1, QueryAssumption
<1>5. n = hi - lo /\ n \in Nat /\ lo + n <= Len(plan)
  <2>1. hi \in Nat /\ lo + 1 <= hi /\ hi <= Len(plan)
    BY <1>2, <1>4 DEF AtMost, Min
  <2> DEFINE a == lo + 1
  <2>2. Cardinality(a .. hi) = IF a > hi THEN 0 ELSE hi - a + 1
    <3>1. a \in Int /\ hi \in Int
      BY <1>4, <2>1
    <3> HIDE DEF a, hi
    <3> QED BY <3>1, FS_Interval
  <2> HIDE DEF hi
  <2> QED BY <1>4, <2>1, <2>2
<1> DEFINE F == [i \in 1 .. n |-> lo + i \in failed]
           o == [i \in 1 .. n |-> Outcome(s[i], F[i])]
<1>6. outcomes' = outcomes \o o
  BY <1>1
<1>7. /\ IsList(o) /\ Len(o) = n /\ DOMAIN o = 1 .. n
      /\ \A i \in 1 .. n : ~o[i].failed => o[i].hits = Hits(s[i], ctx)
  <2> HIDE DEF n, s, F
  <2> QED BY <1>5, OutcomesAreHits
<1>8. \A i \in 1 .. n : s[i] = plan[lo + i].segment
  OBVIOUS
<1> HIDE DEF s, o, n, lo
<1>9. PICK Y : o \in Seq(Y)
  BY <1>7 DEF IsList
<1>10. /\ outcomes' \in Seq(X \cup Y) /\ Len(outcomes') = lo + n
       /\ \A i \in 1 .. lo : outcomes'[i] = outcomes[i]
       /\ \A i \in 1 .. n : outcomes'[lo + i] = o[i]
  <2>1. outcomes \in Seq(X \cup Y) /\ o \in Seq(X \cup Y)
    BY <1>3, <1>9
  <2> DEFINE Z == X \cup Y
             a == outcomes
  <2>2. a \in Seq(Z) /\ o \in Seq(Z) /\ Len(a) = lo /\ Len(o) = n
    BY <1>7, <2>1 DEF lo
  <2> HIDE DEF a, Z
  <2>3. a \o o \in Seq(Z) /\ Len(a \o o) = lo + n
    BY <2>2
  <2>4. \A i \in 1 .. lo : (a \o o)[i] = a[i]
    BY <2>2
  <2>5. \A i \in 1 .. n : (a \o o)[lo + i] = o[i]
    BY <2>2
  <2> QED BY <1>6, <2>3, <2>4, <2>5 DEF a, Z
<1>11. IsList(outcomes') /\ Len(outcomes') <= Len(plan')
  BY <1>2, <1>5, <1>10 DEF IsList
<1>12. \A t : Hits(t, ctx)' = Hits(t, ctx)
  BY <1>2 DEF Hits, CandidateLimit
<1>13. ASSUME NEW i \in DOMAIN outcomes', ~outcomes'[i].failed
       PROVE  outcomes'[i].hits = Hits(plan[i].segment, ctx)
  <2>1. i \in 1 .. lo + n
    BY <1>10, <1>13
  <2>2. CASE i \in 1 .. lo
    <3>1. outcomes'[i] = outcomes[i] /\ i \in DOMAIN outcomes
      BY <1>3, <1>10, <2>2 DEF lo
    <3> QED BY <1>13, <3>1 DEF GatheredInv
  <2>3. CASE i \notin 1 .. lo
    <3>1. i - lo \in 1 .. n /\ i = lo + (i - lo)
      BY <1>4, <1>5, <2>1, <2>3
    <3>2. outcomes'[i] = o[i - lo] /\ s[i - lo] = plan[i].segment
      BY <1>8, <1>10, <3>1
    <3> QED BY <1>7, <1>13, <3>1, <3>2
  <2> QED BY <2>2, <2>3
<1>14. \A i \in DOMAIN outcomes' : ~outcomes'[i].failed => outcomes'[i].hits = Hits(plan[i].segment, ctx)'
  BY <1>2, <1>12, <1>13
<1>15. OneDocumentEach'
  BY <1>2 DEF GatheredInv, OneDocumentEach, Documents
<1>16. IsEmptyRequest' = IsEmptyRequest
  BY <1>2 DEF IsEmptyRequest
<1>17. \A i \in DOMAIN outcomes' : ~outcomes'[i].failed => outcomes'[i].hits = Hits(plan[i].segment, ctx)'
  BY <1>2, <1>14
<1> HIDE DEF batch, hi
<1> QED BY <1>2, <1>11, <1>15, <1>16, <1>17 DEF GatheredInv

\* The enriched path runs the whole plan.
LEMMA EnrichedKeepsGathered == ASSUME QueryInv, GatheredInv, ExecuteEnriched PROVE GatheredInv'
<1> DEFINE n == Len(plan)
           s == [i \in 1 .. n |-> plan[i].segment]
           F == [i \in 1 .. n |-> FALSE]
           o == [i \in 1 .. n |-> Outcome(s[i], F[i])]
<1>1. /\ corpus' = corpus /\ request' = request /\ stage' = "reducing" /\ stage = "planned"
      /\ ctx' = ctx /\ plan' = plan
  BY DEF ExecuteEnriched
<1>2. n \in Nat /\ DOMAIN plan = 1 .. n
  <2>1. plan \in Seq(RouteSet(DOMAIN corpus))
    BY DEF QueryInv, IsPlan
  <2> QED BY <2>1
<1>3. outcomes' = o
  BY <1>2 DEF ExecuteEnriched
<1>4. /\ IsList(o) /\ Len(o) = n /\ DOMAIN o = 1 .. n
      /\ \A i \in 1 .. n : ~o[i].failed => o[i].hits = Hits(s[i], ctx)
  <2> HIDE DEF n, s, F
  <2> QED BY <1>2, OutcomesAreHits
<1>5. \A i \in 1 .. n : s[i] = plan[i].segment
  OBVIOUS
<1>6. \A t : Hits(t, ctx)' = Hits(t, ctx)
  BY <1>1 DEF Hits, CandidateLimit
<1> HIDE DEF o, s
<1>7. \A i \in DOMAIN outcomes' : ~outcomes'[i].failed => outcomes'[i].hits = Hits(plan[i].segment, ctx)'
  BY <1>1, <1>3, <1>4, <1>5, <1>6
<1>8. IsList(outcomes') /\ Len(outcomes') <= Len(plan')
  BY <1>1, <1>2, <1>3, <1>4
<1>9. OneDocumentEach'
  BY <1>1 DEF GatheredInv, OneDocumentEach, Documents
<1>10. IsEmptyRequest' = IsEmptyRequest
  BY <1>1 DEF IsEmptyRequest
<1> HIDE DEF n
<1> QED BY <1>1, <1>7, <1>8, <1>9, <1>10 DEF GatheredInv

\* The plan of a query over every segment that a limit has room for.
LEMMA PlanKeepsGathered == ASSUME QueryInv, GatheredInv, Plan PROVE GatheredInv'
<1> DEFINE D == DOMAIN corpus
           routes == Routes(catalog, corpus, request, request.strategy)
<1>1. /\ IsRequest(request) /\ IsCorpus(corpus) /\ IsCatalog(catalog, D)
      /\ request.end \in Nat /\ request.window \in Nat /\ request \in Requests
  BY RequestType, CatalogType DEF QueryInv
<1>2. IsPlan(routes, D)
  BY <1>1, RoutesPlan
<1>3. \/ PlanSegmented(routes) \/ PlanAll(routes)
      \/ \E c \in {EnrichedContext} : \E ranked \in {TemporalRoutes(corpus, routes, c)} :
            PlanWithin(c, ranked)
  BY DEF Plan
<1> HIDE DEF routes
<1>4. PICK c, ranked, p : Planned(c, ranked, p)
  <2>1. CASE PlanSegmented(routes) \/ PlanAll(routes)
    BY <2>1 DEF PlanSegmented, PlanAll
  <2>2. ASSUME NEW c, NEW ranked, PlanWithin(c, ranked) PROVE \E d, r, p : Planned(d, r, p)
    BY <2>2 DEF PlanWithin, PlanAdaptive, PlanAdaptiveRouteAware, PlanEnriched, PlanRouteAware,
                PlanSessionAggregated, TopRoutes, PlanTemporalPath, PlanConnected, PlanRecovery
  <2> QED BY <1>3, <2>1, <2>2
<1>5. /\ corpus' = corpus /\ request' = request /\ outcomes' = outcomes /\ stage = "new"
      /\ stage' = "planned"
  BY <1>4 DEF Planned
<1>6. outcomes' = <<>>
  BY <1>5 DEF GatheredInv
<1>7. OneDocumentEach'
  BY <1>5 DEF GatheredInv, OneDocumentEach, Documents
<1>8. IsPlan(plan', DOMAIN corpus')
  BY PlanStep DEF QueryInv
<1>9. IsList(outcomes') /\ Len(outcomes') <= Len(plan') /\ DOMAIN outcomes' = {}
  <2>1. Len(plan') \in Nat
    BY <1>8 DEF IsPlan
  <2>2. <<>> \in Seq({}) /\ Len(<<>>) = 0 /\ DOMAIN <<>> = {}
    OBVIOUS
  <2> QED BY <1>6, <2>1, <2>2 DEF IsList
<1>10. ASSUME request.mode = "all"
       PROVE  /\ ctx'.allowed = request.scope
              /\ request.limit >= Cardinality(D) =>
                   \A t \in D : HasAllowed(corpus[t], ctx'.allowed) => t \in Segments(plan')
  <2> DEFINE g == GivenContext(request)
             d == DefaultPlan(routes, g, TRUE)
  <2>1. PlanAll(routes)
    BY <1>3, <1>10 DEF PlanSegmented, PlanWithin, PlanAdaptive, PlanAdaptiveRouteAware, PlanEnriched,
                PlanRouteAware, PlanSessionAggregated, TopRoutes, PlanTemporalPath, PlanConnected,
                PlanRecovery
  <2>2. ctx' = g /\ plan' = d.chosen
    BY <2>1 DEF PlanAll, Planned
  <2>3. g.allowed = request.scope
    BY DEF GivenContext
  <2>4. \A t \in D : HasAllowed(corpus[t], g.allowed) => t \in Segments(d.routes)
    <3> HIDE DEF g
    <3> QED BY <1>1, <1>2, DefaultRoutes
  <2>5. request.limit >= Cardinality(D) => Segments(d.routes) \subseteq Segments(d.chosen)
    <3> HIDE DEF g
    <3> QED BY <1>1, <1>2, AllChosen
  <2> HIDE DEF g, d
  <2> QED BY <2>2, <2>3, <2>4, <2>5
<1> QED BY <1>5, <1>7, <1>9, <1>10 DEF GatheredInv

LEMMA GatheredInvStep == ASSUME QueryInv, GatheredInv, [QueryNext]_queryVars PROVE GatheredInv'
<1>1. CASE Plan \/ ExecuteBatch \/ ExecuteEnriched
  BY <1>1, PlanKeepsGathered, BatchKeepsGathered, EnrichedKeepsGathered
<1>2. CASE /\ UNCHANGED <<corpus, catalog, request, ctx, plan, outcomes>>
           /\ stage = "new" => stage' = "new" \/ IsEmptyRequest
           /\ stage' = "new" => stage = "new"
  <2>1. /\ corpus' = corpus /\ request' = request /\ ctx' = ctx /\ plan' = plan
        /\ outcomes' = outcomes
    BY <1>2
  <2>2. OneDocumentEach' /\ IsEmptyRequest' = IsEmptyRequest
    BY <2>1 DEF GatheredInv, OneDocumentEach, Documents, IsEmptyRequest
  <2>3. \A t : Hits(t, ctx)' = Hits(t, ctx)
    BY <2>1 DEF Hits, CandidateLimit
  <2>4. \A i \in DOMAIN outcomes' : ~outcomes'[i].failed => outcomes'[i].hits = Hits(plan[i].segment, ctx)'
    BY <2>1, <2>3 DEF GatheredInv
  <2> QED BY <1>2, <2>1, <2>2, <2>4 DEF GatheredInv
<1>3. CASE /\ UNCHANGED <<corpus, catalog, request, plan, outcomes>>
           /\ stage = "new" /\ stage' # "new" /\ request.mode # "all"
  <2>1. corpus' = corpus /\ request' = request /\ plan' = plan /\ outcomes' = outcomes
    BY <1>3
  <2>2. OneDocumentEach'
    BY <2>1 DEF GatheredInv, OneDocumentEach, Documents
  <2>3. outcomes' = <<>> /\ DOMAIN outcomes' = {}
    BY <1>3, <2>1 DEF GatheredInv
  <2>4. IsList(outcomes') /\ Len(outcomes') <= Len(plan')
    BY <2>1 DEF GatheredInv
  <2> QED BY <1>3, <2>1, <2>2, <2>3, <2>4 DEF GatheredInv
<1>4. CASE SearchOneSegment \/ SearchSingleIndex
  BY <1>3, <1>4 DEF SearchOneSegment, SearchSingleIndex
<1>5. CASE AnswerEmpty \/ ReduceDefault \/ PanicEnriched \/ ReduceEnriched
  BY <1>2, <1>5 DEF AnswerEmpty, ReduceDefault, PanicEnriched, ReduceEnriched
<1>6. CASE Terminated \/ UNCHANGED queryVars
  BY <1>2, <1>6 DEF Terminated, queryVars
<1> QED BY <1>1, <1>4, <1>5, <1>6 DEF QueryNext

LEMMA GatheredInvHolds == QuerySpec => []GatheredInv
<1>1. QueryInit => GatheredInv
  <2> SUFFICES ASSUME QueryInit PROVE GatheredInv
    OBVIOUS
  <2>1. OneDocumentEach
    BY OneDocumentEachInit DEF QueryInit
  <2>2. outcomes = <<>> /\ plan = <<>> /\ stage = "new"
    BY DEF QueryInit
  <2>3. IsList(<<>>) /\ Len(<<>>) = 0 /\ DOMAIN <<>> = {}
    <3>1. <<>> \in Seq({})
      OBVIOUS
    <3> QED BY <3>1 DEF IsList
  <2> QED BY <2>1, <2>2, <2>3 DEF GatheredInv
<1> QED BY <1>1, QueryInvHolds, GatheredInvStep, PTL DEF QuerySpec

\* The hits a context lets through of a set of documents.
HitsOf(docs, allowed) ==
  {Hit(d, d.hit) : d \in {e \in docs : e.hit > 0 /\ (allowed = AllowAll \/ e.id \in allowed)}}

LEMMA SnapshotHits ==
    ASSUME QueryInv, GatheredInv, NEW allowed
    PROVE  /\ AreHits(HitsOf(Documents, allowed))
           /\ \A s \in DOMAIN corpus : HitsOf(corpus[s], allowed) \in SUBSET HitsOf(Documents, allowed)
           /\ \A h \in HitsOf(Documents, allowed) :
                \E s \in DOMAIN corpus : h \in HitsOf(corpus[s], allowed) /\ HasAllowed(corpus[s], allowed)
<1> DEFINE ok(e) == e.hit > 0 /\ (allowed = AllowAll \/ e.id \in allowed)
           docs == {e \in Documents : ok(e)}
           T == HitsOf(Documents, allowed)
           f == [s \in DOMAIN corpus |-> corpus[s]]
           g == [d \in docs |-> Hit(d, d.hit)]
<1>1. T = {Hit(d, d.hit) : d \in docs} /\ \A s : HitsOf(corpus[s], allowed) = {Hit(d, d.hit) : d \in {e \in corpus[s] : ok(e)}}
  BY DEF HitsOf
<1>2. \A d \in Documents : IsDocument(d) /\ \E s \in DOMAIN corpus : d \in corpus[s]
  BY DEF QueryInv, IsCorpus, Documents
<1>3. \A s \in DOMAIN corpus : corpus[s] \in SUBSET Documents
  BY DEF Documents
<1>4. \A d : Hit(d, d.hit).id = d.id /\ Hit(d, d.hit).score = d.hit
  BY DEF Hit
<1>5. IsFiniteSet(Documents)
  <2>1. f \in Surjection(DOMAIN corpus, {corpus[s] : s \in DOMAIN corpus})
    BY DEF Surjection
  <2>2. IsFiniteSet(DOMAIN corpus) /\ \A S \in {corpus[s] : s \in DOMAIN corpus} : IsFiniteSet(S)
    BY DEF QueryInv, IsCorpus
  <2> HIDE DEF f
  <2>3. IsFiniteSet({corpus[s] : s \in DOMAIN corpus})
    BY <2>1, <2>2, FS_Surjection
  <2> QED BY <2>2, <2>3, FS_UNION DEF Documents
<1>6. IsFiniteSet(docs)
  <2>1. docs \in SUBSET Documents
    OBVIOUS
  <2> HIDE DEF docs
  <2> QED BY <1>5, <2>1, FS_Subset
<1>7. IsFiniteSet(T)
  <2>1. g \in Surjection(docs, T)
    BY <1>1 DEF Surjection
  <2> HIDE DEF g, docs, T
  <2> QED BY <1>6, <2>1, FS_Surjection
<1>8. \A h \in T : h.score \in Int /\ h.id \in Int
  BY <1>1, <1>2, <1>4 DEF IsDocument
<1>9. \A a, b \in T : a.id = b.id => a = b
  BY <1>1, <1>4 DEF GatheredInv, OneDocumentEach
<1>10. \A s \in DOMAIN corpus : HitsOf(corpus[s], allowed) \in SUBSET T
  BY <1>1, <1>3
<1>11. \A h \in T : \E s \in DOMAIN corpus : h \in HitsOf(corpus[s], allowed) /\ HasAllowed(corpus[s], allowed)
  <2> SUFFICES ASSUME NEW h \in T
               PROVE  \E s \in DOMAIN corpus : h \in HitsOf(corpus[s], allowed) /\ HasAllowed(corpus[s], allowed)
    OBVIOUS
  <2>1. PICK d \in docs : h = Hit(d, d.hit)
    BY <1>1
  <2>2. PICK s \in DOMAIN corpus : d \in corpus[s]
    BY <1>2
  <2>3. HasAllowed(corpus[s], allowed)
    BY <2>1, <2>2 DEF HasAllowed
  <2>4. h \in HitsOf(corpus[s], allowed)
    BY <1>1, <2>1, <2>2
  <2> QED BY <2>3, <2>4
<1> HIDE DEF T
<1> QED BY <1>7, <1>8, <1>9, <1>10, <1>11 DEF AreHits, T

\* An answer over every segment that calls itself complete was reduced from a
\* pool with the best documents of the snapshot.
THEOREM CompleteAnswerSawTheBestHolds == QuerySpec => []CompleteAnswerSawTheBest
<1>1. QueryInv /\ GatheredInv => CompleteAnswerSawTheBest
  <2> DEFINE T == HitsOf(Documents, request.scope)
             H(s) == HitsOf(corpus[s], request.scope)
             k == request.topK
  <2> SUFFICES ASSUME QueryInv, GatheredInv, request.mode = "all",
                      request.limit >= Cardinality(DOMAIN corpus), stage = "answered",
                      ~IsEmptyRequest, IsComplete,
                      NEW x \in Elements(Take(ByHit(T), k))
               PROVE  \E i \in DOMAIN outcomes : x \in Elements(outcomes[i].hits)
    BY DEF CompleteAnswerSawTheBest, HitsOf
  <2>1. /\ AreHits(T) /\ \A s \in DOMAIN corpus : H(s) \in SUBSET T
        /\ \A h \in T : \E s \in DOMAIN corpus : h \in H(s) /\ HasAllowed(corpus[s], request.scope)
    BY SnapshotHits
  <2>2. k \in Nat /\ CandidateLimit \in Nat /\ k <= CandidateLimit
    BY RequestType DEF QueryInv, CandidateLimit
  <2>3. /\ ctx.allowed = request.scope
        /\ \A s \in DOMAIN corpus : HasAllowed(corpus[s], request.scope) => s \in Segments(plan)
    BY DEF GatheredInv
  <2>4. \A s : Hits(s, ctx) = Take(ByHit(H(s)), CandidateLimit)
    BY <2>3 DEF Hits, HitsOf
  <2>5. \A i \in DOMAIN plan : i \in DOMAIN outcomes /\ ~outcomes[i].failed
    <3>1. DOMAIN plan = 1 .. Len(plan) /\ Len(plan) \in Nat
      BY DEF QueryInv, IsPlan
    <3>2. DOMAIN outcomes = 1 .. Len(outcomes) /\ Len(outcomes) \in Nat
      BY DEF GatheredInv, IsList
    <3>3. /\ \A i \in DOMAIN outcomes : ~outcomes[i].failed
          /\ Cardinality(DOMAIN outcomes) = Len(plan)
      BY DEF IsComplete
    <3>4. Cardinality(1 .. Len(outcomes)) = Len(outcomes)
      <4> DEFINE l == Len(outcomes)
      <4>1. 1 \in Int /\ l \in Nat /\ l \in Int
        BY <3>2
      <4> HIDE DEF l
      <4>2. Cardinality(1 .. l) = l
        BY <4>1, FS_Interval
      <4> QED BY <4>2 DEF l
    <3> QED BY <3>1, <3>2, <3>3, <3>4
  <2> HIDE DEF T, H, k
  <2>6. IsFiniteSet(T) /\ TotalOn(BetterHits(T), T) /\ ByHit(T) = RankedBy(T, BetterHits(T))
    BY <2>1, ByHitRanks
  <2>7. x \in T
    <3>1. ByHit(T) \in Seq(T)
      BY <2>6, RankingLists DEF Lists
    <3>2. /\ DOMAIN Take(ByHit(T), k) = 1 .. Len(Take(ByHit(T), k))
          /\ Take(ByHit(T), k) \in Seq(T)
      BY <2>2, <3>1, TakeIsHead
    <3> QED BY <3>2 DEF Elements
  <2>8. PICK s \in DOMAIN corpus : x \in H(s) /\ HasAllowed(corpus[s], request.scope)
    BY <2>1, <2>7
  <2>9. ByHit(H(s)) = RankedBy(H(s), BetterHits(T))
    <3>1. H(s) \in SUBSET T
      BY <2>1
    <3> QED BY <2>1, <3>1, ByHitRanks
  <2>10. x \in Elements(Take(RankedBy(H(s), BetterHits(T)), CandidateLimit))
    <3>1. H(s) \in SUBSET T /\ x \in H(s) /\ x \in Elements(Take(RankedBy(T, BetterHits(T)), k))
      BY <2>1, <2>6, <2>8
    <3> QED BY <2>2, <2>6, <3>1, HeadOfPart
  <2>11. PICK i \in DOMAIN plan : plan[i].segment = s
    BY <2>3, <2>8 DEF Segments
  <2>12. outcomes[i].hits = Hits(s, ctx) /\ i \in DOMAIN outcomes
    BY <2>5, <2>11 DEF GatheredInv
  <2> QED BY <2>4, <2>9, <2>10, <2>12
<1> QED BY <1>1, QueryInvHolds, GatheredInvHolds, PTL
-----------------------------------------------------------------------------
(* Route-aware selection *)

\* A ranking of S is the only list of S in its order.
LEMMA SortedIsRanked ==
    ASSUME NEW n \in Nat, NEW s, DOMAIN s = 1 .. n, s = [i \in 1 .. n |-> s[i]], NEW R,
           TotalOn(R, Elements(s)), \A i, j \in 1 .. n : i < j => <<s[i], s[j]>> \in R
    PROVE  IsFiniteSet(Elements(s)) /\ Cardinality(Elements(s)) = n /\ RankedBy(Elements(s), R) = s
<1> DEFINE S == Elements(s)
           above(x) == {y \in S : <<y, x>> \in R}
           place(i) == CHOOSE x \in S : Cardinality(above(x)) = i - 1
<1>1. /\ \A i \in 1 .. n : s[i] \in S
      /\ \A x \in S : \E i \in 1 .. n : s[i] = x
  BY DEF Elements
<1>2. /\ \A x \in S : <<x, x>> \notin R
      /\ \A x, y, z \in S : <<x, y>> \in R /\ <<y, z>> \in R => <<x, z>> \in R
  BY DEF TotalOn
<1>3. RankedBy(S, R) = [i \in 1 .. Cardinality(S) |-> place(i)]
  BY DEF RankedBy
<1> HIDE DEF S
<1>4. \A i, j \in 1 .. n : <<s[i], s[j]>> \in R => i < j
  <2> SUFFICES ASSUME NEW i \in 1 .. n, NEW j \in 1 .. n, <<s[i], s[j]>> \in R, ~(i < j) PROVE FALSE
    OBVIOUS
  <2>1. i = j \/ j < i
    OBVIOUS
  <2>2. <<s[j], s[i]>> \in R \/ s[i] = s[j]
    BY <2>1
  <2> QED BY <1>1, <1>2, <2>2
<1>5. \A i, j \in 1 .. n : s[i] = s[j] => i = j
  <2> SUFFICES ASSUME NEW i \in 1 .. n, NEW j \in 1 .. n, s[i] = s[j], i # j PROVE FALSE
    OBVIOUS
  <2>1. i < j \/ j < i
    OBVIOUS
  <2> QED BY <1>1, <1>2, <2>1
<1>6. ASSUME NEW m \in 0 .. n
      PROVE  LET T == {s[j] : j \in 1 .. m} IN IsFiniteSet(T) /\ Cardinality(T) = m
  <2> DEFINE T == {s[j] : j \in 1 .. m}
             I == 1 .. m
             f == [j \in I |-> s[j]]
  <2>1. f \in Bijection(I, T)
    <3>1. f \in Injection(I, T)
      <4>1. \A j \in I : j \in 1 .. n
        OBVIOUS
      <4>2. \A j, k \in I : f[j] = f[k] => j = k
        BY <1>5, <4>1
      <4>3. f \in [I -> T] /\ DOMAIN f = I
        OBVIOUS
      <4> HIDE DEF f, I, T
      <4> QED BY <4>2, <4>3 DEF Injection, IsInjective
    <3>2. f \in Surjection(I, T)
      BY DEF Surjection
    <3> QED BY <3>1, <3>2 DEF Bijection
  <2>2. IsFiniteSet(I) /\ Cardinality(I) = m
    <3>1. 1 \in Int /\ m \in Int /\ (1 > m <=> m = 0) /\ m - 1 + 1 = m
      OBVIOUS
    <3>2. IsFiniteSet(1 .. m) /\ Cardinality(1 .. m) = IF 1 > m THEN 0 ELSE m - 1 + 1
      BY <3>1, FS_Interval
    <3> QED BY <3>1, <3>2
  <2> HIDE DEF I, T, f
  <2>3. IsFiniteSet(T) /\ Cardinality(T) = Cardinality(I)
    BY <2>1, <2>2, FS_Bijection DEF ExistsBijection
  <2> QED BY <2>2, <2>3 DEF T
<1>7. S = {s[j] : j \in 1 .. n}
  BY <1>1
<1>8. IsFiniteSet(S) /\ Cardinality(S) = n
  <2>1. n \in 0 .. n
    OBVIOUS
  <2> QED BY <1>6, <1>7, <2>1
<1>9. ASSUME NEW i \in 1 .. n PROVE Cardinality(above(s[i])) = i - 1
  <2>1. i - 1 \in 0 .. n
    OBVIOUS
  <2>2. above(s[i]) = {s[j] : j \in 1 .. i - 1}
    <3>1. ASSUME NEW y \in above(s[i]) PROVE \E j \in 1 .. i - 1 : y = s[j]
      <4>1. PICK j \in 1 .. n : s[j] = y
        BY <1>1, <3>1
      <4>2. j < i
        BY <1>4, <3>1, <4>1
      <4> QED BY <4>1, <4>2
    <3>2. ASSUME NEW j \in 1 .. i - 1 PROVE s[j] \in above(s[i])
      <4>1. j \in 1 .. n /\ j < i
        OBVIOUS
      <4> QED BY <1>1, <4>1
    <3> HIDE DEF above
    <3> QED BY <3>1, <3>2
  <2> QED BY <1>6, <2>1, <2>2
<1> HIDE DEF above
<1>10. ASSUME NEW i \in 1 .. n PROVE place(i) = s[i]
  <2>1. s[i] \in S /\ Cardinality(above(s[i])) = i - 1
    BY <1>1, <1>9
  <2>2. place(i) \in S /\ Cardinality(above(place(i))) = i - 1
    BY <2>1
  <2> HIDE DEF place
  <2>3. PICK k \in 1 .. n : s[k] = place(i)
    BY <1>1, <2>2
  <2>4. k - 1 = i - 1
    BY <1>9, <2>2, <2>3
  <2>5. k = i
    BY <2>4
  <2> QED BY <2>3, <2>5
<1> HIDE DEF place
<1>11. RankedBy(S, R) = s
  BY <1>3, <1>8, <1>10
<1> QED BY <1>8, <1>11 DEF S

\* The score and the identifier decide which of two hits comes first.
Ahead(score, id, other, otherId) == score > other \/ (score = other /\ id < otherId)

IsHit(h) == \E d : \E v \in Int : h = Hit(d, v) /\ d.id \in Int

LEMMA HitFields ==
    ASSUME NEW h, IsHit(h), NEW v \in Int
    PROVE  /\ h.score \in Int /\ h.id \in Int
           /\ IsHit([h EXCEPT !.score = v])
           /\ [h EXCEPT !.score = v].score = v /\ [h EXCEPT !.score = v].id = h.id
<1>1. PICK d : \E w \in Int : h = Hit(d, w) /\ d.id \in Int
  BY DEF IsHit
<1>2. PICK w \in Int : h = Hit(d, w)
  BY <1>1
<1>3. h = [doc |-> d, id |-> d.id, group |-> d.group, score |-> w]
  BY <1>2 DEF Hit
<1>4. [h EXCEPT !.score = v] = Hit(d, v)
  BY <1>3 DEF Hit
<1>5. Hit(d, v).score = v /\ Hit(d, v).id = d.id
  BY DEF Hit
<1>6. IsHit(Hit(d, v))
  BY <1>1 DEF IsHit
<1>7. h.score = w /\ h.id = d.id
  BY <1>3
<1> QED BY <1>1, <1>4, <1>5, <1>6, <1>7

\* Candidates a selection can choose from: no document twice.
IsPoolOf(C) ==
    /\ IsFiniteSet(C)
    /\ \A c \in C : IsHit(c.hit) /\ c.base \in Int /\ IsFiniteSet(c.evidence)
    /\ \A a, b \in C : a.hit.id = b.hit.id => a = b

\* What a candidate would be selected with once covered and represented are.
ScoreIn(done, c) == SelectionScore(c, done.covered, done.segments)

\* After n picks from C: the hits are in the order of their scores, and none
\* of the candidates left would have come before the last of them.
Selecting(C, n, done) ==
    /\ done.left \in SUBSET C /\ Cardinality(done.left) = Cardinality(C) - n
    /\ DOMAIN done.hits = 1 .. n /\ done.hits = [i \in 1 .. n |-> done.hits[i]]
    /\ \A i \in 1 .. n : IsHit(done.hits[i])
    /\ \A i \in 1 .. n : \A c \in done.left :
         /\ done.hits[i].id # c.hit.id
         /\ Ahead(done.hits[i].score, done.hits[i].id, ScoreIn(done, c), c.hit.id)
    /\ \A i, j \in 1 .. n : i < j =>
         /\ done.hits[i].id # done.hits[j].id
         /\ Ahead(done.hits[i].score, done.hits[i].id, done.hits[j].score, done.hits[j].id)

LEMMA ScoreInType ==
    ASSUME NEW c, c.base \in Int, IsFiniteSet(c.evidence), NEW done
    PROVE  ScoreIn(done, c) \in Int
<1> DEFINE gained == c.evidence \ done.covered
<1>1. gained \in SUBSET c.evidence
  OBVIOUS
<1> HIDE DEF gained
<1>2. Cardinality(gained) \in Nat
  BY <1>1, FS_Subset, FS_CardinalityType
<1>3. ScoreIn(done, c) = c.base + 16 * Cardinality(gained) + IF c.segment \in done.segments THEN 0 ELSE 28
  BY DEF ScoreIn, SelectionScore, gained
<1> QED BY <1>2, <1>3

\* What was covered since lowers the score of the candidates left.
LEMMA ScoresFall ==
    ASSUME NEW c, c.base \in Int, IsFiniteSet(c.evidence), NEW done, NEW more,
           done.covered \subseteq more.covered, done.segments \subseteq more.segments
    PROVE  ScoreIn(more, c) <= ScoreIn(done, c)
<1> DEFINE a == c.evidence \ done.covered
           b == c.evidence \ more.covered
<1>1. a \in SUBSET c.evidence /\ b \in SUBSET a
  OBVIOUS
<1>2. /\ ScoreIn(done, c) = c.base + 16 * Cardinality(a) + IF c.segment \in done.segments THEN 0 ELSE 28
      /\ ScoreIn(more, c) = c.base + 16 * Cardinality(b) + IF c.segment \in more.segments THEN 0 ELSE 28
  BY DEF ScoreIn, SelectionScore
<1> HIDE DEF a, b
<1>3. IsFiniteSet(a) /\ IsFiniteSet(b) /\ Cardinality(b) <= Cardinality(a)
  BY <1>1, FS_Subset
<1>4. Cardinality(a) \in Nat /\ Cardinality(b) \in Nat
  BY <1>3, FS_CardinalityType
<1>5. c.segment \in done.segments => c.segment \in more.segments
  OBVIOUS
<1> QED BY <1>2, <1>3, <1>4, <1>5

LEMMA AheadOfLess ==
    ASSUME NEW a \in Int, NEW i \in Int, NEW b \in Int, NEW j \in Int, NEW e \in Int,
           Ahead(a, i, b, j), e <= b
    PROVE  Ahead(a, i, e, j)
BY DEF Ahead


LEMMA PickedKeeps ==
    ASSUME NEW C, IsPoolOf(C), NEW n \in Nat, n < Cardinality(C), NEW done, Selecting(C, n, done)
    PROVE  Selecting(C, n + 1, Picked(done))
<1> DEFINE L == done.left
           sc == [c \in L |-> ScoreIn(done, c)]
           rank == [c \in L |-> <<ScoreIn(done, c), -c.hit.id>>]
           r == ByRank(L, rank)
           best == r[1]
           new == [best.hit EXCEPT !.score = sc[best]]
           more == Picked(done)
<1>1. /\ L \in SUBSET C /\ Cardinality(L) = Cardinality(C) - n /\ IsFiniteSet(L)
      /\ Cardinality(L) \in Nat /\ Cardinality(C) \in Nat
  BY FS_Subset, FS_CardinalityType DEF Selecting, IsPoolOf
<1>2. \A c \in L : /\ IsHit(c.hit) /\ c.base \in Int /\ IsFiniteSet(c.evidence)
                   /\ ScoreIn(done, c) \in Int /\ c.hit.id \in Int
  <2>1. \A c \in L : IsHit(c.hit) /\ c.base \in Int /\ IsFiniteSet(c.evidence)
    BY <1>1 DEF IsPoolOf
  <2>2. \A c \in L : c.hit.id \in Int
    <3>1. 0 \in Int
      OBVIOUS
    <3> QED BY <2>1, <3>1, HitFields
  <2> QED BY <2>1, <2>2, ScoreInType
<1>3. IsRanking(L, rank, 2)
  <2>1. ASSUME NEW x \in L
        PROVE  DOMAIN rank[x] = 1 .. 2 /\ \A i \in 1 .. 2 : rank[x][i] \in Int
    <3> DEFINE a == ScoreIn(done, x)
               b == -x.hit.id
    <3>1. a \in Int /\ b \in Int
      BY <1>2
    <3>2. rank[x] = <<a, b>>
      OBVIOUS
    <3> HIDE DEF a, b, rank
    <3> QED BY <3>1, <3>2
  <2>2. ASSUME NEW x \in L, NEW y \in L, x # y
        PROVE  \E i \in 1 .. 2 : rank[x][i] # rank[y][i]
    <3>1. x.hit.id # y.hit.id
      BY <1>1, <2>2 DEF IsPoolOf
    <3> DEFINE a == x.hit.id
               b == y.hit.id
    <3>2. rank[x][2] = -a /\ rank[y][2] = -b
      OBVIOUS
    <3>3. a \in Int /\ b \in Int /\ a # b
      BY <1>2, <3>1
    <3> HIDE DEF a, b, rank
    <3>4. rank[x][2] # rank[y][2]
      BY <3>2, <3>3
    <3> QED BY <3>4
  <2> QED BY <2>1, <2>2 DEF IsRanking
<1>4. /\ Lists(r, L)
      /\ \A i, j \in DOMAIN r : i < j => <<r[i], r[j]>> \in HigherRank(L, rank)
  <2>1. 2 \in Nat
    OBVIOUS
  <2> HIDE DEF L, rank
  <2> QED BY <1>1, <1>3, <2>1, ByRankLists
<1>5. more = [hits     |-> Append(done.hits, new),
              left     |-> L \ {best},
              covered  |-> done.covered \cup best.evidence,
              segments |-> done.segments \cup {best.segment}]
  <2> DEFINE one == [c \in done.left |-> <<SelectionScore(c, done.covered, done.segments), -c.hit.id>>]
             first == ByRank(done.left, one)[1]
  <2>1. one = rank
    BY DEF ScoreIn
  <2>2. Picked(done) = [hits     |-> Append(done.hits, [first.hit EXCEPT !.score =
                                        SelectionScore(first, done.covered, done.segments)]),
                        left     |-> done.left \ {first},
                        covered  |-> done.covered \cup first.evidence,
                        segments |-> done.segments \cup {first.segment}]
    BY DEF Picked
  <2>3. first = best
    BY <2>1
  <2>4. best \in L
    <3> HIDE DEF r, L
    <3>1. 1 \in DOMAIN r
      BY <1>1, <1>4 DEF Lists
    <3> QED BY <1>4, <3>1 DEF Lists
  <2>5. sc[best] = SelectionScore(best, done.covered, done.segments)
    BY <2>4 DEF ScoreIn
  <2> HIDE DEF first, best, one, sc
  <2> QED BY <2>2, <2>3, <2>5
<1>6. best \in L /\ \A c \in L : c # best => <<best, c>> \in HigherRank(L, rank)
  <2> HIDE DEF r, L, rank
  <2>1. DOMAIN r = 1 .. Len(r) /\ Len(r) \in Nat /\ Len(r) > 0
    BY <1>1, <1>4 DEF Lists
  <2>2. 1 \in DOMAIN r /\ \A j \in DOMAIN r : j # 1 => 1 < j
    BY <2>1
  <2>3. best \in L
    BY <1>4, <2>2 DEF Lists
  <2>4. ASSUME NEW c \in L, c # best PROVE <<best, c>> \in HigherRank(L, rank)
    <3>1. PICK j \in DOMAIN r : r[j] = c
      BY <1>4 DEF Lists, Elements
    <3>2. 1 < j
      BY <2>2, <2>4, <3>1
    <3> QED BY <1>4, <2>2, <3>1, <3>2
  <2> QED BY <2>3, <2>4
<1> HIDE DEF r, best
<1>7. ASSUME NEW c \in L, c # best
      PROVE  Ahead(sc[best], best.hit.id, ScoreIn(done, c), c.hit.id)
  <2> DEFINE a == rank[best]
             b == rank[c]
  <2>1. a = <<ScoreIn(done, best), -best.hit.id>> /\ b = <<ScoreIn(done, c), -c.hit.id>>
    BY <1>6
  <2>2. \E i \in DOMAIN a : a[i] > b[i] /\ \A j \in 1 .. i - 1 : a[j] = b[j]
    <3>1. <<best, c>> \in HigherRank(L, rank)
      BY <1>6, <1>7
    <3> HIDE DEF rank
    <3> QED BY <3>1 DEF HigherRank
  <2>3. sc[best] = ScoreIn(done, best)
    BY <1>6
  <2> DEFINE u == ScoreIn(done, best)
             v == ScoreIn(done, c)
             i == best.hit.id
             j == c.hit.id
  <2>4. u \in Int /\ v \in Int /\ i \in Int /\ j \in Int
    BY <1>2, <1>6
  <2>5. a = <<u, -i>> /\ b = <<v, -j>>
    BY <2>1
  <2>6. sc[best] = u
    BY <2>3
  <2> HIDE DEF a, b, u, v, i, j, sc
  <2>7. PICK k \in {1, 2} : a[k] > b[k] /\ \A m \in 1 .. k - 1 : a[m] = b[m]
    <3>1. DOMAIN a = {1, 2}
      BY <2>5
    <3> QED BY <2>2, <3>1
  <2>8. a[1] = u /\ b[1] = v /\ a[2] = -i /\ b[2] = -j
    BY <2>5
  <2>9. u > v \/ (u = v /\ i < j)
    <3>1. CASE k = 1
      BY <2>7, <2>8, <3>1
    <3>2. CASE k = 2
      <4>1. 1 \in 1 .. k - 1
        BY <3>2
      <4>2. u = v /\ -i > -j
        BY <2>7, <2>8, <3>2, <4>1
      <4> QED BY <2>4, <4>2
    <3> QED BY <3>1, <3>2
  <2> QED BY <2>6, <2>9 DEF Ahead, i, j, v
<1>8. /\ IsHit(new) /\ new.score = sc[best] /\ new.id = best.hit.id
      /\ sc[best] \in Int /\ sc[best] = ScoreIn(done, best)
  <2>1. sc[best] = ScoreIn(done, best) /\ sc[best] \in Int /\ IsHit(best.hit)
    BY <1>2, <1>6
  <2> HIDE DEF sc
  <2> QED BY <2>1, HitFields
<1> HIDE DEF new, more, sc
<1>9. /\ more.left = L \ {best} /\ more.hits = Append(done.hits, new)
      /\ done.covered \subseteq more.covered /\ done.segments \subseteq more.segments
  BY <1>5
<1>10. /\ DOMAIN done.hits = 1 .. n /\ done.hits = [i \in 1 .. n |-> done.hits[i]]
       /\ \A i \in 1 .. n : IsHit(done.hits[i])
  BY DEF Selecting
<1>11. /\ DOMAIN more.hits = 1 .. n + 1 /\ more.hits = [i \in 1 .. n + 1 |-> more.hits[i]]
       /\ \A i \in 1 .. n : more.hits[i] = done.hits[i]
       /\ more.hits[n + 1] = new
  <2> DEFINE X == {done.hits[i] : i \in 1 .. n} \cup {new}
             s == done.hits
  <2>1. s \in [1 .. n -> X]
    BY <1>10
  <2>2. more.hits = Append(s, new) /\ new \in X
    BY <1>9
  <2> HIDE DEF X, s
  <2>3. s \in Seq(X) /\ Len(s) = n
    BY <2>1
  <2>4. Append(s, new) \in Seq(X) /\ Len(Append(s, new)) = n + 1
    BY <2>2, <2>3
  <2>5. more.hits \in [1 .. n + 1 -> X]
    <3> DEFINE a == Append(s, new)
    <3>1. a \in Seq(X) /\ Len(a) = n + 1
      BY <2>4
    <3> HIDE DEF a
    <3>2. a \in [1 .. n + 1 -> X]
      BY <3>1
    <3> QED BY <2>2, <3>2 DEF a
  <2>6. (\A i \in 1 .. n : more.hits[i] = s[i]) /\ more.hits[n + 1] = new
    BY <2>2, <2>3
  <2> QED BY <2>5, <2>6 DEF s
<1>12. \A c \in L : c # best => c.hit.id # best.hit.id
  BY <1>1, <1>6 DEF IsPoolOf
<1>13. \A c \in L : ScoreIn(more, c) \in Int /\ ScoreIn(more, c) <= ScoreIn(done, c)
  BY <1>2, <1>9, ScoreInType, ScoresFall
<1>14. ASSUME NEW i \in 1 .. n
       PROVE  /\ done.hits[i].score \in Int /\ done.hits[i].id \in Int
              /\ \A c \in L : done.hits[i].id # c.hit.id
              /\ \A c \in L : Ahead(done.hits[i].score, done.hits[i].id, ScoreIn(done, c), c.hit.id)
  <2>1. IsHit(done.hits[i]) /\ 0 \in Int
    BY <1>10
  <2>2. done.hits[i].score \in Int /\ done.hits[i].id \in Int
    BY <2>1, HitFields
  <2> QED BY <2>2 DEF Selecting
<1>15. more.left \in SUBSET C /\ Cardinality(more.left) = Cardinality(C) - (n + 1)
  <2>1. Cardinality(L \ {best}) = Cardinality(L) - 1
    BY <1>1, <1>6, FS_RemoveElement
  <2> HIDE DEF L
  <2> QED BY <1>1, <1>9, <2>1
<1>16. \A i \in 1 .. n + 1 : IsHit(more.hits[i])
  <2>1. \A i \in 1 .. n + 1 : i \in 1 .. n \/ i = n + 1
    OBVIOUS
  <2> QED BY <1>8, <1>10, <1>11, <2>1
<1>17. ASSUME NEW i \in 1 .. n + 1, NEW c \in more.left
       PROVE  /\ more.hits[i].id # c.hit.id
              /\ Ahead(more.hits[i].score, more.hits[i].id, ScoreIn(more, c), c.hit.id)
  <2>1. c \in L /\ c # best
    BY <1>9
  <2>2. ScoreIn(done, c) \in Int /\ ScoreIn(more, c) \in Int /\ ScoreIn(more, c) <= ScoreIn(done, c)
        /\ c.hit.id \in Int /\ best.hit.id \in Int
    BY <1>2, <1>6, <1>13, <2>1
  <2>3. CASE i \in 1 .. n
    <3>1. more.hits[i] = done.hits[i]
      BY <1>11, <2>3
    <3>2. /\ done.hits[i].score \in Int /\ done.hits[i].id \in Int /\ done.hits[i].id # c.hit.id
          /\ Ahead(done.hits[i].score, done.hits[i].id, ScoreIn(done, c), c.hit.id)
      BY <1>14, <2>1, <2>3
    <3>3. Ahead(done.hits[i].score, done.hits[i].id, ScoreIn(more, c), c.hit.id)
      BY <2>2, <3>2, AheadOfLess
    <3> QED BY <3>1, <3>2, <3>3
  <2>4. CASE i = n + 1
    <3>1. more.hits[i] = new /\ new.id # c.hit.id
      BY <1>8, <1>11, <1>12, <2>1, <2>4
    <3>2. Ahead(sc[best], best.hit.id, ScoreIn(done, c), c.hit.id)
      BY <1>7, <2>1
    <3>3. Ahead(sc[best], best.hit.id, ScoreIn(more, c), c.hit.id)
      BY <1>8, <2>2, <3>2, AheadOfLess
    <3> QED BY <1>8, <3>1, <3>3
  <2>5. i \in 1 .. n \/ i = n + 1
    OBVIOUS
  <2> QED BY <2>3, <2>4, <2>5
<1>18. ASSUME NEW i \in 1 .. n + 1, NEW j \in 1 .. n + 1, i < j
       PROVE  /\ more.hits[i].id # more.hits[j].id
              /\ Ahead(more.hits[i].score, more.hits[i].id, more.hits[j].score, more.hits[j].id)
  <2>1. i \in 1 .. n /\ (j \in 1 .. n \/ j = n + 1)
    BY <1>18
  <2>2. more.hits[i] = done.hits[i]
    BY <1>11, <2>1
  <2>3. CASE j \in 1 .. n
    <3>1. more.hits[j] = done.hits[j]
      BY <1>11, <2>3
    <3> QED BY <1>18, <2>1, <2>2, <2>3, <3>1 DEF Selecting
  <2>4. CASE j = n + 1
    <3>1. more.hits[j] = new
      BY <1>11, <2>4
    <3>2. done.hits[i].id # best.hit.id
      BY <1>6, <1>14, <2>1
    <3>3. Ahead(done.hits[i].score, done.hits[i].id, ScoreIn(done, best), best.hit.id)
      BY <1>6, <1>14, <2>1
    <3> QED BY <1>8, <2>2, <3>1, <3>2, <3>3
  <2> QED BY <2>1, <2>3, <2>4
<1> HIDE DEF L
<1> QED BY <1>11, <1>15, <1>16, <1>17, <1>18 DEF Selecting, more

PickingStep(c, n, v) == Picked(v)

Picking == INSTANCE FoldTheorems WITH Step <- PickingStep, Choice <- LastOf, Inv <- Anything

\* A selection is a list of hits in the order of their scores.
LEMMA SelectionIsSorted ==
    ASSUME NEW C, IsPoolOf(C), request.topK \in Nat
    PROVE  LET n == AtMost(request.topK, Cardinality(C)) IN
           n \in Nat /\ n <= request.topK
           /\ \E done : Selecting(C, n, done) /\ RouteAwareSelection(C) = done.hits
<1> DEFINE n == AtMost(request.topK, Cardinality(C))
           start == NothingPicked(C)
<1>1. Cardinality(C) \in Nat /\ n \in Nat /\ n <= request.topK /\ n <= Cardinality(C)
  <2>1. Cardinality(C) \in Nat
    BY FS_CardinalityType DEF IsPoolOf
  <2>2. /\ AtMost(request.topK, Cardinality(C)) <= request.topK
        /\ AtMost(request.topK, Cardinality(C)) <= Cardinality(C)
        /\ \/ AtMost(request.topK, Cardinality(C)) = request.topK
           \/ AtMost(request.topK, Cardinality(C)) = Cardinality(C)
    <3> DEFINE k == request.topK
               m == Cardinality(C)
    <3>1. k \in Int /\ m \in Int
      BY <2>1
    <3> HIDE DEF k, m
    <3>2. AtMost(k, m) <= k /\ AtMost(k, m) <= m /\ (AtMost(k, m) = k \/ AtMost(k, m) = m)
      BY <3>1, AtMostType
    <3> QED BY <3>2 DEF k, m
  <2> QED BY <2>1, <2>2
<1>2. RouteAwareSelection(C) = Picking!Iterated(0, start, n).hits
  BY DEF RouteAwareSelection, Picking!Iterated, PickingStep
<1> HIDE DEF n
<1>3. PICK tr : Picking!IsTrace(0, start, n, tr) /\ Picking!Iterated(0, start, n) = tr[n]
  <2>1. Picking!Chooses(1 .. n) /\ \A k \in 1 .. n : LastOf(1 .. k) = k
    BY <1>1, LastOfInterval DEF Picking!Chooses
  <2> HIDE DEF start
  <2> QED BY <1>1, <2>1, Picking!IterationHasTrace
<1>4. tr[0] = start /\ \A k \in 1 .. n : tr[k] = Picked(tr[k - 1])
  BY <1>3 DEF Picking!IsTrace, PickingStep
<1>5. Selecting(C, 0, start)
  <2>1. start.left = C /\ start.hits = <<>>
    BY DEF NothingPicked
  <2>2. <<>> = [i \in 1 .. 0 |-> <<>>[i]] /\ DOMAIN <<>> = 1 .. 0 /\ 1 .. 0 = {}
    OBVIOUS
  <2>3. Cardinality(C) = Cardinality(C) - 0
    BY <1>1
  <2> HIDE DEF start
  <2> QED BY <2>1, <2>2, <2>3 DEF Selecting
<1> DEFINE T == {k \in Nat : k <= n => Selecting(C, k, tr[k])}
<1>6. ASSUME NEW k \in Nat, k < n, Selecting(C, k, tr[k]) PROVE Selecting(C, k + 1, tr[k + 1])
  <2>1. k + 1 \in 1 .. n /\ (k + 1) - 1 = k /\ k < Cardinality(C)
    BY <1>1, <1>6
  <2>2. tr[k + 1] = Picked(tr[k])
    BY <1>4, <2>1
  <2>3. Selecting(C, k + 1, Picked(tr[k]))
    BY <1>6, <2>1, PickedKeeps
  <2> QED BY <2>2, <2>3
<1>7. n \in T
  <2>1. 0 \in T
    BY <1>4, <1>5
  <2>2. \A k \in Nat : k < n /\ k \in T => k + 1 \in T
    BY <1>1, <1>6
  <2> HIDE DEF T
  <2> QED BY <1>1, <2>1, <2>2, Picking!StepsReach
<1>8. Selecting(C, n, tr[n])
  BY <1>1, <1>7
<1> QED BY <1>1, <1>2, <1>3, <1>8 DEF n


-----------------------------------------------------------------------------
(* The candidates of a selection *)

LEMMA ShareType == ASSUME NEW a \in Int, NEW b \in Int PROVE Share(a, b) \in Int
<1> DEFINE n == NonNegative(a)
<1>1. n \in Nat
  BY NonNegativeType
<1>2. Share(a, b) = IF b > 0 THEN AtMost((100 * n) \div b, 100) ELSE n
  BY DEF Share
<1> HIDE DEF n
<1>3. b > 0 => (100 * n) \div b \in Int
  BY <1>1
<1> DEFINE q == (100 * n) \div b
<1>4. b > 0 => AtMost(q, 100) \in Int
  <2>1. b > 0 => q \in Int
    BY <1>3
  <2> HIDE DEF q
  <2> QED BY <2>1, AtMostType
<1> QED BY <1>1, <1>2, <1>4

\* The highest of some scores, or 0.
LEMMA MostType ==
    ASSUME NEW S, S \subseteq Int, IsFiniteSet(S)
    PROVE  Max({0} \cup S) \in Int
<1> DEFINE Z == {0} \cup S
<1>1. Z \in SUBSET Int /\ Z # {}
  OBVIOUS
<1>2. IsFiniteSet(S \cup {0}) /\ Z = S \cup {0}
  BY FS_AddElement
<1> HIDE DEF Z
<1>3. Max(Z) \in Z
  BY <1>1, <1>2, MaxIsIn
<1> QED BY <1>1, <1>3 DEF Z

LEMMA ResultTermsType == ASSUME NEW d, IsDocument(d) PROVE ResultTerms(d) \in SUBSET Terms
<1>1. /\ Support(d.terms) \subseteq Terms /\ Support(d.entities) \subseteq Terms
      /\ d.temporal \subseteq Terms /\ {d.topic} \ {0} \subseteq Terms
  BY DEF IsDocument, Support
<1> QED BY <1>1 DEF ResultTerms

LEMMA DateScoreType ==
    ASSUME NEW d, IsDocument(d), NEW c, IsContext(c)
    PROVE  DateScore(d, c) \in Int
<1> DEFINE far == Distance(d.date, c.end)
           delta == d.date - c.end
           hinted == CASE c.hint = "past" /\ delta <= 0 -> 40
                       [] c.hint \in {"present", "ongoing"} /\ far <= c.window -> 40
                       [] c.hint = "mixed" /\ far <= 4 * c.window -> 20
                       [] OTHER -> 0
           near == IF far <= c.window THEN 100 - (100 * far) \div c.window ELSE 0
<1>1. d.date \in Nat /\ c.end \in Nat /\ c.window \in Nat \ {0}
  BY DEF IsDocument, IsContext
<1>2. far \in Nat
  <2>1. \A a, b \in Nat : Distance(a, b) \in Nat
    BY DistanceType
  <2> QED BY <1>1, <2>1
<1>3. DateScore(d, c) = IF ~c.explicit /\ c.hint = "none" /\ c.end = 0 THEN 0
                        ELSE (IF d.temporal = {} THEN 0 ELSE 40)
                             + IF d.date = 0 THEN 0 ELSE IF c.end = 0 THEN 20 ELSE hinted + near
  BY DEF DateScore
<1> HIDE DEF far
<1>4. near \in Int
  BY <1>1, <1>2
<1> HIDE DEF delta, near
<1>5. hinted \in Int
  OBVIOUS
<1> HIDE DEF hinted
<1> QED BY <1>3, <1>4, <1>5

\* A candidate of a hit, whose score and evidence can be compared and counted.
IsCandidate(c, hit) == c.hit = hit /\ c.base \in Int /\ IsFiniteSet(c.evidence)

LEMMA CandidateType ==
    ASSUME NEW D, IsCatalog(catalog, D), NEW route \in RouteSet(D), NEW d, IsDocument(d),
           NEW hit, hit = Hit(d, d.hit), NEW best \in Int, NEW bestRoute \in Int, NEW added,
           IsContext(ctx), request.terms \in SUBSET Terms
    PROVE  IsCandidate(Candidate(hit, route, best, bestRoute, added), hit)
<1> DEFINE sum == catalog.summary[route.segment]
           terms == ResultTerms(d)
           queried == terms \cap request.terms
           gained == terms \cap added
           w == [t \in terms |-> (LocalTermWeight(sum, t) * EvidenceMultiplier(sum, t)) \div 100]
           a == Share(d.hit, best)
           b == Share(route.score, bestRoute)
           l == AtMost(Total(w), 300)
           e == DateScore(d, ctx)
           base == a + (b * 35) \div 100 + Cardinality(queried) * 18 + Cardinality(gained) * 14
                     + (l * 12) \div 100 + e \div 10 - (IF queried \cup gained = {} THEN 18 ELSE 0)
<1>1. hit.doc = d /\ hit.score = d.hit /\ d.hit \in Int /\ route.segment \in D /\ route.score \in Int
  BY DEF Hit, IsDocument, RouteSet
<1>2. Candidate(hit, route, best, bestRoute, added)
        = [hit |-> hit, segment |-> route.segment, evidence |-> queried \cup gained, base |-> base]
  BY <1>1 DEF Candidate, Sum
<1>3. terms \in SUBSET Terms
  BY ResultTermsType
<1> HIDE DEF terms
<1>4. /\ IsFiniteSet(queried \cup gained)
      /\ Cardinality(queried) \in Nat /\ Cardinality(gained) \in Nat
  <2>1. queried \in SUBSET Terms /\ gained \in SUBSET Terms /\ queried \cup gained \in SUBSET Terms
    BY <1>3
  <2> HIDE DEF queried, gained
  <2> QED BY <2>1, FiniteTerms
<1>5. Total(w) \in Int
  <2>1. \A t \in terms : LocalTermWeight(sum, t) \in Nat /\ EvidenceMultiplier(sum, t) \in Nat
    BY <1>1, <1>3, TermWeights
  <2> HIDE DEF sum
  <2>2. w \in [terms -> Int]
    BY <2>1
  <2>3. IsFiniteSet(terms)
    BY <1>3, FiniteTerms
  <2> HIDE DEF w
  <2> QED BY <2>2, <2>3, TotalOfInt
<1>6. l \in Int
  <2> HIDE DEF w
  <2> QED BY <1>5, AtMostType
<1>7. a \in Int /\ b \in Int
  BY <1>1, ShareType
<1>8. e \in Int
  BY DateScoreType
<1>9. base \in Int
  <2> DEFINE q == Cardinality(queried)
             g == Cardinality(gained)
             none == IF queried \cup gained = {} THEN 18 ELSE 0
  <2>1. q \in Nat /\ g \in Nat /\ none \in Int
    BY <1>4
  <2>2. base = a + (b * 35) \div 100 + q * 18 + g * 14 + (l * 12) \div 100 + e \div 10 - none
    OBVIOUS
  <2> HIDE DEF a, b, q, g, l, e, none, base
  <2> QED BY <1>6, <1>7, <1>8, <2>1, <2>2
<1> HIDE DEF base, queried, gained
<1> QED BY <1>2, <1>4, <1>9 DEF IsCandidate

\* A document lies in one segment.
OneSegmentEach == \A s, r \in DOMAIN corpus : s # r => corpus[s] \cap corpus[r] = {}

LEMMA OneSegmentEachInit ==
    ASSUME NEW p \in Publications, corpus = Published(p) PROVE OneSegmentEach
<1>1. CASE ValidManifest(p.docs, p.manifest)
  <2>1. corpus = [s \in DOMAIN p.manifest |-> {d \in p.docs : d.id \in p.manifest[s]}]
    BY <1>1 DEF Published
  <2>2. \A s, r \in DOMAIN p.manifest : s # r => p.manifest[s] \cap p.manifest[r] = {}
    BY <1>1 DEF ValidManifest
  <2> QED BY <2>1, <2>2 DEF OneSegmentEach
<1>2. CASE ~ValidManifest(p.docs, p.manifest)
  <2>1. corpus = [g \in {d.group : d \in p.docs} |-> {d \in p.docs : d.group = g}]
    BY <1>2 DEF Published, GroupSegments
  <2> QED BY <2>1 DEF OneSegmentEach
<1> QED BY <1>1, <1>2

\* What a segment returned are hits of its documents.
LEMMA OutcomeIsPart ==
    ASSUME QueryInv, GatheredInv, NEW s \in DOMAIN corpus, NEW c
    PROVE  /\ Elements(Hits(s, c)) \in SUBSET HitsOf(corpus[s], c.allowed)
           /\ IsFiniteSet(HitsOf(corpus[s], c.allowed))
<1> DEFINE T == HitsOf(Documents, c.allowed)
           H == HitsOf(corpus[s], c.allowed)
           k == CandidateLimit
<1>1. AreHits(T) /\ H \in SUBSET T
  BY SnapshotHits
<1>2. Hits(s, c) = Take(ByHit(H), k)
  BY DEF Hits, HitsOf
<1>3. k \in Nat
  BY RequestType DEF QueryInv, CandidateLimit
<1> HIDE DEF T, H, k
<1>4. IsFiniteSet(H) /\ TotalOn(BetterHits(T), H) /\ ByHit(H) = RankedBy(H, BetterHits(T))
  BY <1>1, ByHitRanks
<1>5. ByHit(H) \in Seq(H)
  BY <1>4, RankingLists DEF Lists
<1>6. /\ DOMAIN Take(ByHit(H), k) = 1 .. Len(Take(ByHit(H), k))
      /\ Take(ByHit(H), k) \in Seq(H)
  BY <1>3, <1>5, TakeIsHead
<1>7. Elements(Hits(s, c)) \in SUBSET H
  BY <1>2, <1>6 DEF Elements
<1> QED BY <1>4, <1>7 DEF H

\* What a reduction starts from: each planned segment has answered.
Answered == \A i \in DOMAIN plan : outcomes[i].hits = Hits(plan[i].segment, ctx)

LEMMA CandidatesArePool ==
    ASSUME QueryInv, GatheredInv, OneSegmentEach, IsContext(ctx), Answered
    PROVE  IsPoolOf(Candidates)
<1> DEFINE D == DOMAIN corpus
           I == DOMAIN plan
           T == HitsOf(Documents, ctx.allowed)
           hits(i) == Elements(outcomes[i].hits)
           best(i) == Max({0} \cup {h.score : h \in hits(i)})
           added(i) == AddedTerms(corpus[plan[i].segment], plan[i].segment, request.terms, ctx)
           made(h, i) == Candidate(h, plan[i], best(i), BestRoute, added(i))
           part(i) == {made(h, i) : h \in hits(i)}
<1>1. Candidates = UNION {part(i) : i \in I}
  BY DEF Candidates
<1>2. /\ plan \in Seq(RouteSet(D)) /\ \A i, j \in I : i # j => plan[i].segment # plan[j].segment
      /\ request.terms \in SUBSET Terms /\ IsCatalog(catalog, D)
  BY RequestType, CatalogType DEF QueryInv, IsPlan, OneEach
<1>3. /\ IsFiniteSet(I)
      /\ \A i \in I : plan[i] \in RouteSet(D) /\ plan[i].segment \in D /\ plan[i].score \in Int
  <2>1. Len(plan) \in Nat /\ I = 1 .. Len(plan)
    BY <1>2
  <2>2. IsFiniteSet(1 .. Len(plan))
    <3> DEFINE n == Len(plan)
    <3>1. 1 \in Int /\ n \in Int
      BY <2>1
    <3> HIDE DEF n
    <3>2. IsFiniteSet(1 .. n)
      BY <3>1, FS_Interval
    <3> QED BY <3>2 DEF n
  <2>3. \A i \in I : plan[i] \in RouteSet(D)
    BY <1>2
  <2> QED BY <2>1, <2>2, <2>3 DEF RouteSet
<1>4. AreHits(T) /\ \A s \in D : HitsOf(corpus[s], ctx.allowed) \in SUBSET T
  BY SnapshotHits
<1>5. ASSUME NEW i \in I
      PROVE  /\ hits(i) \in SUBSET HitsOf(corpus[plan[i].segment], ctx.allowed)
             /\ hits(i) \in SUBSET T /\ IsFiniteSet(hits(i))
  <2> DEFINE s == plan[i].segment
             X == hits(i)
             H == HitsOf(corpus[s], ctx.allowed)
  <2>1. X = Elements(Hits(s, ctx)) /\ s \in D
    BY <1>3 DEF Answered
  <2> HIDE DEF X, s
  <2>2. X \in SUBSET H /\ IsFiniteSet(H)
    BY <2>1, OutcomeIsPart
  <2>3. H \in SUBSET T
    BY <1>4, <2>1
  <2> HIDE DEF H, T
  <2>4. X \in SUBSET T /\ IsFiniteSet(X)
    BY <2>2, <2>3, FS_Subset
  <2> QED BY <2>2, <2>4 DEF X, H, s
<1>6. ASSUME NEW i \in I, NEW h \in hits(i)
      PROVE  \E d \in corpus[plan[i].segment] : IsDocument(d) /\ h = Hit(d, d.hit)
  <2>1. h \in HitsOf(corpus[plan[i].segment], ctx.allowed) /\ plan[i].segment \in D
    BY <1>3, <1>5
  <2>2. \A d \in corpus[plan[i].segment] : IsDocument(d)
    BY <2>1 DEF QueryInv, IsCorpus
  <2> QED BY <2>1, <2>2 DEF HitsOf
<1>7. BestRoute \in Int
  <2> DEFINE S == {r.score : r \in Elements(plan)}
             f == [i \in I |-> plan[i].score]
  <2>1. f \in Surjection(I, S) /\ S \subseteq Int
    BY <1>3 DEF Surjection, Elements
  <2>2. BestRoute = Max({0} \cup S)
    BY DEF BestRoute
  <2> HIDE DEF S, f, I
  <2>3. IsFiniteSet(S)
    BY <1>3, <2>1, FS_Surjection
  <2> QED BY <2>1, <2>2, <2>3, MostType
<1>8. ASSUME NEW i \in I PROVE best(i) \in Int
  <2> DEFINE X == hits(i)
             S == {h.score : h \in X}
             f == [h \in X |-> h.score]
  <2>1. IsFiniteSet(X) /\ X \in SUBSET T
    BY <1>5
  <2>2. f \in Surjection(X, S) /\ S \subseteq Int
    BY <1>4, <2>1 DEF Surjection, AreHits
  <2>3. best(i) = Max({0} \cup S)
    OBVIOUS
  <2> HIDE DEF best, X, S, f
  <2>4. IsFiniteSet(S)
    BY <2>1, <2>2, FS_Surjection
  <2> QED BY <2>2, <2>3, <2>4, MostType
<1> HIDE DEF best, added, hits, T, I
<1>9. ASSUME NEW i \in I, NEW h \in hits(i)
      PROVE  /\ made(h, i).hit = h /\ made(h, i).base \in Int /\ IsFiniteSet(made(h, i).evidence)
             /\ IsHit(h)
  <2>1. PICK d \in corpus[plan[i].segment] : IsDocument(d) /\ h = Hit(d, d.hit)
    BY <1>6
  <2>2. IsHit(h)
    BY <2>1 DEF IsHit, IsDocument
  <2> DEFINE b == best(i)
             a == added(i)
             r == plan[i]
  <2>3. b \in Int /\ r \in RouteSet(D)
    BY <1>3, <1>8
  <2> HIDE DEF b, a, r, D
  <2>4. IsCandidate(Candidate(h, r, b, BestRoute, a), h)
    BY <1>2, <1>7, <2>1, <2>3, CandidateType
  <2> QED BY <2>2, <2>4 DEF IsCandidate, a, b, r
<1> HIDE DEF made
<1>10. IsFiniteSet(Candidates)
  <2> DEFINE P == {part(i) : i \in I}
             f == [i \in I |-> part(i)]
  <2>1. \A i \in I : IsFiniteSet(part(i))
    <3> TAKE i \in I
    <3> DEFINE X == hits(i)
               Y == part(i)
               g == [h \in X |-> made(h, i)]
    <3>1. g \in Surjection(X, Y) /\ IsFiniteSet(X)
      BY <1>5 DEF Surjection
    <3> HIDE DEF X, Y, g
    <3>2. IsFiniteSet(Y)
      BY <3>1, FS_Surjection
    <3> QED BY <3>2 DEF Y
  <2>2. f \in Surjection(I, P) /\ \A Y \in P : IsFiniteSet(Y)
    BY <2>1 DEF Surjection
  <2>3. Candidates = UNION P
    BY <1>1
  <2> HIDE DEF P, f
  <2>4. IsFiniteSet(P)
    BY <1>3, <2>2, FS_Surjection
  <2> QED BY <2>2, <2>3, <2>4, FS_UNION
<1>11. \A c \in Candidates : \E i \in I : \E h \in hits(i) : c = made(h, i)
  BY <1>1
<1>12. \A c \in Candidates : IsHit(c.hit) /\ c.base \in Int /\ IsFiniteSet(c.evidence)
  BY <1>9, <1>11
<1>13. ASSUME NEW a \in Candidates, NEW b \in Candidates, a.hit.id = b.hit.id PROVE a = b
  <2>1. PICK i \in I : \E h \in hits(i) : a = made(h, i)
    BY <1>11
  <2>2. PICK h \in hits(i) : a = made(h, i)
    BY <2>1
  <2>3. PICK j \in I : \E k \in hits(j) : b = made(k, j)
    BY <1>11
  <2>4. PICK k \in hits(j) : b = made(k, j)
    BY <2>3
  <2>5. a.hit = h /\ b.hit = k /\ h \in T /\ k \in T
    BY <1>5, <1>9, <2>2, <2>4
  <2>6. h = k
    BY <1>4, <1>13, <2>5 DEF AreHits
  <2>7. PICK d \in corpus[plan[i].segment] : h = Hit(d, d.hit)
    BY <1>6
  <2>8. PICK e \in corpus[plan[j].segment] : k = Hit(e, e.hit)
    BY <1>6
  <2>9. d = e
    <3>1. h.doc = d /\ k.doc = e
      BY <2>7, <2>8 DEF Hit
    <3> QED BY <2>6, <3>1
  <2>10. plan[i].segment = plan[j].segment
    <3>1. plan[i].segment \in D /\ plan[j].segment \in D
      BY <1>3
    <3> QED BY <2>7, <2>8, <2>9, <3>1 DEF OneSegmentEach
  <2>11. i = j
    BY <1>2, <2>10 DEF I
  <2> QED BY <2>2, <2>6, <2>11, <2>4
<1> QED BY <1>10, <1>12, <1>13 DEF IsPoolOf


-----------------------------------------------------------------------------
(* The order of a selection *)

\* The reduction sorts a selection again and finds it in order.
LEMMA SelectionStays ==
    ASSUME NEW C, IsPoolOf(C), request.topK \in Nat
    PROVE  Finalized(Elements(RouteAwareSelection(C)), FALSE) = RouteAwareSelection(C)
<1> DEFINE s == RouteAwareSelection(C)
           E == Elements(s)
           R == BetterHits(E)
           n == AtMost(request.topK, Cardinality(C))
           k == request.topK
<1>1. n \in Nat /\ n <= k /\ \E done : Selecting(C, n, done) /\ s = done.hits
  BY SelectionIsSorted
<1> HIDE DEF s, n
<1>2. PICK done : Selecting(C, n, done) /\ s = done.hits
  BY <1>1
<1>3. /\ DOMAIN s = 1 .. n /\ s = [i \in 1 .. n |-> s[i]]
      /\ \A i \in 1 .. n : IsHit(s[i])
      /\ \A i, j \in 1 .. n : i < j =>
           s[i].id # s[j].id /\ Ahead(s[i].score, s[i].id, s[j].score, s[j].id)
  BY <1>2 DEF Selecting
<1>4. \A i \in 1 .. n : s[i].score \in Int /\ s[i].id \in Int
  <2>1. 0 \in Int
    OBVIOUS
  <2> QED BY <1>3, <2>1, HitFields
<1>5. E = {s[i] : i \in 1 .. n}
  BY <1>3 DEF Elements
<1> HIDE DEF E
<1>6. IsFiniteSet(E)
  <2> DEFINE I == 1 .. n
             f == [i \in I |-> s[i]]
  <2>1. IsFiniteSet(I)
    <3>1. 1 \in Int /\ n \in Int
      BY <1>1
    <3> QED BY <3>1, FS_Interval
  <2>2. f \in Surjection(I, E)
    BY <1>5 DEF Surjection
  <2> HIDE DEF I, f
  <2> QED BY <2>1, <2>2, FS_Surjection
<1>7. \A a, b \in E : a.id = b.id => a = b
  <2> SUFFICES ASSUME NEW i \in 1 .. n, NEW j \in 1 .. n, s[i].id = s[j].id PROVE s[i] = s[j]
    BY <1>5
  <2>1. i < j \/ j < i \/ i = j
    OBVIOUS
  <2> QED BY <1>3, <2>1
<1>8. AreHits(E)
  BY <1>4, <1>5, <1>6, <1>7 DEF AreHits
<1>9. TotalOn(R, E) /\ ByHit(E) = RankedBy(E, R)
  BY <1>8, ByHitRanks
<1>10. ASSUME NEW i \in 1 .. n, NEW j \in 1 .. n, i < j PROVE <<s[i], s[j]>> \in R
  BY <1>3, <1>5, <1>10 DEF BetterHits, Ahead
<1> HIDE DEF R
<1>11. ByHit(E) = s
  <2>1. TotalOn(R, Elements(s)) /\ E = Elements(s)
    BY <1>9 DEF E
  <2>2. RankedBy(Elements(s), R) = s
    BY <1>1, <1>3, <1>10, <2>1, SortedIsRanked
  <2> QED BY <1>9, <2>1, <2>2
<1>12. Take(s, k) = s
  <2>1. s \in Seq(E) /\ Len(s) = n
    BY <1>1, <1>3, <1>5
  <2> HIDE DEF k
  <2>2. k \in Nat
    BY DEF k
  <2>3. /\ Len(Take(s, k)) = (IF k <= Len(s) THEN k ELSE Len(s))
        /\ DOMAIN Take(s, k) = 1 .. Len(Take(s, k)) /\ Take(s, k) \in Seq(E)
        /\ \A i \in DOMAIN Take(s, k) : i \in DOMAIN s /\ Take(s, k)[i] = s[i]
    BY <2>1, <2>2, TakeIsHead
  <2> DEFINE t == Take(s, k)
  <2> HIDE DEF t
  <2>4. Len(t) = n /\ DOMAIN t = 1 .. n /\ t \in Seq(E) /\ \A i \in 1 .. n : t[i] = s[i]
    BY <1>1, <2>1, <2>2, <2>3 DEF t
  <2>5. t = [i \in 1 .. n |-> t[i]]
    BY <2>4
  <2>6. t = s
    BY <1>3, <2>4, <2>5
  <2> QED BY <2>6 DEF t
<1>13. Finalized(E, FALSE) = Take(ByHit(E), k)
  BY DEF Finalized
<1> QED BY <1>11, <1>12, <1>13 DEF E, s

\* A selection depends on what a reduction leaves alone.
LEMMA SelectionIsSame ==
    ASSUME corpus' = corpus, catalog' = catalog, request' = request, ctx' = ctx,
           plan' = plan, outcomes' = outcomes
    PROVE  RouteAwareSelection(Candidates)' = RouteAwareSelection(Candidates)
<1>1. BestRoute' = BestRoute
  BY DEF BestRoute
<1>2. \A docs, s, terms, c : AddedTerms(docs, s, terms, c)' = AddedTerms(docs, s, terms, c)
  BY DEF AddedTerms, ByScore
<1>3. \A hit, route, best, bestRoute, added :
        Candidate(hit, route, best, bestRoute, added)' = Candidate(hit, route, best, bestRoute, added)
  BY DEF Candidate, Sum
<1>4. Candidates' = Candidates
  <2> DEFINE best(i) == Max({0} \cup {h.score : h \in Elements(outcomes[i].hits)})
             added(i) == AddedTerms(corpus[plan[i].segment], plan[i].segment, request.terms, ctx)
             part(i) == {Candidate(h, plan[i], best(i), BestRoute, added(i)) :
                           h \in Elements(outcomes[i].hits)}
  <2>1. Candidates = UNION {part(i) : i \in DOMAIN plan}
    BY DEF Candidates
  <2>2. Candidates' = UNION {part(i)' : i \in DOMAIN plan}
    BY DEF Candidates
  <2>3. \A i : added(i)' = added(i)
    BY <1>2
  <2>4. \A i : best(i)' = best(i)
    OBVIOUS
  <2> HIDE DEF best, added
  <2>5. \A i : part(i)' = part(i)
    BY <1>1, <1>3, <2>3, <2>4
  <2> HIDE DEF part
  <2> QED BY <2>1, <2>2, <2>5
<1>5. \A C : RouteAwareSelection(C)' = RouteAwareSelection(C)
  BY DEF RouteAwareSelection
<1> QED BY <1>4, <1>5

\* What keeps the order of a selection final: a document lies in one segment,
\* the segments of an enriched plan have all answered when it is reduced.
SelectionInv ==
    /\ OneSegmentEach /\ IsContext(ctx)
    /\ stage = "reducing" => Answered
    /\ SelectionOrderIsFinal

LEMMA SelectionInvStep ==
    ASSUME QueryInv, GatheredInv, SelectionInv, [QueryNext]_queryVars PROVE SelectionInv'
<1>1. corpus' = corpus /\ request' = request /\ IsEmptyRequest' = IsEmptyRequest
  BY DEF QueryNext, queryVars, AnswerEmpty, SearchOneSegment, SearchSingleIndex, Plan, PlanSegmented,
         PlanAll, Planned, PlanWithin, PlanAdaptive, PlanAdaptiveRouteAware, PlanEnriched,
         PlanRouteAware, PlanSessionAggregated, TopRoutes, PlanTemporalPath, PlanConnected,
         PlanRecovery, ExecuteBatch, ReduceDefault, ExecuteEnriched, PanicEnriched, ReduceEnriched,
         Terminated, IsEmptyRequest
<1>2. OneSegmentEach'
  BY <1>1 DEF SelectionInv, OneSegmentEach
<1>3. CASE Plan
  <2>1. stage' = "planned" /\ IsContext(ctx')
    <3>1. request.end \in Nat /\ request.window \in Nat
      BY RequestType DEF QueryInv
    <3>2. \A a : IsContext(PreparedContext(request, a))
      BY PreparedIsContext
    <3>3. IsContext(GivenContext(request))
      BY <3>1, GivenIsContext
    <3>4. IsContext(EnrichedContext)
      BY <3>2, <3>3 DEF EnrichedContext
    <3>5. \A c, ranked : PlanWithin(c, ranked) => stage' = "planned" /\ ctx' = c
      BY DEF PlanWithin, PlanAdaptive, PlanAdaptiveRouteAware, PlanEnriched, PlanRouteAware, Planned,
             PlanSessionAggregated, TopRoutes, PlanTemporalPath, PlanConnected, PlanRecovery
    <3>6. \A r : PlanSegmented(r) => stage' = "planned" /\ IsContext(ctx')
      BY <3>2 DEF PlanSegmented, Planned
    <3>7. \A r : PlanAll(r) => stage' = "planned" /\ IsContext(ctx')
      BY <3>3 DEF PlanAll, Planned
    <3> QED BY <1>3, <3>4, <3>5, <3>6, <3>7 DEF Plan
  <2> QED BY <1>2, <2>1 DEF SelectionInv, SelectionOrderIsFinal
<1>4. CASE SearchOneSegment \/ SearchSingleIndex
  <2>1. /\ stage' = "answered" /\ request.mode \notin RouteAwareModes
        /\ IsContext(ctx')
    BY <1>4, PreparedIsContext DEF SearchOneSegment, SearchSingleIndex, RouteAwareModes
  <2> QED BY <1>1, <1>2, <2>1 DEF SelectionInv, SelectionOrderIsFinal
<1>5. CASE ExecuteEnriched
  <2>1. /\ stage' = "reducing" /\ ctx' = ctx /\ plan' = plan
        /\ outcomes' = [i \in DOMAIN plan |-> Outcome(plan[i].segment, FALSE)]
    BY <1>5 DEF ExecuteEnriched
  <2>2. \A s : Hits(s, ctx)' = Hits(s, ctx)
    BY <1>1, <2>1 DEF Hits, CandidateLimit
  <2>3. \A i \in DOMAIN plan : outcomes'[i].hits = Hits(plan[i].segment, ctx)
    BY <2>1 DEF Outcome
  <2>4. Answered'
    BY <2>1, <2>2, <2>3 DEF Answered
  <2> QED BY <1>2, <2>1, <2>4 DEF SelectionInv, SelectionOrderIsFinal, IsContext
<1>6. CASE ReduceEnriched
  <2>1. /\ stage = "reducing" /\ stage' = "answered" /\ ctx' = ctx /\ catalog' = catalog
        /\ plan' = plan /\ outcomes' = outcomes
        /\ request.mode \in RouteAwareModes =>
             answer' = Finalized(Elements(RouteAwareSelection(Candidates)), FALSE)
    BY <1>6 DEF ReduceEnriched
  <2>2. IsPoolOf(Candidates) /\ request.topK \in Nat
    BY <2>1, CandidatesArePool, RequestType DEF SelectionInv, QueryInv
  <2>3. request.mode \in RouteAwareModes => answer' = RouteAwareSelection(Candidates)
    BY <2>1, <2>2, SelectionStays
  <2>4. RouteAwareSelection(Candidates)' = RouteAwareSelection(Candidates)
    BY <1>1, <2>1, SelectionIsSame
  <2>5. SelectionOrderIsFinal'
    BY <1>1, <2>3, <2>4 DEF SelectionOrderIsFinal
  <2> QED BY <1>2, <2>1, <2>5 DEF SelectionInv, IsContext
<1>7. CASE AnswerEmpty
  BY <1>1, <1>2, <1>7 DEF AnswerEmpty, SelectionInv, SelectionOrderIsFinal, IsContext
<1>8. CASE ExecuteBatch \/ PanicEnriched
  <2>1. (stage' = "planned" \/ stage' = "panicked") /\ ctx' = ctx
    BY <1>8 DEF ExecuteBatch, PanicEnriched
  <2> QED BY <1>2, <2>1 DEF SelectionInv, SelectionOrderIsFinal, IsContext
<1>9. CASE ReduceDefault
  <2>1. stage' = "answered" /\ ctx' = ctx /\ request.mode \notin RouteAwareModes
    BY <1>9 DEF ReduceDefault, DefaultModes, RouteAwareModes
  <2> QED BY <1>1, <1>2, <2>1 DEF SelectionInv, SelectionOrderIsFinal, IsContext
<1>10. CASE Terminated \/ UNCHANGED queryVars
  <2>1. /\ corpus' = corpus /\ catalog' = catalog /\ request' = request /\ ctx' = ctx
        /\ plan' = plan /\ outcomes' = outcomes /\ stage' = stage /\ answer' = answer
    BY <1>10 DEF Terminated, queryVars
  <2>2. RouteAwareSelection(Candidates)' = RouteAwareSelection(Candidates)
    BY <2>1, SelectionIsSame
  <2>3. SelectionOrderIsFinal'
    BY <1>1, <2>1, <2>2 DEF SelectionInv, SelectionOrderIsFinal
  <2>4. \A s : Hits(s, ctx)' = Hits(s, ctx)
    BY <2>1 DEF Hits, CandidateLimit
  <2>5. stage' = "reducing" => Answered'
    BY <2>1, <2>4 DEF SelectionInv, Answered
  <2> QED BY <1>2, <2>1, <2>3, <2>5 DEF SelectionInv, IsContext
<1> QED BY <1>3, <1>4, <1>5, <1>6, <1>7, <1>8, <1>9, <1>10 DEF QueryNext

\* The answer of a route-aware query is the list its selection picked.
THEOREM SelectionOrderIsFinalHolds == QuerySpec => []SelectionOrderIsFinal
<1>1. QueryInit => SelectionInv
  <2> SUFFICES ASSUME QueryInit PROVE SelectionInv
    OBVIOUS
  <2>1. OneSegmentEach
    BY OneSegmentEachInit DEF QueryInit
  <2>2. stage = "new" /\ ctx = NoContext
    BY DEF QueryInit
  <2>3. IsContext(NoContext)
    BY DEF IsContext, NoContext
  <2> QED BY <2>1, <2>2, <2>3 DEF SelectionInv, SelectionOrderIsFinal
<1>2. QuerySpec => []SelectionInv
  BY <1>1, QueryInvHolds, GatheredInvHolds, SelectionInvStep, PTL DEF QuerySpec
<1>3. SelectionInv => SelectionOrderIsFinal
  BY DEF SelectionInv
<1> QED BY <1>2, <1>3, PTL
=============================================================================
