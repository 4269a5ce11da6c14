------------------------------- MODULE Ranking -------------------------------
(* The way every ranked list of the query plane is made: candidates are kept  *)
(* in an unordered map, sorted best first with an identifier as tie-break,    *)
(* and cut at a limit.  Scores and weights are hundredths throughout.         *)
EXTENDS Integers, Sequences, FiniteSets, FiniteSetsExt

Seqs == INSTANCE SequencesExt

\* The elements of a set, first to last; Before must be a strict total order.
Ranked(S, Before(_, _)) ==
  [i \in 1 .. Cardinality(S) |->
     CHOOSE x \in S : Cardinality({y \in S : Before(y, x)}) = i - 1]

\* Highest weight first, lowest identifier first among equals.
ByWeight(S, w) == Ranked(S, LAMBDA x, y : w[x] > w[y] \/ (w[x] = w[y] /\ x < y))

\* Highest rank first: the first number in which two ranks differ decides.
ByRank(S, rank) ==
  Ranked(S, LAMBDA x, y : \E i \in DOMAIN rank[x] :
              rank[x][i] > rank[y][i] /\ \A j \in 1 .. i - 1 : rank[x][j] = rank[y][j])

ByScore(S, score(_)) == ByWeight(S, [x \in S |-> score(x)])

Take(s, n) == SubSeq(s, 1, Min({n, Len(s)}))

Elements(s) == {s[i] : i \in DOMAIN s}

\* The elements of a sequence that belong to a set, in their order.
Within(s, T) ==
  LET at == Ranked({i \in DOMAIN s : s[i] \in T}, LAMBDA i, j : i < j)
  IN  [k \in DOMAIN at |-> s[at[k]]]

Total(f) == Seqs!SumFunction(f)

Sum(f(_), S) == Total([x \in S |-> f(x)])

AtMost(n, limit) == Min({n, limit})

NonNegative(n) == Max({n, 0})

\* A distribution gives every term a weight; 0 means the map has no entry.
Support(d) == {t \in DOMAIN d : d[t] > 0}

\* normalize_distribution: shares of the total, and an entry stays an entry.
Normalised(d) ==
  LET total == Sum(LAMBDA t : d[t], DOMAIN d)
  IN  [t \in DOMAIN d |-> IF d[t] = 0 THEN 0 ELSE Max({1, (100 * d[t]) \div total})]

\* top_weighted_keys and retain_top_terms: the heaviest terms of a distribution.
TopTerms(d, limit) == Elements(Take(ByScore(Support(d), LAMBDA t : d[t]), limit))

Retained(d, limit) ==
  LET top == TopTerms(d, limit)
  IN  [t \in DOMAIN d |-> IF t \in top THEN d[t] ELSE 0]

\* merge_distribution: add a share of one distribution to another.
Merged(d, e, share) ==
  [t \in DOMAIN d |->
     d[t] + IF e[t] = 0 THEN 0 ELSE Max({1, (e[t] * share) \div 100})]
=============================================================================
