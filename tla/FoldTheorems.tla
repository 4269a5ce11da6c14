----------------------------- MODULE FoldTheorems -----------------------------
(***************************************************************************)
(* What holds of a fold over a finite set, by induction on the set.  The   *)
(* folds of the community modules (FoldSet, FoldLeft) are instances: a     *)
(* proof names what one step does, the element that is taken last and the  *)
(* invariant, instantiates this module with them, and cites FoldInduction. *)
(***************************************************************************)
EXTENDS Ranking, FiniteSetTheorems, WellFoundedInduction, TLAPS

CONSTANTS
    Step(_, _, _),  \* in context c, the value v after element x
    Choice(_),      \* the element of a set that is taken last
    Inv(_, _, _)    \* in context c, after the elements of s: what holds of v

Fold(c, base, D) ==
    LET iter[s \in SUBSET D] ==
            IF s = {} THEN base
            ELSE LET x == Choice(s) IN Step(c, x, iter[s \ {x}])
    IN  iter[D]

Chooses(D) == \A s \in SUBSET D : s # {} => Choice(s) \in s

\* f is the value of the fold for every subset of T.
IsFold(c, base, T, f) ==
    f = [s \in SUBSET T |-> IF s = {} THEN base
                            ELSE Step(c, Choice(s), f[s \ {Choice(s)}])]

\* Every set of subsets of a finite set has a member with no other below it.
LEMMA SmallestSubset ==
    ASSUME NEW D, IsFiniteSet(D), NEW F, F \subseteq SUBSET D, F # {}
    PROVE  \E s \in F : \A t \in F : t \subseteq s => t = s
<1>1. IsWellFoundedOn(StrictSubsetOrdering(D), FiniteSubsetsOf(D))
  BY FS_StrictSubsetOrderingWellFounded
<1>2. F \subseteq FiniteSubsetsOf(D)
  BY FS_Subset DEF FiniteSubsetsOf
<1>3. PICK s \in F : \A t \in F : ~(<<t, s>> \in StrictSubsetOrdering(D))
  BY <1>1, <1>2, WFMin
<1>4. ASSUME NEW t \in F, t \subseteq s, t # s PROVE FALSE
  <2>1. <<t, s>> \in StrictSubsetOrdering(D)
    BY <1>3, <1>4 DEF StrictSubsetOrdering
  <2> QED BY <1>3, <2>1
<1> QED BY <1>4

\* A nonempty set of indices has a last one.
LEMMA LastIndex ==
    ASSUME NEW n \in Nat, NEW S \in SUBSET (1..n), S # {}
    PROVE  \E x \in S : \A y \in S : x >= y
<1> DEFINE T == {m \in Nat : n - m \in S}
<1>1. IsWellFoundedOn(OpToRel(<, Nat), Nat)
  BY NatLessThanWellFounded
<1>2. T \subseteq Nat /\ T # {}
  <2>1. PICK x \in S : TRUE
    OBVIOUS
  <2>2. x \in 1..n /\ n - x \in Nat /\ n - (n - x) = x
    OBVIOUS
  <2>3. n - x \in T
    BY <2>1, <2>2
  <2> QED BY <2>3
<1>3. PICK m \in T : \A k \in T : ~(<<k, m>> \in OpToRel(<, Nat))
  <2> HIDE DEF T
  <2> QED BY <1>1, <1>2, WFMin
<1>4. \A k \in T : ~(k < m)
  BY <1>2, <1>3 DEF OpToRel
<1>5. ASSUME NEW y \in S PROVE n - m >= y
  <2>1. y \in 1..n /\ n - y \in Nat /\ n - (n - y) = y
    OBVIOUS
  <2>2. n - y \in T
    BY <2>1
  <2>3. ~(n - y < m)
    BY <1>4, <2>2
  <2>4. m \in Nat
    BY <1>3
  <2> QED BY <2>1, <2>3, <2>4
<1>6. n - m \in S
  BY <1>3
<1> QED BY <1>5, <1>6

LEMMA FoldIsUnique ==
    ASSUME NEW c, NEW base, NEW D, IsFiniteSet(D), Chooses(D),
           NEW f, NEW g, IsFold(c, base, D, f), IsFold(c, base, D, g)
    PROVE  f = g
<1> DEFINE F == {s \in SUBSET D : f[s] # g[s]}
<1>1. CASE F = {}
  BY <1>1 DEF IsFold
<1>2. CASE F # {}
  <2>0. F \subseteq SUBSET D
    OBVIOUS
  <2> HIDE DEF F
  <2>1. PICK s \in F : \A t \in F : t \subseteq s => t = s
    BY <1>2, <2>0, SmallestSubset
  <2> USE DEF F
  <2>2. s # {}
    BY <2>1 DEF IsFold
  <2>3. s \ {Choice(s)} \subseteq s /\ s \ {Choice(s)} # s
    BY <2>1, <2>2 DEF Chooses
  <2>4. f[s \ {Choice(s)}] = g[s \ {Choice(s)}]
    BY <2>1, <2>3
  <2>5. f[s] = g[s]
    BY <2>1, <2>2, <2>4 DEF IsFold
  <2> QED BY <2>1, <2>5
<1> QED BY <1>1, <1>2

LEMMA FoldOfSubset ==
    ASSUME NEW c, NEW base, NEW D, Chooses(D), NEW f, IsFold(c, base, D, f),
           NEW T \in SUBSET D
    PROVE  IsFold(c, base, T, [s \in SUBSET T |-> f[s]])
<1>1. \A s \in SUBSET T : s # {} => s \ {Choice(s)} \in SUBSET T
  OBVIOUS
<1> DEFINE r == [s \in SUBSET T |-> f[s]]
<1>2. \A s \in SUBSET T : f[s] = IF s = {} THEN base ELSE Step(c, Choice(s), f[s \ {Choice(s)}])
  BY DEF IsFold
<1>3. \A s \in SUBSET T : s # {} => r[s \ {Choice(s)}] = f[s \ {Choice(s)}]
  BY <1>1
<1>4. r = [s \in SUBSET T |-> IF s = {} THEN base ELSE Step(c, Choice(s), r[s \ {Choice(s)}])]
  BY <1>2, <1>3
<1> QED BY <1>4 DEF IsFold

LEMMA FoldExists ==
    ASSUME NEW c, NEW base, NEW D, IsFiniteSet(D), Chooses(D)
    PROVE  \E f : IsFold(c, base, D, f)
<1> DEFINE F == {T \in SUBSET D : ~\E f : IsFold(c, base, T, f)}
<1> SUFFICES ASSUME F # {} PROVE FALSE
  OBVIOUS
<1>0. F \subseteq SUBSET D
  OBVIOUS
<1> HIDE DEF F
<1>1. PICK T \in F : \A t \in F : t \subseteq T => t = T
  BY <1>0, SmallestSubset
<1> USE DEF F
<1>2. T \in SUBSET D /\ IsFiniteSet(T) /\ ~\E f : IsFold(c, base, T, f)
  BY <1>1, FS_Subset
<1>3. \A u \in SUBSET T : u # T => \E f : IsFold(c, base, u, f)
  BY <1>1
<1> HIDE DEF F
<1> DEFINE Of(u) == CHOOSE f : IsFold(c, base, u, f)
           G == [s \in SUBSET T |-> IF s = {} THEN base
                   ELSE Step(c, Choice(s), Of(s \ {Choice(s)})[s \ {Choice(s)}])]
<1>4. \A u \in SUBSET T : u # T => IsFold(c, base, u, Of(u))
  BY <1>3
<1>5. \A s \in SUBSET T : s # {} =>
         Choice(s) \in s /\ s \ {Choice(s)} \in SUBSET T /\ s \ {Choice(s)} # T
  BY <1>2 DEF Chooses
<1>6. ASSUME NEW u \in SUBSET T, u # T
      PROVE  Of(u)[u] = G[u]
  <2>1. IsFold(c, base, u, Of(u))
    BY <1>4, <1>6
  <2>2. CASE u = {}
    BY <2>1, <2>2 DEF IsFold
  <2>3. CASE u # {}
    <3> DEFINE w == u \ {Choice(u)}
    <3>1. w \in SUBSET u /\ w \in SUBSET T /\ w # T /\ Choice(u) \in u
      BY <1>5, <2>3
    <3>2. IsFold(c, base, w, Of(w))
      BY <1>4, <3>1
    <3>3. IsFold(c, base, w, [s \in SUBSET w |-> Of(u)[s]])
      BY <1>2, <2>1, <3>1, FoldOfSubset DEF Chooses
    <3>4. Of(w) = [s \in SUBSET w |-> Of(u)[s]]
      BY <1>2, <3>1, <3>2, <3>3, FoldIsUnique, FS_Subset DEF Chooses
    <3>5. Of(w)[w] = Of(u)[w]
      BY <3>4
    <3>6. Of(u)[u] = Step(c, Choice(u), Of(u)[w])
      BY <2>1, <2>3 DEF IsFold
    <3>7. G[u] = Step(c, Choice(u), Of(w)[w])
      BY <2>3
    <3> QED BY <3>5, <3>6, <3>7
  <2> QED BY <2>2, <2>3
<1>7. \A s \in SUBSET T : s # {} =>
         Of(s \ {Choice(s)})[s \ {Choice(s)}] = G[s \ {Choice(s)}]
  BY <1>5, <1>6
<1>8. G = [s \in SUBSET T |-> IF s = {} THEN base ELSE Step(c, Choice(s), G[s \ {Choice(s)}])]
  <2> DEFINE H == [s \in SUBSET T |-> IF s = {} THEN base ELSE Step(c, Choice(s), G[s \ {Choice(s)}])]
  <2>1. ASSUME NEW s \in SUBSET T PROVE G[s] = H[s]
    <3>1. CASE s = {}
      BY <3>1
    <3>2. CASE s # {}
      <4>1. G[s] = Step(c, Choice(s), Of(s \ {Choice(s)})[s \ {Choice(s)}])
        BY <3>2
      <4>2. H[s] = Step(c, Choice(s), G[s \ {Choice(s)}])
        BY <3>2
      <4> HIDE DEF G, H, Of
      <4> QED BY <1>7, <3>2, <4>1, <4>2
    <3> QED BY <3>1, <3>2
  <2> QED BY <2>1
<1>9. IsFold(c, base, T, G)
  BY <1>8 DEF IsFold
<1> QED BY <1>2, <1>9

LEMMA FoldValue ==
    ASSUME NEW c, NEW base, NEW D, IsFiniteSet(D), Chooses(D)
    PROVE  \E f : IsFold(c, base, D, f) /\ Fold(c, base, D) = f[D]
<1> DEFINE f == CHOOSE f : IsFold(c, base, D, f)
<1>1. IsFold(c, base, D, f)
  BY FoldExists
<1>2. Fold(c, base, D) = f[D]
  BY DEF Fold, IsFold
<1> HIDE DEF f
<1> QED BY <1>1, <1>2

(* What holds of the start, and stays true as each element is taken, holds  *)
(* of the fold over all elements.                                           *)
THEOREM FoldInduction ==
    ASSUME NEW c, NEW base, NEW D, IsFiniteSet(D), Chooses(D),
           Inv(c, {}, base),
           \A s \in SUBSET D : \A v :
              s # {} /\ Inv(c, s \ {Choice(s)}, v) => Inv(c, s, Step(c, Choice(s), v))
    PROVE  Inv(c, D, Fold(c, base, D))
<1>1. PICK f : IsFold(c, base, D, f) /\ Fold(c, base, D) = f[D]
  BY FoldValue
<1> DEFINE F == {s \in SUBSET D : ~Inv(c, s, f[s])}
<1>2. CASE F = {}
  BY <1>1, <1>2
<1>3. CASE F # {}
  <2>0. F \subseteq SUBSET D
    OBVIOUS
  <2> HIDE DEF F
  <2>1. PICK s \in F : \A t \in F : t \subseteq s => t = s
    BY <1>3, <2>0, SmallestSubset
  <2> USE DEF F
  <2>2. s # {}
    BY <1>1, <2>1 DEF IsFold
  <2>3. s \ {Choice(s)} \subseteq s /\ s \ {Choice(s)} # s
    BY <2>1, <2>2 DEF Chooses
  <2>4. Inv(c, s \ {Choice(s)}, f[s \ {Choice(s)}])
    BY <2>1, <2>3
  <2>5. f[s] = Step(c, Choice(s), f[s \ {Choice(s)}])
    BY <1>1, <2>1, <2>2 DEF IsFold
  <2> QED BY <2>1, <2>2, <2>4, <2>5
<1> QED BY <1>2, <1>3

\* What a fold over the numbers up to n, taken in order, comes to on its way.
IsTrace(c, base, n, tr) ==
    /\ tr[0] = base
    /\ \A k \in 1 .. n : tr[k] = Step(c, k, tr[k - 1])

LEMMA FoldHasTrace ==
    ASSUME NEW c, NEW base, NEW n \in Nat, Chooses(1 .. n),
           \A k \in 1 .. n : Choice(1 .. k) = k
    PROVE  \E tr : IsTrace(c, base, n, tr) /\ Fold(c, base, 1 .. n) = tr[n]
<1>1. IsFiniteSet(1 .. n)
  BY FS_Interval
<1>2. PICK f : IsFold(c, base, 1 .. n, f) /\ Fold(c, base, 1 .. n) = f[1 .. n]
  BY <1>1, FoldValue
<1> DEFINE tr == [k \in 0 .. n |-> f[1 .. k]]
<1>3. tr[0] = base
  <2>1. 1 .. 0 = {} /\ 0 \in 0 .. n
    OBVIOUS
  <2> QED BY <1>2, <2>1 DEF IsFold
<1>4. ASSUME NEW k \in 1 .. n PROVE tr[k] = Step(c, k, tr[k - 1])
  <2> DEFINE T == 1 .. k
  <2>1. k \in Int /\ 1 <= k /\ k <= n /\ k - 1 \in 0 .. n /\ k \in 0 .. n
    OBVIOUS
  <2>4. T \in SUBSET (1 .. n) /\ k \in T /\ T \ {k} = 1 .. (k - 1)
    BY <2>1
  <2>5. Choice(T) = k
    OBVIOUS
  <2>2. f[T] = Step(c, k, f[1 .. (k - 1)])
    <3> HIDE DEF T
    <3>1. T # {}
      BY <2>4
    <3>2. f[T] = Step(c, Choice(T), f[T \ {Choice(T)}])
      BY <1>2, <2>4, <3>1 DEF IsFold
    <3> QED BY <2>4, <2>5, <3>2
  <2>3. tr[k] = f[1 .. k] /\ tr[k - 1] = f[1 .. (k - 1)]
    BY <2>1
  <2> QED BY <2>2, <2>3
<1>5. tr[n] = f[1 .. n]
  OBVIOUS
<1> HIDE DEF tr
<1> QED BY <1>2, <1>3, <1>4, <1>5 DEF IsTrace

\* A function defined from each number to the next.
Iteration(c, base, n) ==
    LET value[k \in 0 .. n] == IF k = 0 THEN base ELSE Step(c, k, value[k - 1])
    IN  value

LEMMA IterationIsTrace ==
    ASSUME NEW c, NEW base, NEW n \in Nat, Chooses(1 .. n),
           \A k \in 1 .. n : Choice(1 .. k) = k
    PROVE  DOMAIN Iteration(c, base, n) = 0 .. n /\ IsTrace(c, base, n, Iteration(c, base, n))
<1> DEFINE Values(f) == f = [k \in 0 .. n |-> IF k = 0 THEN base ELSE Step(c, k, f[k - 1])]
           value == CHOOSE f : Values(f)
<1>1. PICK tr : IsTrace(c, base, n, tr)
  BY FoldHasTrace
<1> DEFINE f == [k \in 0 .. n |-> tr[k]]
<1>2. ASSUME NEW k \in 0 .. n PROVE f[k] = IF k = 0 THEN base ELSE Step(c, k, f[k - 1])
  <2>1. CASE k = 0
    BY <1>1, <2>1 DEF IsTrace
  <2>2. CASE k # 0
    <3>1. k \in 1 .. n /\ k - 1 \in 0 .. n
      BY <2>2
    <3>2. f[k] = tr[k] /\ f[k - 1] = tr[k - 1]
      BY <3>1
    <3> HIDE DEF f
    <3> QED BY <1>1, <2>2, <3>1, <3>2 DEF IsTrace
  <2> QED BY <2>1, <2>2
<1>3. Values(f)
  <2>1. f = [k \in 0 .. n |-> f[k]]
    OBVIOUS
  <2> HIDE DEF f
  <2> QED BY <1>2, <2>1
<1>4. Values(value)
  <2> HIDE DEF Values, f
  <2> QED BY <1>3
<1>5. Iteration(c, base, n) = value
  BY DEF Iteration
<1> HIDE DEF value
<1>6. value[0] = base
  <2>1. 0 \in 0 .. n
    OBVIOUS
  <2> QED BY <1>4, <2>1
<1>7. ASSUME NEW k \in 1 .. n PROVE value[k] = Step(c, k, value[k - 1])
  <2>1. k \in 0 .. n /\ k # 0
    OBVIOUS
  <2> QED BY <1>4, <2>1
<1>8. IsTrace(c, base, n, value) /\ DOMAIN value = 0 .. n
  BY <1>4, <1>6, <1>7 DEF IsTrace
<1> QED BY <1>5, <1>8

\* The n-th value of such a function.
Iterated(c, base, n) ==
    LET value[k \in 0 .. n] == IF k = 0 THEN base ELSE Step(c, k, value[k - 1])
    IN  value[n]

LEMMA IterationHasTrace ==
    ASSUME NEW c, NEW base, NEW n \in Nat, Chooses(1 .. n),
           \A k \in 1 .. n : Choice(1 .. k) = k
    PROVE  \E tr : IsTrace(c, base, n, tr) /\ Iterated(c, base, n) = tr[n]
<1>1. IsTrace(c, base, n, Iteration(c, base, n))
  BY IterationIsTrace
<1>2. Iterated(c, base, n) = Iteration(c, base, n)[n]
  BY DEF Iterated, Iteration
<1> QED BY <1>1, <1>2

-----------------------------------------------------------------------------
(***************************************************************************)
(* Rankings and joined sequences, which take such inductions too.          *)
(***************************************************************************)

\* What goes on from each number to the next gets from 0 to every number.
LEMMA StepsReach ==
    ASSUME NEW n \in Nat, NEW T, 0 \in T, \A k \in Nat : k < n /\ k \in T => k + 1 \in T
    PROVE  n \in T
<1> DEFINE S == {j \in 1 .. n + 1 : j - 1 \in T}
<1>1. n + 1 \in Nat /\ S \in SUBSET (1 .. n + 1) /\ 1 \in S
  OBVIOUS
<1>2. PICK j \in S : \A i \in S : j >= i
  <2> HIDE DEF S
  <2> QED BY <1>1, LastIndex
<1>3. j \in 1 .. n + 1 /\ j - 1 \in T /\ j - 1 \in Nat /\ j + 1 \notin S
  BY <1>2
<1>4. j - 1 < n => j \in T
  BY <1>3
<1>5. ~(j - 1 < n)
  BY <1>3, <1>4
<1> QED BY <1>3, <1>5

TotalOn(R, S) ==
    /\ \A x \in S : <<x, x>> \notin R
    /\ \A x, y \in S : x # y => <<x, y>> \in R \/ <<y, x>> \in R
    /\ \A x, y, z \in S : <<x, y>> \in R /\ <<y, z>> \in R => <<x, z>> \in R

RankedBy(S, R) ==
    [i \in 1 .. Cardinality(S) |-> CHOOSE x \in S : Cardinality({y \in S : <<y, x>> \in R}) = i - 1]

\* A ranking names every element, no element before one it follows, and each at
\* the place the number of those before it says.
LEMMA RankingPlaces ==
    ASSUME NEW S, IsFiniteSet(S), NEW R, TotalOn(R, S)
    PROVE  LET r == RankedBy(S, R) IN
           /\ DOMAIN r = 1 .. Cardinality(S)
           /\ Elements(r) = S
           /\ \A i, j \in DOMAIN r : i < j => <<r[i], r[j]>> \in R
           /\ \A i \in DOMAIN r : Cardinality({y \in S : <<y, r[i]>> \in R}) = i - 1
<1> DEFINE n == Cardinality(S)
           below(x) == {y \in S : <<y, x>> \in R}
           rank == [x \in S |-> Cardinality(below(x))]
           r == RankedBy(S, R)
<1>1. n \in Nat
  BY FS_CardinalityType
<1>2. \A x \in S : IsFiniteSet(below(x)) /\ Cardinality(below(x)) \in Nat
  <2>1. \A x \in S : below(x) \in SUBSET S
    OBVIOUS
  <2> HIDE DEF below
  <2> QED BY <2>1, FS_Subset, FS_CardinalityType
<1>3. ASSUME NEW x \in S PROVE Cardinality(below(x)) < n
  <2>1. below(x) \in SUBSET S /\ x \notin below(x)
    BY DEF TotalOn
  <2> HIDE DEF below
  <2>2. Cardinality(below(x)) <= n /\ Cardinality(below(x)) # n
    BY <2>1, FS_Subset
  <2> QED BY <1>1, <1>2, <2>2
<1>4. ASSUME NEW x \in S, NEW y \in S, <<x, y>> \in R
      PROVE  Cardinality(below(x)) < Cardinality(below(y))
  <2>1. below(x) \in SUBSET below(y) /\ x \in below(y) /\ x \notin below(x)
    BY <1>4 DEF TotalOn
  <2> HIDE DEF below
  <2>2. Cardinality(below(x)) <= Cardinality(below(y)) /\ Cardinality(below(x)) # Cardinality(below(y))
    BY <1>2, <2>1, FS_Subset
  <2> QED BY <1>2, <2>2
<1>5. r = [i \in 1 .. n |-> CHOOSE x \in S : Cardinality(below(x)) = i - 1]
  BY DEF RankedBy
<1> HIDE DEF below, r
<1>6. rank \in Injection(S, 0 .. n - 1)
  <2>1. rank \in [S -> 0 .. n - 1]
    BY <1>1, <1>2, <1>3
  <2>2. ASSUME NEW x \in S, NEW y \in S, x # y PROVE rank[x] # rank[y]
    <3>1. rank[x] = Cardinality(below(x)) /\ rank[y] = Cardinality(below(y))
      OBVIOUS
    <3>2. <<x, y>> \in R \/ <<y, x>> \in R
      BY <2>2 DEF TotalOn
    <3> QED BY <1>2, <1>4, <3>1, <3>2
  <2> QED BY <2>1, <2>2 DEF Injection, IsInjective
<1>7. IsFiniteSet(0 .. n - 1) /\ Cardinality(0 .. n - 1) = n
  <2>1. 0 \in Int /\ n - 1 \in Int
    BY <1>1
  <2> DEFINE m == n - 1
  <2>2. IsFiniteSet(0 .. m) /\ Cardinality(0 .. m) = IF 0 > m THEN 0 ELSE m - 0 + 1
    <3> HIDE DEF m
    <3> QED BY <2>1, FS_Interval DEF m
  <2> QED BY <1>1, <2>2
<1>8. rank \in Surjection(S, 0 .. n - 1)
  <2> HIDE DEF rank
  <2> QED BY <1>6, <1>7, FS_Injection
<1>9. ASSUME NEW i \in 1 .. n
      PROVE  r[i] \in S /\ Cardinality(below(r[i])) = i - 1
  <2>1. PICK e \in S : rank[e] = i - 1
    <3>1. i - 1 \in 0 .. n - 1
      BY <1>1
    <3> QED BY <1>8, <3>1 DEF Surjection
  <2>2. \E x \in S : Cardinality(below(x)) = i - 1
    BY <2>1
  <2>3. r[i] = CHOOSE x \in S : Cardinality(below(x)) = i - 1
    BY <1>5
  <2> QED BY <2>2, <2>3
<1>10. ASSUME NEW x \in S PROVE \E i \in 1 .. n : r[i] = x
  <2> DEFINE i == Cardinality(below(x)) + 1
  <2>1. i \in 1 .. n /\ i - 1 = Cardinality(below(x))
    BY <1>1, <1>2, <1>3
  <2> HIDE DEF i
  <2>2. r[i] \in S /\ Cardinality(below(r[i])) = Cardinality(below(x))
    BY <1>9, <2>1
  <2>3. r[i] = x
    <3>1. r[i] # x => <<r[i], x>> \in R \/ <<x, r[i]>> \in R
      BY <2>2 DEF TotalOn
    <3> QED BY <1>2, <1>4, <2>2, <3>1
  <2> QED BY <2>1, <2>3
<1>11. ASSUME NEW i \in 1 .. n, NEW j \in 1 .. n, i < j PROVE <<r[i], r[j]>> \in R
  <2>1. r[i] \in S /\ r[j] \in S /\ Cardinality(below(r[i])) = i - 1 /\ Cardinality(below(r[j])) = j - 1
    BY <1>9
  <2>2. r[i] # r[j]
    BY <1>11, <2>1
  <2>3. <<r[j], r[i]>> \in R => j - 1 < i - 1
    BY <1>4, <2>1
  <2> QED BY <1>1, <1>11, <2>1, <2>2, <2>3 DEF TotalOn
<1>12. DOMAIN r = 1 .. n
  BY <1>5
<1>13. Elements(r) = S
  BY <1>9, <1>10, <1>12 DEF Elements
<1>14. \A i \in DOMAIN r : Cardinality({y \in S : <<y, r[i]>> \in R}) = i - 1
  BY <1>9, <1>12 DEF below
<1> QED BY <1>11, <1>12, <1>13, <1>14 DEF r

LEMMA RankingIsExact ==
    ASSUME NEW S, IsFiniteSet(S), NEW R, TotalOn(R, S)
    PROVE  LET r == RankedBy(S, R) IN
           /\ DOMAIN r = 1 .. Cardinality(S)
           /\ Elements(r) = S
           /\ \A i, j \in DOMAIN r : i < j => <<r[i], r[j]>> \in R
BY RankingPlaces

Joined(s) ==
    IF Len(s) = 0 THEN s ELSE
    LET join[i \in 1 .. Len(s)] == IF i = 1 THEN s[i] ELSE join[i - 1] \o s[i]
    IN  join[Len(s)]

Joins(s, k, f) == f = [i \in 1 .. k |-> IF i = 1 THEN s[1] ELSE f[i - 1] \o s[i]]

\* No element appears twice in a sequence, or in any of a sequence of them.
Once(s) == \A i, j \in DOMAIN s : i # j => s[i] # s[j]

Apart(s) ==
    /\ \A i \in DOMAIN s : Once(s[i])
    /\ \A i, j \in DOMAIN s : i # j => Elements(s[i]) \cap Elements(s[j]) = {}

\* Joining sequences gives the elements of all of them.
LEMMA JoinedIsExact ==
    ASSUME NEW E, NEW s \in Seq(Seq(E))
    PROVE  /\ Joined(s) \in Seq(E)
           /\ Elements(Joined(s)) = UNION {Elements(s[i]) : i \in DOMAIN s}
           /\ Apart(s) => Once(Joined(s))
<1> DEFINE n == Len(s)
<1>1. n \in Nat /\ DOMAIN s = 1 .. n /\ \A i \in 1 .. n : s[i] \in Seq(E)
  OBVIOUS
<1>2. CASE n = 0
  <2>1. s = <<>> /\ Joined(s) = s
    BY <1>2 DEF Joined
  <2>9. s \in Seq(E)
    BY <2>1
  <2>2. DOMAIN s = {} /\ Elements(s) = {} /\ UNION {Elements(s[i]) : i \in DOMAIN s} = {}
    BY <1>1, <1>2 DEF Elements
  <2> QED BY <2>1, <2>2, <2>9 DEF Once
<1>3. CASE n # 0
  <2> DEFINE T == {k \in Nat : k <= n => \E f : Joins(s, k, f)}
             F == CHOOSE f : Joins(s, n, f)
  <2>1. 0 \in T
    <3>1. Joins(s, 0, [i \in {} |-> i])
      BY DEF Joins
    <3> QED BY <3>1
  <2>2. ASSUME NEW k \in Nat, k < n, k \in T PROVE k + 1 \in T
    <3>1. PICK f : Joins(s, k, f)
      BY <1>1, <2>2
    <3> DEFINE g == [i \in 1 .. k + 1 |-> IF i <= k THEN f[i] ELSE IF i = 1 THEN s[1] ELSE f[i - 1] \o s[i]]
    <3>2. \A i \in 1 .. k + 1 : i # 1 => g[i - 1] = f[i - 1]
      OBVIOUS
    <3>3. \A i \in 1 .. k : f[i] = IF i = 1 THEN s[1] ELSE f[i - 1] \o s[i]
      BY <3>1 DEF Joins
    <3>4. \A i \in 1 .. k + 1 : g[i] = IF i = 1 THEN s[1] ELSE g[i - 1] \o s[i]
      <4> SUFFICES ASSUME NEW i \in 1 .. k + 1
                   PROVE  g[i] = IF i = 1 THEN s[1] ELSE g[i - 1] \o s[i]
        OBVIOUS
      <4>1. g[i] = IF i <= k THEN f[i] ELSE IF i = 1 THEN s[1] ELSE f[i - 1] \o s[i]
        OBVIOUS
      <4> HIDE DEF g
      <4> QED BY <3>2, <3>3, <4>1
    <3>5. g = [i \in 1 .. k + 1 |-> IF i = 1 THEN s[1] ELSE g[i - 1] \o s[i]]
      <4>1. g = [i \in 1 .. k + 1 |-> g[i]]
        OBVIOUS
      <4> HIDE DEF g
      <4> QED BY <3>4, <4>1
    <3>6. Joins(s, k + 1, g)
      <4> HIDE DEF g
      <4> QED BY <3>5 DEF Joins
    <3> HIDE DEF g
    <3> QED BY <3>6
  <2>3. n \in T
    <3> HIDE DEF T
    <3> QED BY <1>1, <2>1, <2>2, StepsReach
  <2>4. Joins(s, n, F)
    BY <1>1, <2>3
  <2>5. Joined(s) = F[n]
    BY <1>3 DEF Joined, Joins
  <2> HIDE DEF F
  <2>6. \A i \in 1 .. n : F[i] = IF i = 1 THEN s[1] ELSE F[i - 1] \o s[i]
    BY <2>4 DEF Joins
  <2> DEFINE All(k) == UNION {Elements(s[i]) : i \in 1 .. k}
             Holds(k) == F[k] \in Seq(E) /\ Elements(F[k]) = All(k) /\ (Apart(s) => Once(F[k]))
             U == {k \in Nat : k \in 1 .. n => Holds(k)}
  <2>7. 0 \in U
    OBVIOUS
  <2>8. ASSUME NEW k \in Nat, k < n, k \in U PROVE k + 1 \in U
    <3>1. k + 1 \in 1 .. n /\ s[k + 1] \in Seq(E)
      BY <1>1, <2>8
    <3>2. CASE k = 0
      <4>2. 1 .. 1 = {1} /\ 1 \in 1 .. n
        BY <3>1, <3>2
      <4>3. F[1] = s[1]
        BY <2>6, <4>2
      <4>1. F[1] = s[1] /\ All(1) = Elements(s[1])
        BY <4>2, <4>3
      <4>4. Apart(s) => Once(F[1])
        BY <1>1, <4>2, <4>3 DEF Apart
      <4> QED BY <3>1, <3>2, <4>1, <4>4
    <3>3. CASE k # 0
      <4>1. k \in 1 .. n /\ F[k] \in Seq(E) /\ Elements(F[k]) = All(k) /\ (Apart(s) => Once(F[k]))
        BY <1>1, <2>8, <3>3
      <4>2. F[k + 1] = F[k] \o s[k + 1]
        <5>1. k + 1 # 1 /\ (k + 1) - 1 = k
          BY <3>3
        <5> QED BY <2>6, <3>1, <5>1
      <4>3. /\ F[k + 1] \in Seq(E) /\ Elements(F[k + 1]) = Elements(F[k]) \cup Elements(s[k + 1])
            /\ Once(F[k]) /\ Once(s[k + 1]) /\ Elements(F[k]) \cap Elements(s[k + 1]) = {}
                 => Once(F[k + 1])
        <5> DEFINE a == F[k]
                   b == s[k + 1]
                   c == a \o b
        <5>1. a \in Seq(E) /\ b \in Seq(E) /\ F[k + 1] = c
          BY <3>1, <4>1, <4>2
        <5> HIDE DEF a, b
        <5>2. /\ c \in Seq(E) /\ DOMAIN c = 1 .. Len(a) + Len(b)
              /\ DOMAIN a = 1 .. Len(a) /\ DOMAIN b = 1 .. Len(b) /\ Len(a) \in Nat /\ Len(b) \in Nat
              /\ \A i \in 1 .. Len(a) : c[i] = a[i]
              /\ \A i \in 1 .. Len(b) : c[Len(a) + i] = b[i]
          BY <5>1
        <5>3. \A i \in DOMAIN c : i \in DOMAIN a \/ (i - Len(a) \in DOMAIN b /\ c[i] = b[i - Len(a)])
          BY <5>2
        <5>4. \A i \in DOMAIN b : Len(a) + i \in DOMAIN c
          BY <5>2
        <5> HIDE DEF c
        <5>5. Elements(c) = Elements(a) \cup Elements(b)
          <6>1. Elements(c) \subseteq Elements(a) \cup Elements(b)
            BY <5>2, <5>3 DEF Elements
          <6>2. Elements(a) \subseteq Elements(c)
            BY <5>2 DEF Elements
          <6>3. Elements(b) \subseteq Elements(c)
            BY <5>2, <5>4 DEF Elements
          <6> QED BY <6>1, <6>2, <6>3
        <5>6. ASSUME Once(a), Once(b), Elements(a) \cap Elements(b) = {},
                     NEW i \in DOMAIN c, NEW j \in DOMAIN c, i # j
              PROVE  c[i] # c[j]
          <6>1. \A x \in DOMAIN a : a[x] \in Elements(a)
            BY DEF Elements
          <6>2. \A x \in DOMAIN b : b[x] \in Elements(b)
            BY DEF Elements
          <6>3. (i \in DOMAIN a /\ c[i] = a[i]) \/ (i - Len(a) \in DOMAIN b /\ c[i] = b[i - Len(a)])
            BY <5>2, <5>3
          <6>4. (j \in DOMAIN a /\ c[j] = a[j]) \/ (j - Len(a) \in DOMAIN b /\ c[j] = b[j - Len(a)])
            BY <5>2, <5>3
          <6>5. i - Len(a) # j - Len(a)
            BY <5>2, <5>6
          <6> QED BY <5>6, <6>1, <6>2, <6>3, <6>4, <6>5 DEF Once
        <5>7. Once(a) /\ Once(b) /\ Elements(a) \cap Elements(b) = {} => Once(c)
          BY <5>6 DEF Once
        <5> QED BY <5>1, <5>2, <5>5, <5>7 DEF a, b
      <4>4. All(k + 1) = All(k) \cup Elements(s[k + 1])
        <5>1. 1 .. k + 1 = (1 .. k) \cup {k + 1}
          BY <3>3
        <5> QED BY <5>1
      <4> HIDE DEF All
      <4>5. F[k + 1] \in Seq(E) /\ Elements(F[k + 1]) = All(k + 1)
        BY <4>1, <4>3, <4>4
      <4>7. ASSUME Apart(s) PROVE Once(F[k + 1])
        <5>1. Once(s[k + 1]) /\ \A i \in 1 .. k : Elements(s[i]) \cap Elements(s[k + 1]) = {}
          <6>1. \A i \in 1 .. k : i \in DOMAIN s /\ i # k + 1
            BY <1>1, <3>1
          <6> QED BY <1>1, <3>1, <4>7, <6>1 DEF Apart
        <5>2. All(k) \cap Elements(s[k + 1]) = {}
          BY <5>1 DEF All
        <5> QED BY <4>1, <4>3, <4>7, <5>1, <5>2
      <4> QED BY <4>5, <4>7
    <3> QED BY <3>2, <3>3
  <2>9. n \in U
    <3> HIDE DEF U
    <3> QED BY <1>1, <2>7, <2>8, StepsReach
  <2>10. Holds(n)
    BY <1>1, <1>3, <2>9
  <2> QED BY <1>1, <2>5, <2>10
<1> QED BY <1>2, <1>3

-----------------------------------------------------------------------------
(***************************************************************************)
(* Folds whose steps commute.                                              *)
(***************************************************************************)

Commuting(c, D, V) ==
    /\ \A x \in D : \A v \in V : Step(c, x, v) \in V
    /\ \A x, y \in D : \A v \in V : Step(c, x, Step(c, y, v)) = Step(c, y, Step(c, x, v))

TakesAnyLast(c, D, V, g) ==
    \A t \in SUBSET D : g[t] \in V /\ \A y \in t : g[t] = Step(c, y, g[t \ {y}])

\* Where steps commute any element can be the one that is taken last.
LEMMA AnyIsLast ==
    ASSUME NEW c, NEW base, NEW D, IsFiniteSet(D), Chooses(D),
           NEW V, base \in V, Commuting(c, D, V), NEW g, IsFold(c, base, D, g)
    PROVE  TakesAnyLast(c, D, V, g)
<1> DEFINE F == {t \in SUBSET D : ~(g[t] \in V /\ \A y \in t : g[t] = Step(c, y, g[t \ {y}]))}
<1> SUFFICES ASSUME F # {} PROVE FALSE
  BY DEF TakesAnyLast
<1>0. F \subseteq SUBSET D
  OBVIOUS
<1>1. PICK t \in F : \A s \in F : s \subseteq t => s = t
  <2> HIDE DEF F
  <2> QED BY <1>0, SmallestSubset
<1>2. \A s \in SUBSET t : s # t => g[s] \in V /\ \A y \in s : g[s] = Step(c, y, g[s \ {y}])
  BY <1>1
<1>3. t \in SUBSET D /\ ~(g[t] \in V /\ \A y \in t : g[t] = Step(c, y, g[t \ {y}]))
  BY <1>1
<1> HIDE DEF F
<1>4. t # {}
  BY <1>3 DEF IsFold
<1> DEFINE z == Choice(t)
<1>5. z \in t /\ g[t] = Step(c, z, g[t \ {z}])
  BY <1>3, <1>4 DEF IsFold, Chooses
<1>6. g[t] \in V
  BY <1>2, <1>3, <1>5 DEF Commuting
<1> HIDE DEF z
<1>7. ASSUME NEW y \in t, y # z PROVE g[t] = Step(c, y, g[t \ {y}])
  <2> DEFINE u == t \ {y, z}
  <2>1. /\ t \ {z} # t /\ y \in t \ {z} /\ (t \ {z}) \ {y} = u
        /\ t \ {y} # t /\ z \in t \ {y} /\ (t \ {y}) \ {z} = u
        /\ u # t
    BY <1>5, <1>7
  <2>2. g[t \ {z}] = Step(c, y, g[u]) /\ g[t \ {y}] = Step(c, z, g[u]) /\ g[u] \in V
    <3>1. t \ {z} \in SUBSET t /\ t \ {y} \in SUBSET t /\ u \in SUBSET t
      OBVIOUS
    <3> HIDE DEF u
    <3> QED BY <1>2, <2>1, <3>1
  <2> HIDE DEF u
  <2>3. Step(c, z, Step(c, y, g[u])) = Step(c, y, Step(c, z, g[u]))
    BY <1>3, <1>5, <2>2 DEF Commuting
  <2> QED BY <1>5, <2>2, <2>3
<1> QED BY <1>3, <1>5, <1>6, <1>7

(* A fold of commuting steps is the same fold when the elements are dealt   *)
(* out in another order.                                                    *)
THEOREM FoldReordered ==
    ASSUME NEW c, NEW e, NEW base, NEW D, IsFiniteSet(D), Chooses(D),
           NEW V, base \in V, Commuting(e, D, V), NEW order \in Bijection(D, D),
           \A x \in D : \A v \in V : Step(c, x, v) = Step(e, order[x], v)
    PROVE  Fold(c, base, D) = Fold(e, base, D)
<1>1. PICK f : IsFold(c, base, D, f) /\ Fold(c, base, D) = f[D]
  BY FoldValue
<1>2. PICK g : IsFold(e, base, D, g) /\ Fold(e, base, D) = g[D]
  BY FoldValue
<1>3. TakesAnyLast(e, D, V, g)
  BY <1>2, AnyIsLast
<1> DEFINE img(s) == {order[x] : x \in s}
           F == {s \in SUBSET D : f[s] # g[img(s)]}
<1>4. order \in [D -> D] /\ (\A x, y \in D : order[x] = order[y] => x = y) /\ \A y \in D : \E x \in D : order[x] = y
  BY DEF Bijection, Injection, Surjection, IsInjective
<1>5. CASE F = {}
  <2>1. img(D) = D
    BY <1>4
  <2> QED BY <1>1, <1>2, <1>5, <2>1
<1>6. CASE F # {}
  <2>0. F \subseteq SUBSET D
    OBVIOUS
  <2>1. PICK s \in F : \A t \in F : t \subseteq s => t = s
    <3> HIDE DEF F
    <3> QED BY <1>6, <2>0, SmallestSubset
  <2>2. s \in SUBSET D /\ f[s] # g[img(s)]
    BY <2>1
  <2>3. \A t \in SUBSET s : t # s => f[t] = g[img(t)]
    BY <2>1
  <2> HIDE DEF F
  <2>4. s # {}
    <3>1. img({}) = {}
      OBVIOUS
    <3>2. f[{}] = base /\ g[{}] = base
      BY <1>1, <1>2 DEF IsFold
    <3> QED BY <2>2, <3>1, <3>2
  <2> DEFINE x == Choice(s)
  <2>5. x \in s /\ f[s] = Step(c, x, f[s \ {x}])
    BY <1>1, <2>2, <2>4 DEF IsFold, Chooses
  <2> HIDE DEF x
  <2>6. f[s \ {x}] = g[img(s \ {x})]
    <3>1. s \ {x} \in SUBSET s /\ s \ {x} # s
      BY <2>5
    <3> HIDE DEF img
    <3> QED BY <2>3, <3>1
  <2>7. img(s) \in SUBSET D /\ order[x] \in img(s) /\ img(s \ {x}) = img(s) \ {order[x]}
    BY <1>4, <2>2, <2>5
  <2>8. img(s) \ {order[x]} \in SUBSET D
    BY <2>7
  <2> HIDE DEF img
  <2>9. g[img(s)] = Step(e, order[x], g[img(s) \ {order[x]}]) /\ g[img(s) \ {order[x]}] \in V
    BY <1>3, <2>7, <2>8 DEF TakesAnyLast
  <2> QED BY <2>2, <2>5, <2>6, <2>7, <2>9
<1> QED BY <1>5, <1>6
===============================================================================
