--------------------------- MODULE MemoryIndexProofs ---------------------------
(***************************************************************************)
(* Theorems about MemoryIndex: for any documents, any records and any      *)
(* sequence of edits, refreshes, restarts and queries, the aggregate kept  *)
(* document by document, the index made of it and the interval trees over  *)
(* its chunks are those of the records; for any day a question is seen     *)
(* from, the day it is resolved to lies in the period its words name; and  *)
(* an answer stays in scope, is as full as its groups allow, and survives  *)
(* a restart.                                                              *)
(***************************************************************************)
EXTENDS MemoryIndex, FiniteSetTheorems, WellFoundedInduction, TLAPS

-----------------------------------------------------------------------------
(***************************************************************************)
(* Inserting and removing documents                                        *)
(***************************************************************************)

ChunkFields == {"chunkTerms", "chunkEntities"}
DocFields   == {"docTerms", "docEntities", "claims", "topics", "types"}
Fields      == {"chunks"} \cup ChunkFields \cup DocFields

RecordMaps == [Docs -> Records \cup {NoRecord}]

LEMMA FieldsOf ==
    /\ DOMAIN EmptyAggregate = Fields
    /\ \A d, r, k : DOMAIN DocState(d, r, k) = Fields
BY DEF EmptyAggregate, DocState, Fields, ChunkFields, DocFields

\* What an aggregate holds of a field, document by document.
LEMMA AggregateField ==
    ASSUME NEW R, NEW k, NEW f \in Fields
    PROVE  AggregateOf(R, k)[f] = UNION {DocState(d, R[d], k)[f] : d \in Present(R)}
BY FieldsOf DEF AggregateOf

LEMMA AggregateDomain ==
    ASSUME NEW R, NEW k
    PROVE  AggregateOf(R, k) = [f \in Fields |-> AggregateOf(R, k)[f]]
BY FieldsOf DEF AggregateOf

\* Every row of a document names the document or one of its chunks.
LEMMA ChunkRows ==
    ASSUME NEW d, NEW r, NEW k
    PROVE  /\ \A c \in DocState(d, r, k).chunks : c.doc = d /\ c.id[1] = d
           /\ \A f \in ChunkFields : \A row \in DocState(d, r, k)[f] :
                \E c \in DocState(d, r, k).chunks : row.at = c.id
<1>1. \A c \in DocState(d, r, k).chunks : c.doc = d /\ c.id[1] = d
  BY DEF DocState, ChunkId
<1> DEFINE at(c) == [id |-> ChunkId(d, c), doc |-> d, from |-> c.from, to |-> c.to]
<1>2. \A c \in ChunksOf(r) : at(c) \in DocState(d, r, k).chunks /\ at(c).id = ChunkId(d, c)
  BY DEF DocState
<1>3. ASSUME NEW row \in DocState(d, r, k).chunkTerms
      PROVE  \E c \in DocState(d, r, k).chunks : row.at = c.id
  <2>1. DocState(d, r, k).chunkTerms = UNION {TermRows(ChunkId(d, c), c) : c \in ChunksOf(r)}
    BY DEF DocState
  <2>2. PICK c \in ChunksOf(r) : row \in TermRows(ChunkId(d, c), c)
    BY <1>3, <2>1
  <2>3. row.at = ChunkId(d, c)
    BY <2>2 DEF TermRows
  <2> HIDE DEF at
  <2> QED BY <1>2, <2>3
<1>4. ASSUME NEW row \in DocState(d, r, k).chunkEntities
      PROVE  \E c \in DocState(d, r, k).chunks : row.at = c.id
  <2>1. DocState(d, r, k).chunkEntities = UNION {EntityRows(ChunkId(d, c), c) : c \in ChunksOf(r)}
    BY DEF DocState
  <2>2. PICK c \in ChunksOf(r) : row \in EntityRows(ChunkId(d, c), c)
    BY <1>4, <2>1
  <2>3. row.at = ChunkId(d, c)
    BY <2>2 DEF EntityRows
  <2> HIDE DEF at
  <2> QED BY <1>2, <2>3
<1> HIDE DEF at
<1> QED BY <1>1, <1>3, <1>4 DEF ChunkFields

LEMMA DocRows ==
    ASSUME NEW d, NEW r, NEW k, NEW f \in DocFields, NEW row \in DocState(d, r, k)[f]
    PROVE  row.at = d
<1>1. CASE f = "docTerms"
  BY <1>1 DEF DocState, TermRows
<1>2. CASE f = "docEntities"
  BY <1>2 DEF DocState, EntityRows
<1>3. CASE f = "claims"
  <2>1. row \in UNION {RowsOfClaim(d, claim) : claim \in r.claims}
    BY <1>3 DEF DocState, ClaimRows
  <2>2. \A claim : \A x \in RowsOfClaim(d, claim) : x.at = d
    BY DEF RowsOfClaim
  <2> QED BY <2>1, <2>2
<1>4. CASE f = "topics"
  BY <1>4 DEF DocState, Label
<1>5. CASE f = "types"
  BY <1>5 DEF DocState, Label
<1> QED BY <1>1, <1>2, <1>3, <1>4, <1>5 DEF DocFields

(* remove_doc takes out every row of the document and none of another, so   *)
(* that what is left is the aggregate of the other documents.               *)
LEMMA RemoveDocIsExact ==
    ASSUME NEW R \in RecordMaps, NEW k, NEW d \in Docs
    PROVE  RemoveDoc(AggregateOf(R, k), d) = AggregateOf([R EXCEPT ![d] = NoRecord], k)
<1> DEFINE A == AggregateOf(R, k)
           Q == [R EXCEPT ![d] = NoRecord]
           S(e) == DocState(e, R[e], k)
           ids == {c.id : c \in {x \in A.chunks : x.doc = d}}
<1>1. Present(Q) = Present(R) \ {d} /\ \A e \in Present(Q) : Q[e] = R[e]
  BY DEF RecordMaps, Present
<1>2. \A f \in Fields : A[f] = UNION {S(e)[f] : e \in Present(R)}
  BY AggregateField
<1>3. \A f \in Fields : AggregateOf(Q, k)[f] = UNION {S(e)[f] : e \in Present(R) \ {d}}
  <2> SUFFICES ASSUME NEW f \in Fields
               PROVE  AggregateOf(Q, k)[f] = UNION {S(e)[f] : e \in Present(R) \ {d}}
    OBVIOUS
  <2>1. AggregateOf(Q, k)[f] = UNION {DocState(e, Q[e], k)[f] : e \in Present(Q)}
    BY AggregateField
  <2> QED BY <1>1, <2>1
<1>4. DOMAIN A = Fields
  BY AggregateDomain
<1>5. RemoveDoc(A, d) = [f \in Fields |->
         CASE f = "chunks" -> {c \in A[f] : c.doc # d}
           [] f \in ChunkFields -> {row \in A[f] : row.at \notin ids}
           [] OTHER -> {row \in A[f] : row.at # d}]
  BY <1>4 DEF RemoveDoc, ChunkFields
<1>6. \A e : \A c \in S(e).chunks : c.doc = e /\ c.id[1] = e
  BY ChunkRows
<1>7. "chunks" \in Fields
  BY DEF Fields
<1> HIDE DEF A, Q, S
<1>8. {c \in A.chunks : c.doc # d} = AggregateOf(Q, k).chunks
  BY <1>2, <1>3, <1>6, <1>7
<1>9. ASSUME NEW f \in ChunkFields
      PROVE  {row \in A[f] : row.at \notin ids} = AggregateOf(Q, k)[f]
  <2>1. f \in Fields
    BY DEF Fields
  <2>2. \A e : \A row \in S(e)[f] : \E c \in S(e).chunks : row.at = c.id
    BY <1>9, ChunkRows DEF S
  <2>3. ASSUME NEW e \in Present(R), NEW row \in S(e)[f] PROVE row.at \in ids <=> e = d
    <3>1. PICK c \in S(e).chunks : row.at = c.id
      BY <2>2
    <3>2. c \in A.chunks /\ c.doc = e /\ c.id[1] = e
      BY <1>2, <1>6, <1>7, <3>1
    <3>3. ASSUME row.at \in ids PROVE e = d
      <4>1. PICK x \in A.chunks : x.doc = d /\ x.id = row.at
        BY <3>3
      <4>2. x.id[1] = x.doc
        BY <1>2, <1>6, <1>7, <4>1
      <4> QED BY <3>1, <3>2, <4>1, <4>2
    <3> QED BY <3>1, <3>2, <3>3
  <2> HIDE DEF ids
  <2> QED BY <1>2, <1>3, <2>1, <2>3
<1>10. ASSUME NEW f \in DocFields
       PROVE  {row \in A[f] : row.at # d} = AggregateOf(Q, k)[f]
  <2>1. f \in Fields
    BY DEF Fields
  <2>2. \A e : \A row \in S(e)[f] : row.at = e
    BY <1>10, DocRows DEF S
  <2> QED BY <1>2, <1>3, <2>1, <2>2
<1>11. \A f \in Fields : RemoveDoc(A, d)[f] = AggregateOf(Q, k)[f]
  <2> HIDE DEF ids
  <2> QED BY <1>5, <1>8, <1>9, <1>10 DEF Fields, ChunkFields, DocFields
<1>12. RemoveDoc(A, d) = [f \in Fields |-> RemoveDoc(A, d)[f]]
  <2> HIDE DEF ids
  <2> QED BY <1>5
<1>13. AggregateOf(Q, k) = [f \in Fields |-> AggregateOf(Q, k)[f]]
  BY AggregateDomain
<1>14. RemoveDoc(A, d) = AggregateOf(Q, k)
  BY <1>11, <1>12, <1>13
<1> QED BY <1>14 DEF A, Q

\* insert_doc_state adds a document that was not there.
LEMMA InsertDocIsExact ==
    ASSUME NEW R \in RecordMaps, NEW k, NEW d \in Docs, R[d] = NoRecord, NEW r \in Records
    PROVE  InsertDoc(AggregateOf(R, k), DocState(d, r, k)) = AggregateOf([R EXCEPT ![d] = r], k)
<1> DEFINE A == AggregateOf(R, k)
           Q == [R EXCEPT ![d] = r]
<1>1. /\ Present(Q) = Present(R) \cup {d} /\ d \notin Present(R)
      /\ Q[d] = r /\ \A e \in Present(R) : Q[e] = R[e]
  BY MemoryIndexAssumption DEF RecordMaps, Present
<1>2. ASSUME NEW f \in Fields PROVE A[f] \cup DocState(d, r, k)[f] = AggregateOf(Q, k)[f]
  <2>1. A[f] = UNION {DocState(e, R[e], k)[f] : e \in Present(R)}
    BY AggregateField
  <2>2. AggregateOf(Q, k)[f] = UNION {DocState(e, Q[e], k)[f] : e \in Present(Q)}
    BY AggregateField
  <2> HIDE DEF A, Q
  <2> QED BY <1>1, <2>1, <2>2
<1>3. DOMAIN A = Fields
  BY AggregateDomain
<1>4. AggregateOf(Q, k) = [f \in Fields |-> AggregateOf(Q, k)[f]]
  BY AggregateDomain
<1> HIDE DEF A, Q
<1>5. InsertDoc(A, DocState(d, r, k)) = [f \in Fields |-> A[f] \cup DocState(d, r, k)[f]]
  BY <1>3 DEF InsertDoc
<1>6. InsertDoc(A, DocState(d, r, k)) = AggregateOf(Q, k)
  BY <1>2, <1>4, <1>5
<1> QED BY <1>6 DEF A, Q

-----------------------------------------------------------------------------
(***************************************************************************)
(* The interval tree of a document                                         *)
(***************************************************************************)

LEMMA MaxOfTwo ==
    ASSUME NEW a \in Int, NEW b \in Int
    PROVE  Max({a, b}) = IF a >= b THEN a ELSE b
BY DEF Max

\* The intervals a tree is built of: each has its lines in order, and chunks
\* are told apart by the id.
AreIntervals(E) ==
    /\ IsFiniteSet(E)
    /\ \A c \in E : c.from \in Nat /\ c.to \in Nat /\ c.from <= c.to /\ c.id[2] \in Nat
    /\ \A x, y \in E : x.id[2] = y.id[2] => x = y

LEMMA MiddleIsInside ==
    ASSUME NEW c, c.from \in Nat, c.to \in Nat, c.from <= c.to
    PROVE  Middle(c) \in Nat /\ c.from <= Middle(c) /\ Middle(c) <= c.to
BY DEF Middle

\* SortsBefore is a strict total order of the intervals of a document.
LEMMA SortsBeforeIsTotal ==
    ASSUME NEW E, AreIntervals(E)
    PROVE  /\ \A x \in E : ~SortsBefore(x, x)
           /\ \A x, y \in E : x # y => SortsBefore(x, y) \/ SortsBefore(y, x)
           /\ \A x, y, z \in E : SortsBefore(x, y) /\ SortsBefore(y, z) => SortsBefore(x, z)
<1>1. \A c \in E : Middle(c) \in Nat /\ c.id[2] \in Nat
  BY MiddleIsInside DEF AreIntervals
<1> QED BY <1>1 DEF SortsBefore, AreIntervals

\* As many elements have a rank as there are ranks, so that every rank is taken.
LEMMA EveryRankIsTaken ==
    ASSUME NEW E, AreIntervals(E), NEW i \in 1 .. Cardinality(E)
    PROVE  Ranked(E, SortsBefore)[i] \in E
<1> DEFINE n == Cardinality(E)
           below(x) == {y \in E : SortsBefore(y, x)}
           rank == [x \in E |-> Cardinality(below(x))]
<1>1. IsFiniteSet(E) /\ n \in Nat
  BY FS_CardinalityType DEF AreIntervals
<1>2. \A x \in E : IsFiniteSet(below(x)) /\ Cardinality(below(x)) \in Nat
  <2>1. \A x \in E : below(x) \in SUBSET E
    OBVIOUS
  <2> HIDE DEF below
  <2> QED BY <1>1, <2>1, FS_Subset, FS_CardinalityType
<1>3. ASSUME NEW x \in E PROVE Cardinality(below(x)) < n
  <2>1. below(x) \in SUBSET E /\ x \notin below(x)
    BY SortsBeforeIsTotal
  <2> HIDE DEF below
  <2>2. Cardinality(below(x)) <= n /\ Cardinality(below(x)) # n
    BY <1>1, <2>1, FS_Subset
  <2> QED BY <1>1, <1>2, <2>2
<1>4. ASSUME NEW x \in E, NEW y \in E, SortsBefore(x, y)
      PROVE  Cardinality(below(x)) < Cardinality(below(y))
  <2>1. below(x) \in SUBSET below(y) /\ x \in below(y) /\ x \notin below(x)
    BY <1>4, SortsBeforeIsTotal
  <2> HIDE DEF below
  <2>2. Cardinality(below(x)) <= Cardinality(below(y)) /\ Cardinality(below(x)) # Cardinality(below(y))
    BY <1>2, <2>1, FS_Subset
  <2> QED BY <1>2, <2>2
<1> HIDE DEF below
<1>5. rank \in Injection(E, 0 .. n - 1)
  <2>1. rank \in [E -> 0 .. n - 1]
    BY <1>1, <1>2, <1>3
  <2>2. ASSUME NEW x \in E, NEW y \in E, x # y PROVE rank[x] # rank[y]
    <3>1. rank[x] = Cardinality(below(x)) /\ rank[y] = Cardinality(below(y))
      OBVIOUS
    <3>2. SortsBefore(x, y) \/ SortsBefore(y, x)
      BY <2>2, SortsBeforeIsTotal
    <3> QED BY <1>2, <1>4, <3>1, <3>2
  <2> QED BY <2>1, <2>2 DEF Injection, IsInjective
<1>6. IsFiniteSet(0 .. n - 1) /\ Cardinality(0 .. n - 1) = n
  <2>1. 0 \in Int /\ n - 1 \in Int
    BY <1>1
  <2> DEFINE m == n - 1
  <2>2. IsFiniteSet(0 .. m) /\ Cardinality(0 .. m) = IF 0 > m THEN 0 ELSE m - 0 + 1
    <3> HIDE DEF m
    <3> QED BY <2>1, FS_Interval DEF m
  <2> QED BY <1>1, <2>2
<1>7. rank \in Surjection(E, 0 .. n - 1)
  <2> HIDE DEF rank
  <2> QED BY <1>5, <1>6, FS_Injection
<1>8. PICK x \in E : rank[x] = i - 1
  <2>1. i - 1 \in 0 .. n - 1
    BY <1>1
  <2> QED BY <1>7, <2>1 DEF Surjection
<1>9. Cardinality({y \in E : SortsBefore(y, x)}) = i - 1
  BY <1>8 DEF below
<1> QED BY <1>9 DEF Ranked

LEMMA CenterIsInside ==
    ASSUME NEW E, AreIntervals(E), E # {}
    PROVE  /\ Center(E) \in Nat
           /\ \E c \in E : c.from <= Center(E) /\ Center(E) <= c.to
<1>1. Cardinality(E) \in Nat /\ Cardinality(E) # 0
  BY FS_CardinalityType, FS_EmptySet DEF AreIntervals
<1>2. Cardinality(E) \div 2 + 1 \in 1 .. Cardinality(E)
  BY <1>1
<1>3. Ranked(E, SortsBefore)[Cardinality(E) \div 2 + 1] \in E
  BY <1>2, EveryRankIsTaken
<1> DEFINE m == Ranked(E, SortsBefore)[Cardinality(E) \div 2 + 1]
<1>4. m \in E /\ Center(E) = Middle(m)
  BY <1>3 DEF Center
<1> HIDE DEF m
<1>5. Middle(m) \in Nat /\ m.from <= Middle(m) /\ Middle(m) <= m.to
  BY <1>4, MiddleIsInside DEF AreIntervals
<1> QED BY <1>4, <1>5

\* The equation the walk is defined by, for the intervals of E and of its parts.
IsWalk(E, a, b, w) ==
    w = [S \in SUBSET E |->
           IF S = {} THEN {}
           ELSE LET left == {c \in S : c.to < Center(S)}
                    right == {c \in S : c.from > Center(S)}
                IN  {c \in S \ (left \cup right) : Overlaps(c, a, b)}
                      \cup (IF a <= Center(S) THEN w[left] ELSE {})
                      \cup (IF b >= Center(S) THEN w[right] ELSE {})]

\* A side the walk does not enter has no interval in the range, because all of
\* its intervals are on the other side of the centre.
LEMMA WalkFindsAll ==
    ASSUME NEW E, AreIntervals(E), NEW a \in Nat, NEW b \in Nat
    PROVE  IsWalk(E, a, b, [S \in SUBSET E |-> {c \in S : Overlaps(c, a, b)}])
<1> DEFINE g == [S \in SUBSET E |-> {c \in S : Overlaps(c, a, b)}]
           left(S) == {c \in S : c.to < Center(S)}
           right(S) == {c \in S : c.from > Center(S)}
           rhs(S) == {c \in S \ (left(S) \cup right(S)) : Overlaps(c, a, b)}
                       \cup (IF a <= Center(S) THEN g[left(S)] ELSE {})
                       \cup (IF b >= Center(S) THEN g[right(S)] ELSE {})
<1>1. ASSUME NEW S \in SUBSET E, S # {} PROVE g[S] = rhs(S)
  <2>1. Center(S) \in Nat /\ \A c \in S : c.from \in Nat /\ c.to \in Nat
    BY <1>1, CenterIsInside, FS_Subset DEF AreIntervals
  <2>2. g[left(S)] = {c \in left(S) : Overlaps(c, a, b)}
    OBVIOUS
  <2>3. g[right(S)] = {c \in right(S) : Overlaps(c, a, b)}
    OBVIOUS
  <2>4. g[S] = {c \in S : Overlaps(c, a, b)}
    OBVIOUS
  <2>5. ~(a <= Center(S)) => \A c \in left(S) : ~Overlaps(c, a, b)
    BY <2>1 DEF Overlaps
  <2>6. ~(b >= Center(S)) => \A c \in right(S) : ~Overlaps(c, a, b)
    BY <2>1 DEF Overlaps
  <2>7. left(S) \subseteq S /\ right(S) \subseteq S
    OBVIOUS
  <2> HIDE DEF g, left, right
  <2> QED BY <2>2, <2>3, <2>4, <2>5, <2>6, <2>7
<1>2. g[{}] = {}
  OBVIOUS
<1>3. g = [S \in SUBSET E |-> IF S = {} THEN {} ELSE rhs(S)]
  <2>1. ASSUME NEW S \in SUBSET E PROVE g[S] = IF S = {} THEN {} ELSE rhs(S)
    <3> HIDE DEF g, rhs
    <3> QED BY <1>1, <1>2
  <2>2. g = [S \in SUBSET E |-> g[S]]
    OBVIOUS
  <2> HIDE DEF g, rhs
  <2> QED BY <2>1, <2>2
<1> QED BY <1>3 DEF IsWalk

\* Both sides of the centre are smaller than the whole, so that only one
\* function satisfies the equation.
LEMMA WalkIsUnique ==
    ASSUME NEW E, AreIntervals(E), NEW a \in Nat, NEW b \in Nat,
           NEW v, NEW w, IsWalk(E, a, b, v), IsWalk(E, a, b, w)
    PROVE  v = w
<1> DEFINE F == {S \in SUBSET E : v[S] # w[S]}
<1>1. CASE F = {}
  BY <1>1 DEF IsWalk
<1>2. CASE F # {}
  <2>1. IsWellFoundedOn(StrictSubsetOrdering(E), FiniteSubsetsOf(E))
    BY FS_StrictSubsetOrderingWellFounded DEF AreIntervals
  <2>2. F \subseteq FiniteSubsetsOf(E)
    BY FS_Subset DEF FiniteSubsetsOf, AreIntervals
  <2> HIDE DEF F
  <2>3. PICK S \in F : \A T \in F : ~(<<T, S>> \in StrictSubsetOrdering(E))
    BY <1>2, <2>1, <2>2, WFMin
  <2> USE DEF F
  <2>4. S \in SUBSET E /\ S # {}
    BY <2>3 DEF IsWalk
  <2> DEFINE left == {c \in S : c.to < Center(S)}
             right == {c \in S : c.from > Center(S)}
  <2>5. AreIntervals(S)
    BY <2>4, FS_Subset DEF AreIntervals
  <2>6. left # S /\ right # S
    <3>1. Center(S) \in Nat /\ \A c \in S : c.from \in Nat /\ c.to \in Nat
      BY <2>4, <2>5, CenterIsInside DEF AreIntervals
    <3>2. PICK c \in S : c.from <= Center(S) /\ Center(S) <= c.to
      BY <2>4, <2>5, CenterIsInside
    <3> QED BY <3>1, <3>2
  <2>7. ASSUME NEW T \in SUBSET S, T # S PROVE v[T] = w[T]
    <3>1. <<T, S>> \in StrictSubsetOrdering(E)
      BY <2>4, <2>7 DEF StrictSubsetOrdering
    <3> QED BY <2>3, <2>4, <3>1
  <2>8. left \in SUBSET S /\ right \in SUBSET S
    OBVIOUS
  <2>9. v[left] = w[left] /\ v[right] = w[right]
    <3> HIDE DEF left, right, F
    <3> QED BY <2>6, <2>7, <2>8
  <2>10. ASSUME NEW u, IsWalk(E, a, b, u)
         PROVE  u[S] = {c \in S \ (left \cup right) : Overlaps(c, a, b)}
                         \cup (IF a <= Center(S) THEN u[left] ELSE {})
                         \cup (IF b >= Center(S) THEN u[right] ELSE {})
    BY <2>4, <2>10 DEF IsWalk
  <2>11. v[S] = w[S]
    <3> HIDE DEF left, right, F
    <3> QED BY <2>9, <2>10
  <2> QED BY <2>3, <2>11
<1> QED BY <1>1, <1>2

(* TreeQuery finds exactly the intervals that overlap the range, whatever    *)
(* the shape of the tree.                                                    *)
THEOREM TreeQueryIsExact ==
    ASSUME NEW E, AreIntervals(E), NEW a \in Nat, NEW b \in Nat
    PROVE  TreeQuery(E, a, b) = {c \in E : Overlaps(c, a, b)}
<1> DEFINE g == [S \in SUBSET E |-> {c \in S : Overlaps(c, a, b)}]
           w == CHOOSE w : IsWalk(E, a, b, w)
<1>1. IsWalk(E, a, b, g)
  BY WalkFindsAll
<1>2. g[E] = {c \in E : Overlaps(c, a, b)}
  OBVIOUS
<1> HIDE DEF g
<1>3. IsWalk(E, a, b, w)
  BY <1>1
<1>4. TreeQuery(E, a, b) = w[E]
  BY DEF TreeQuery, IsWalk
<1> HIDE DEF w
<1>5. w = g
  BY <1>1, <1>3, WalkIsUnique
<1> QED BY <1>2, <1>4, <1>5

-----------------------------------------------------------------------------
(***************************************************************************)
(* The chunks of a document                                                *)
(***************************************************************************)

LEMMA ChunksOfRecord ==
    ASSUME NEW r \in Records
    PROVE  /\ IsFiniteSet(ChunksOf(r))
           /\ \A c \in ChunksOf(r) : c.id \in Nat /\ c.to \in Nat /\ c.from \in 1 .. c.to
           /\ \A x, y \in ChunksOf(r) : x.id = y.id => x = y
<1>1. r \in DocRecords
  BY MemoryIndexAssumption
<1>2. CASE r.chunks # {}
  <2>1. ChunksOf(r) = r.chunks
    BY <1>2 DEF ChunksOf
  <2>2. \A c \in r.chunks : c.id \in Nat /\ c.to \in Nat
    BY <1>1 DEF DocRecords, Chunks
  <2> QED BY <2>1, <2>2, ChunksAssumption
<1>3. CASE r.chunks = {}
  <2> DEFINE c == [id |-> 0, terms |-> r.terms, heading |-> r.heading, entities |-> r.entities,
                   from |-> 1, to |-> Max({r.lines, 1}), date |-> r.date]
  <2>1. ChunksOf(r) = {c}
    BY <1>3 DEF ChunksOf
  <2>2. r.lines \in Nat
    BY <1>1 DEF DocRecords
  <2>3. c.id = 0 /\ c.from = 1 /\ c.to = Max({r.lines, 1})
    OBVIOUS
  <2> HIDE DEF c
  <2>4. c.to \in Nat /\ c.to >= 1
    BY <2>2, <2>3, MaxOfTwo
  <2> QED BY <2>1, <2>3, <2>4, FS_Singleton
<1> QED BY <1>2, <1>3

\* The chunks of a document as the index keeps them are intervals of a tree.
LEMMA ChunksAreIntervals ==
    ASSUME NEW d, NEW r \in Records, NEW k
    PROVE  /\ AreIntervals(DocState(d, r, k).chunks)
           /\ \A c \in DocState(d, r, k).chunks :
                c.from >= 1 /\ c = [id |-> c.id, doc |-> c.doc, from |-> c.from, to |-> c.to]
<1> DEFINE row == [c \in ChunksOf(r) |-> [id |-> ChunkId(d, c), doc |-> d, from |-> c.from, to |-> c.to]]
           chunks == DocState(d, r, k).chunks
<1>1. chunks = {row[c] : c \in ChunksOf(r)}
  BY DEF DocState
<1>2. \A c \in ChunksOf(r) :
         row[c].id[2] = c.id /\ row[c].from = c.from /\ row[c].to = c.to
           /\ row[c] = [id |-> row[c].id, doc |-> row[c].doc, from |-> row[c].from, to |-> row[c].to]
  BY DEF ChunkId
<1>3. row \in Surjection(ChunksOf(r), chunks)
  BY <1>1 DEF Surjection
<1> HIDE DEF row, chunks
<1>4. IsFiniteSet(chunks)
  BY <1>3, ChunksOfRecord, FS_Surjection
<1>5. ASSUME NEW x \in chunks
      PROVE  /\ x.from \in Nat /\ x.to \in Nat /\ x.from <= x.to /\ x.id[2] \in Nat /\ x.from >= 1
             /\ x = [id |-> x.id, doc |-> x.doc, from |-> x.from, to |-> x.to]
  <2>1. PICK c \in ChunksOf(r) : x = row[c]
    BY <1>1
  <2>2. c.id \in Nat /\ c.to \in Nat /\ c.from \in 1 .. c.to
    BY ChunksOfRecord
  <2>3. x.id[2] = c.id /\ x.from = c.from /\ x.to = c.to
    BY <1>2, <2>1
  <2>4. x = [id |-> x.id, doc |-> x.doc, from |-> x.from, to |-> x.to]
    BY <1>2, <2>1
  <2> QED BY <2>2, <2>3, <2>4
<1>6. ASSUME NEW x \in chunks, NEW y \in chunks, x.id[2] = y.id[2] PROVE x = y
  <2>1. PICK c \in ChunksOf(r) : x = row[c]
    BY <1>1
  <2>2. PICK e \in ChunksOf(r) : y = row[e]
    BY <1>1
  <2>3. c.id = e.id
    BY <1>2, <1>6, <2>1, <2>2
  <2>4. c = e
    BY <2>3, ChunksOfRecord
  <2> QED BY <2>1, <2>2, <2>4
<1>7. AreIntervals(chunks)
  BY <1>4, <1>5, <1>6 DEF AreIntervals
<1>8. \A c \in chunks : c.from >= 1 /\ c = [id |-> c.id, doc |-> c.doc, from |-> c.from, to |-> c.to]
  BY <1>5
<1> QED BY <1>7, <1>8 DEF chunks

LEMMA ChunksOfDocument ==
    ASSUME NEW R \in RecordMaps, NEW k, NEW d \in Present(R)
    PROVE  {x \in AggregateOf(R, k).chunks : x.doc = d} = DocState(d, R[d], k).chunks
<1>1. AggregateOf(R, k).chunks = UNION {DocState(e, R[e], k).chunks : e \in Present(R)}
  BY AggregateField DEF Fields
<1>2. \A e : \A c \in DocState(e, R[e], k).chunks : c.doc = e
  BY ChunkRows
<1> QED BY <1>1, <1>2

(* A line range asked of a document of an index names the chunks it touches. *)
LEMMA ImpactedIsExact ==
    ASSUME NEW ix, NEW R \in RecordMaps, NEW k, ix.table = Present(R),
           ix.chunks = AggregateOf(R, k).chunks, NEW d \in ix.table, NEW a \in Nat, NEW b \in Nat
    PROVE  ImpactedChunks(ix, d, a, b)
             = {c.id : c \in {x \in ix.chunks : x.doc = d /\ Overlaps(x, a, Max({a, b}))}}
<1> DEFINE E == {x \in ix.chunks : x.doc = d}
           lo == Max({a, 1})
           hi == Max({a, b})
<1>1. d \in Present(R) /\ R[d] \in Records
  BY DEF RecordMaps, Present
<1>2. E = DocState(d, R[d], k).chunks
  <2>1. {x \in AggregateOf(R, k).chunks : x.doc = d} = DocState(d, R[d], k).chunks
    BY <1>1, ChunksOfDocument
  <2> QED BY <2>1
<1>3. AreIntervals(E) /\ \A c \in E :
         c.from >= 1 /\ c = [id |-> c.id, doc |-> c.doc, from |-> c.from, to |-> c.to]
  <2>1. /\ AreIntervals(DocState(d, R[d], k).chunks)
        /\ \A c \in DocState(d, R[d], k).chunks :
             c.from >= 1 /\ c = [id |-> c.id, doc |-> c.doc, from |-> c.from, to |-> c.to]
    BY <1>1, ChunksAreIntervals
  <2> HIDE DEF E
  <2> QED BY <1>2, <2>1
<1>4. \A c \in E : c.from \in Nat /\ c.to \in Nat /\ c.from <= c.to
  BY <1>3 DEF AreIntervals
<1>5. Intervals(ix, d) = E
  <2>1. ASSUME NEW c \in E PROVE [c EXCEPT !.from = Max({c.from, 1})] = c
    <3>1. Max({c.from, 1}) = c.from
      BY <1>3, <1>4, MaxOfTwo
    <3> HIDE DEF E
    <3> QED BY <1>3, <3>1
  <2>2. {x \in ix.chunks : x.doc = d /\ x.to >= x.from /\ x.to > 0} = E
    BY <1>3, <1>4
  <2> HIDE DEF E
  <2> QED BY <2>1, <2>2 DEF Intervals
<1>6. lo \in Nat /\ hi \in Nat /\ lo = (IF a >= 1 THEN a ELSE 1)
  BY MaxOfTwo
<1> HIDE DEF lo, hi
<1>7. TreeQuery(E, lo, hi) = {c \in E : Overlaps(c, lo, hi)}
  <2> HIDE DEF E
  <2> QED BY <1>3, <1>6, TreeQueryIsExact
<1>8. \A c \in E : Overlaps(c, lo, hi) <=> Overlaps(c, a, hi)
  BY <1>3, <1>4, <1>6 DEF Overlaps
<1>9. {c \in E : Overlaps(c, lo, hi)} = {x \in ix.chunks : x.doc = d /\ Overlaps(x, a, hi)}
  BY <1>8
<1>10. ImpactedChunks(ix, d, a, b) = {c.id : c \in TreeQuery(E, lo, hi)}
  BY <1>5 DEF ImpactedChunks, lo, hi
<1> QED BY <1>7, <1>9, <1>10 DEF hi

-----------------------------------------------------------------------------
(***************************************************************************)
(* Building, saving and loading an index                                   *)
(***************************************************************************)

\* Whether claims are scored does not change the chunks and their postings.
LEMMA ClaimsApart ==
    ASSUME NEW R, NEW j, NEW k, NEW f \in {"chunks"} \cup ChunkFields
    PROVE  AggregateOf(R, j)[f] = AggregateOf(R, k)[f]
<1>1. f \in Fields
  BY DEF Fields
<1>2. ASSUME NEW d, NEW r PROVE DocState(d, r, j)[f] = DocState(d, r, k)[f]
  <2>1. DocState(d, r, j).chunks = DocState(d, r, k).chunks
    BY DEF DocState
  <2>2. DocState(d, r, j).chunkTerms = DocState(d, r, k).chunkTerms
    BY DEF DocState
  <2>3. DocState(d, r, j).chunkEntities = DocState(d, r, k).chunkEntities
    BY DEF DocState
  <2> QED BY <2>1, <2>2, <2>3 DEF ChunkFields
<1>3. AggregateOf(R, j)[f] = UNION {DocState(d, R[d], j)[f] : d \in Present(R)}
  BY <1>1, AggregateField
<1>4. AggregateOf(R, k)[f] = UNION {DocState(d, R[d], k)[f] : d \in Present(R)}
  BY <1>1, AggregateField
<1> QED BY <1>2, <1>3, <1>4

LEMMA ClaimsOff ==
    ASSUME NEW R
    PROVE  AggregateOf(R, FALSE).claims = {}
<1>1. \A d, r : DocState(d, r, FALSE).claims = {}
  BY DEF DocState
<1>2. "claims" \in Fields
  BY DEF Fields, DocFields
<1>3. AggregateOf(R, FALSE)["claims"] = UNION {DocState(d, R[d], FALSE)["claims"] : d \in Present(R)}
  BY <1>2, AggregateField
<1> QED BY <1>1, <1>3

(* An index made of the aggregate is the one made chunk by chunk: each chunk *)
(* is of a document of the table and each row of a chunk of the index.       *)
LEMMA SameIndexEitherWay ==
    ASSUME NEW R \in RecordMaps, NEW o, NEW order
    PROVE  FromAggregate(R, AggregateOf(R, o.claims), o, order) = FromRecords(R, o, order)
<1> DEFINE A == AggregateOf(R, o.claims)
           S(e) == DocState(e, R[e], o.claims)
           chunks == {c \in A.chunks : c.doc \in Present(R)}
           ids == {c.id : c \in chunks}
<1>1. \A f \in Fields : A[f] = UNION {S(e)[f] : e \in Present(R)}
  BY AggregateField
<1>2. /\ \A e : \A c \in S(e).chunks : c.doc = e
      /\ \A e : \A f \in ChunkFields : \A row \in S(e)[f] : \E c \in S(e).chunks : row.at = c.id
  BY ChunkRows
<1> HIDE DEF A, S
<1>3. chunks = A.chunks
  BY <1>1, <1>2 DEF Fields
<1>4. \A f \in ChunkFields : {row \in A[f] : row.at \in ids} = A[f]
  <2>1. \A e \in Present(R) : S(e).chunks \subseteq chunks
    BY <1>1, <1>3 DEF Fields
  <2>2. ASSUME NEW f \in ChunkFields, NEW row \in A[f] PROVE row.at \in ids
    <3>0. A[f] = UNION {S(e)[f] : e \in Present(R)}
      BY <1>1 DEF Fields
    <3>1. PICK e \in Present(R) : row \in S(e)[f]
      BY <2>2, <3>0
    <3>2. PICK c \in S(e).chunks : row.at = c.id
      BY <1>2, <3>1
    <3> HIDE DEF chunks
    <3> QED BY <2>1, <3>2
  <2> HIDE DEF chunks, ids
  <2> QED BY <2>2
<1>5. /\ {row \in A.chunkTerms : row.at \in ids} = A.chunkTerms
      /\ {row \in A.chunkEntities : row.at \in ids} = A.chunkEntities
  <2> HIDE DEF chunks, ids
  <2> QED BY <1>4 DEF ChunkFields
<1>6. FromAggregate(R, A, o, order)
        = Assembled(R, [table |-> Present(R), chunks |-> chunks,
                        chunkTerms |-> {row \in A.chunkTerms : row.at \in ids},
                        chunkEntities |-> {row \in A.chunkEntities : row.at \in ids},
                        claims |-> A.claims], o, order)
  BY DEF FromAggregate
<1>7. FromRecords(R, o, order)
        = Assembled(R, [table |-> Present(R), chunks |-> A.chunks, chunkTerms |-> A.chunkTerms,
                        chunkEntities |-> A.chunkEntities, claims |-> A.claims], o, order)
  BY DEF FromRecords, A
<1> HIDE DEF chunks, ids
<1>8. FromAggregate(R, A, o, order) = FromRecords(R, o, order)
  BY <1>3, <1>5, <1>6, <1>7
<1> QED BY <1>8 DEF A

\* What an index keeps of what it is assembled from.
LEMMA AssembledKeeps ==
    ASSUME NEW R, NEW core, NEW o, NEW order
    PROVE  LET ix == Assembled(R, core, o, order) IN
           /\ ix.records = R /\ ix.table = core.table /\ ix.options = o
           /\ ix.chunks = core.chunks /\ ix.chunkTerms = core.chunkTerms
           /\ ix.chunkEntities = core.chunkEntities
           /\ ix.claims = IF o.claims THEN core.claims ELSE {}
BY DEF Assembled

-----------------------------------------------------------------------------
(***************************************************************************)
(* The inductive invariant.  Besides what a query sees, it says of the     *)
(* saved core that it is of the records saved beside it, in whatever way   *)
(* claims were scored when it was written.                                 *)
(***************************************************************************)

\* What ix holds of documents and chunks is what these records say.
IsOf(ix, R, claimScoring) ==
    LET direct == AggregateOf(R, claimScoring) IN
    /\ ix.table = Present(R)
    /\ ix.chunks = direct.chunks
    /\ ix.chunkTerms = direct.chunkTerms
    /\ ix.chunkEntities = direct.chunkEntities

IndexMatches ==
    index # NoIndex =>
        /\ index.records \in RecordMaps
        /\ IsOf(index, index.records, index.options.claims)
        /\ index.claims = AggregateOf(index.records, index.options.claims).claims

SavedMatches ==
    saved # NoIndex =>
        /\ saved.records \in RecordMaps
        /\ IsOf(saved.core, saved.records, options.claims)

IndexInv ==
    /\ options \in Options
    /\ records \in RecordMaps
    /\ aggregate = AggregateOf(records, options.claims)
    /\ IndexMatches
    /\ SavedMatches

LEMMA EmptyIsExact ==
    ASSUME NEW k
    PROVE  EmptyAggregate = AggregateOf([d \in Docs |-> NoRecord], k)
<1> DEFINE R == [d \in Docs |-> NoRecord]
<1>1. Present(R) = {}
  BY DEF Present
<1>2. \A f \in Fields : AggregateOf(R, k)[f] = {}
  <2> SUFFICES ASSUME NEW f \in Fields PROVE AggregateOf(R, k)[f] = {}
    OBVIOUS
  <2>1. AggregateOf(R, k)[f] = UNION {DocState(d, R[d], k)[f] : d \in Present(R)}
    BY AggregateField
  <2> HIDE DEF R
  <2> QED BY <1>1, <2>1
<1>3. AggregateOf(R, k) = [f \in Fields |-> AggregateOf(R, k)[f]]
  BY AggregateDomain
<1>4. EmptyAggregate = [f \in Fields |-> {}]
  BY DEF EmptyAggregate, Fields, ChunkFields, DocFields
<1> HIDE DEF R
<1>5. EmptyAggregate = AggregateOf(R, k)
  BY <1>2, <1>3, <1>4
<1> QED BY <1>5 DEF R

\* An index made of the records at hand is of them.
LEMMA RefreshedMatches ==
    ASSUME NEW R \in RecordMaps, NEW o, NEW order, o.claims \in BOOLEAN
    PROVE  LET ix == FromAggregate(R, AggregateOf(R, o.claims), o, order) IN
           /\ ix.records = R /\ ix.options = o
           /\ IsOf(ix, R, o.claims)
           /\ ix.claims = AggregateOf(R, o.claims).claims
<1> DEFINE own == AggregateOf(R, o.claims)
           core == [table |-> Present(R), chunks |-> own.chunks, chunkTerms |-> own.chunkTerms,
                    chunkEntities |-> own.chunkEntities, claims |-> own.claims]
           ix == FromAggregate(R, own, o, order)
<1>1. ix = Assembled(R, core, o, order)
  BY SameIndexEitherWay DEF FromRecords
<1>2. ~o.claims => own.claims = {}
  BY ClaimsOff
<1> HIDE DEF own
<1>3. /\ core.table = Present(R) /\ core.chunks = own.chunks /\ core.chunkTerms = own.chunkTerms
      /\ core.chunkEntities = own.chunkEntities /\ core.claims = own.claims
  OBVIOUS
<1> HIDE DEF core, ix
<1>4. /\ ix.records = R /\ ix.table = core.table /\ ix.options = o
      /\ ix.chunks = core.chunks /\ ix.chunkTerms = core.chunkTerms
      /\ ix.chunkEntities = core.chunkEntities
      /\ ix.claims = IF o.claims THEN core.claims ELSE {}
  BY <1>1, AssembledKeeps
<1>5. ix.claims = own.claims
  BY <1>2, <1>3, <1>4
<1>6. IsOf(ix, R, o.claims)
  BY <1>3, <1>4 DEF IsOf, own
<1> QED BY <1>4, <1>5, <1>6 DEF own, ix

\* An index loaded from a core is of the records the core was of.
LEMMA LoadedMatches ==
    ASSUME NEW R \in RecordMaps, NEW core, NEW o \in Options, NEW order, IsOf(core, R, o.claims)
    PROVE  LET ix == LoadCore(core, R, [o EXCEPT !.claims = FALSE], order) IN
           /\ ix.records = R
           /\ IsOf(ix, R, ix.options.claims)
           /\ ix.claims = AggregateOf(R, ix.options.claims).claims
<1> DEFINE off == [o EXCEPT !.claims = FALSE]
           p == [off EXCEPT !.ngram = FALSE, !.lcs = FALSE]
           ix == LoadCore(core, R, off, order)
<1>1. o \in [claims : BOOLEAN, ngram : BOOLEAN, lcs : BOOLEAN]
  BY MemoryIndexAssumption
<1>2. p.claims = FALSE
  BY <1>1
<1>3. ix = Assembled(R, core, p, order)
  BY DEF LoadCore
<1> HIDE DEF off, p, ix
<1>4. /\ ix.records = R /\ ix.table = core.table /\ ix.options = p
      /\ ix.chunks = core.chunks /\ ix.chunkTerms = core.chunkTerms
      /\ ix.chunkEntities = core.chunkEntities
      /\ ix.claims = IF p.claims THEN core.claims ELSE {}
  BY <1>3, AssembledKeeps
<1>5. /\ AggregateOf(R, o.claims).chunks = AggregateOf(R, FALSE).chunks
      /\ AggregateOf(R, o.claims).chunkTerms = AggregateOf(R, FALSE).chunkTerms
      /\ AggregateOf(R, o.claims).chunkEntities = AggregateOf(R, FALSE).chunkEntities
  <2>1. \A f \in {"chunks"} \cup ChunkFields : AggregateOf(R, o.claims)[f] = AggregateOf(R, FALSE)[f]
    <3> DEFINE j == o.claims
               k == FALSE
    <3> HIDE DEF j, k
    <3>1. \A f \in {"chunks"} \cup ChunkFields : AggregateOf(R, j)[f] = AggregateOf(R, k)[f]
      BY ClaimsApart
    <3> QED BY <3>1 DEF j, k
  <2> QED BY <2>1 DEF ChunkFields
<1>6. IsOf(ix, R, FALSE)
  BY <1>4, <1>5 DEF IsOf
<1>7. ix.claims = AggregateOf(R, FALSE).claims
  BY <1>2, <1>4, ClaimsOff
<1>8. IsOf(ix, R, ix.options.claims) /\ ix.claims = AggregateOf(R, ix.options.claims).claims
  BY <1>2, <1>4, <1>6, <1>7
<1> QED BY <1>4, <1>8 DEF ix, off

LEMMA IndexInvHolds == Spec => []IndexInv
<1>1. Init => IndexInv
  BY EmptyIsExact DEF Init, IndexInv, RecordMaps, IndexMatches, SavedMatches
<1>2. IndexInv /\ [Next]_vars => IndexInv'
  <2> SUFFICES ASSUME IndexInv, [Next]_vars PROVE IndexInv'
    OBVIOUS
  <2>0. options.claims \in BOOLEAN
    BY MemoryIndexAssumption DEF IndexInv
  <2>1. ASSUME NEW d \in Docs, NEW r \in Records, Upsert(d, r) PROVE IndexInv'
    <3> DEFINE k == options.claims
               Q == [records EXCEPT ![d] = NoRecord]
    <3>1. Q \in RecordMaps /\ Q[d] = NoRecord /\ [Q EXCEPT ![d] = r] = [records EXCEPT ![d] = r]
      BY DEF IndexInv, RecordMaps
    <3>2. RemoveDoc(aggregate, d) = AggregateOf(Q, k)
      BY RemoveDocIsExact DEF IndexInv
    <3>3. InsertDoc(AggregateOf(Q, k), DocState(d, r, k)) = AggregateOf([records EXCEPT ![d] = r], k)
      <4> HIDE DEF Q, k
      <4> QED BY <3>1, InsertDocIsExact
    <3>4. records' \in RecordMaps
      BY <2>1 DEF Upsert, IndexInv, RecordMaps
    <3>5. UNCHANGED <<options, index, saved>>
      BY <2>1 DEF Upsert
    <3>6. aggregate' = AggregateOf(records', options'.claims)
      BY <2>1, <3>2, <3>3, <3>5 DEF Upsert
    <3>7. IndexMatches' /\ SavedMatches'
      BY <3>5 DEF IndexInv, IndexMatches, SavedMatches
    <3> QED BY <3>4, <3>5, <3>6, <3>7 DEF IndexInv
  <2>2. ASSUME NEW d \in Docs, RemoveDocument(d) PROVE IndexInv'
    <3>1. UNCHANGED <<options, index, saved>>
      BY <2>2 DEF RemoveDocument
    <3>2. records' \in RecordMaps
      BY <2>2 DEF RemoveDocument, IndexInv, RecordMaps
    <3>3. aggregate' = AggregateOf(records', options'.claims)
      BY <2>2, <3>1, RemoveDocIsExact DEF RemoveDocument, IndexInv
    <3>4. IndexMatches' /\ SavedMatches'
      BY <3>1 DEF IndexInv, IndexMatches, SavedMatches
    <3> QED BY <3>1, <3>2, <3>3, <3>4 DEF IndexInv
  <2>3. ASSUME NEW order \in Orders, Refresh(order) PROVE IndexInv'
    <3>1. UNCHANGED <<options, records, aggregate>>
      BY <2>3 DEF Refresh
    <3>2. index' = FromAggregate(records, AggregateOf(records, options.claims), options, order)
      BY <2>3 DEF Refresh, IndexInv
    <3>3. /\ index'.records = records /\ index'.options = options
          /\ IsOf(index', records, options.claims)
          /\ index'.claims = AggregateOf(records, options.claims).claims
      BY <2>0, <3>2, RefreshedMatches DEF IndexInv
    <3>4. IndexMatches'
      BY <3>3 DEF IndexMatches, IndexInv, IsOf
    <3>5. saved'.records = records /\ saved'.core = CoreOf(index')
      BY <2>3 DEF Refresh
    <3>6. IsOf(saved'.core, records, options.claims)
      BY <3>3, <3>5 DEF IsOf, CoreOf
    <3>7. SavedMatches'
      BY <3>1, <3>5, <3>6 DEF SavedMatches, IndexInv, IsOf
    <3> QED BY <3>1, <3>4, <3>7 DEF IndexInv
  <2>4. ASSUME NEW order \in Orders, Reopen(order) PROVE IndexInv'
    <3>1. UNCHANGED <<options, saved>>
      BY <2>4 DEF Reopen
    <3>2. saved.records \in RecordMaps /\ IsOf(saved.core, saved.records, options.claims)
      BY <2>4 DEF Reopen, IndexInv, SavedMatches
    <3>3. records' = saved.records /\ aggregate' = AggregateOf(saved.records, options.claims)
      BY <2>4 DEF Reopen
    <3>4. index' = LoadCore(saved.core, saved.records, [options EXCEPT !.claims = FALSE], order)
      BY <2>4 DEF Reopen
    <3>5. /\ index'.records = saved.records
          /\ IsOf(index', saved.records, index'.options.claims)
          /\ index'.claims = AggregateOf(saved.records, index'.options.claims).claims
      BY <3>2, <3>4, LoadedMatches DEF IndexInv
    <3>6. IndexMatches'
      BY <3>2, <3>5 DEF IndexMatches, IsOf
    <3>7. SavedMatches'
      BY <3>1 DEF IndexInv, SavedMatches
    <3> QED BY <3>1, <3>2, <3>3, <3>6, <3>7 DEF IndexInv
  <2>5. ASSUME NEW q \in Queries, NEW order \in Orders, Query(q, order) PROVE IndexInv'
    BY <2>5 DEF Query, IndexInv, IndexMatches, SavedMatches
  <2>6. CASE UNCHANGED vars
    BY <2>6 DEF vars, IndexInv, IndexMatches, SavedMatches
  <2> QED BY <2>1, <2>2, <2>3, <2>4, <2>5, <2>6 DEF Next
<1> QED BY <1>1, <1>2, PTL DEF Spec

(* The aggregate kept document by document is that of the records, an index  *)
(* built or loaded is that of its records, and the interval trees name the   *)
(* chunks a range of lines touches.                                          *)
THEOREM IndexIsOfItsRecordsHolds == Spec => []IndexIsOfItsRecords
<1>1. IndexInv => IndexIsOfItsRecords
  <2> SUFFICES ASSUME IndexInv PROVE IndexIsOfItsRecords
    OBVIOUS
  <2>1. aggregate = AggregateOf(records, options.claims) /\ records \in RecordMaps
    BY DEF IndexInv
  <2>2. \A order \in Orders :
           FromRecords(records, options, order) = FromAggregate(records, aggregate, options, order)
    BY <2>1, SameIndexEitherWay
  <2>3. ASSUME index # NoIndex
        PROVE  LET direct == AggregateOf(index.records, index.options.claims) IN
               /\ index.chunks = direct.chunks /\ index.chunkTerms = direct.chunkTerms
               /\ index.chunkEntities = direct.chunkEntities /\ index.claims = direct.claims
    BY <2>3 DEF IndexInv, IndexMatches, IsOf
  <2>4. ASSUME index # NoIndex, NEW d \in index.table, NEW range \in Ranges
        PROVE  ImpactedChunks(index, d, range[1], range[2])
                 = {c.id : c \in {x \in AggregateOf(index.records, index.options.claims).chunks :
                                    x.doc = d /\ Overlaps(x, range[1], Max({range[1], range[2]}))}}
    <3> DEFINE a == range[1]
               b == range[2]
               k == index.options.claims
    <3>1. a \in Nat /\ b \in Nat
      BY ChunksAssumption
    <3>2. index.records \in RecordMaps /\ index.table = Present(index.records)
            /\ index.chunks = AggregateOf(index.records, k).chunks
      BY <2>4 DEF IndexInv, IndexMatches, IsOf
    <3> HIDE DEF a, b, k
    <3>3. ImpactedChunks(index, d, a, b)
            = {c.id : c \in {x \in index.chunks : x.doc = d /\ Overlaps(x, a, Max({a, b}))}}
      BY <3>1, <3>2, ImpactedIsExact
    <3> QED BY <3>2, <3>3 DEF a, b, k
  <2> QED BY <2>1, <2>2, <2>3, <2>4 DEF IndexIsOfItsRecords
<1> QED BY <1>1, IndexInvHolds, PTL

-----------------------------------------------------------------------------
(***************************************************************************)
(* The calendar: every day has one year, month and day, and a day moved by *)
(* months or years stays in the month and year it is moved to.             *)
(***************************************************************************)

\* The days of a year.
YearDays(y) == 365 + (IF Leap(y) THEN 1 ELSE 0)

LEMMA YearLength ==
    ASSUME NEW y \in Int
    PROVE  /\ DaysBefore(y) \in Int
           /\ DaysBefore(y + 1) = DaysBefore(y) + YearDays(y)
           /\ YearDays(y) \in {365, 366}
BY DEF DaysBefore, YearDays, Leap

\* Of the three years a day may lie in, it lies in one.
LEMMA YearOfDay ==
    ASSUME NEW date \in Int
    PROVE  \E y \in 2022 + (400 * (date - 1)) \div 146097 .. 2024 + (400 * (date - 1)) \div 146097 :
             DaysBefore(y) < date /\ date <= DaysBefore(y + 1)
<1> DEFINE g == 2023 + (400 * (date - 1)) \div 146097
<1>1. g \in Int /\ 146097 * (g - 2023) <= 400 * (date - 1) /\ 400 * (date - 1) < 146097 * (g - 2022)
  OBVIOUS
<1> HIDE DEF g
<1>2. DaysBefore(g - 1) < date
  BY <1>1 DEF DaysBefore
<1>3. date <= DaysBefore(g + 2)
  BY <1>1 DEF DaysBefore
<1>4. DaysBefore(g) = DaysBefore(g - 1) + YearDays(g - 1)
  BY <1>1, YearLength
<1> QED BY <1>1, <1>2, <1>3, YearLength

LEMMA LaterYears ==
    ASSUME NEW x \in Int, NEW y \in Int, x < y
    PROVE  DaysBefore(x + 1) <= DaysBefore(y)
<1>1. \A k \in Nat : DaysBefore(x + 1) <= DaysBefore(x + 1 + k)
  BY DEF DaysBefore
<1>2. y - (x + 1) \in Nat /\ x + 1 + (y - (x + 1)) = y
  OBVIOUS
<1> QED
  BY <1>1, <1>2

LEMMA MonthStarts ==
  \A y \in Int : \A m \in 1 .. 13 : DaysToMonth(y, m) \in Int
<1> TAKE y \in Int
<1> TAKE m \in 1 .. 13
<1>1. CASE m = 1 BY <1>1 DEF DaysToMonth
<1>2. CASE m = 2 BY <1>2 DEF DaysToMonth
<1>3. CASE m = 3 BY <1>3 DEF DaysToMonth
<1>4. CASE m = 4 BY <1>4 DEF DaysToMonth
<1>5. CASE m = 5 BY <1>5 DEF DaysToMonth
<1>6. CASE m = 6 BY <1>6 DEF DaysToMonth
<1>7. CASE m = 7 BY <1>7 DEF DaysToMonth
<1>8. CASE m = 8 BY <1>8 DEF DaysToMonth
<1>9. CASE m = 9 BY <1>9 DEF DaysToMonth
<1>10. CASE m = 10 BY <1>10 DEF DaysToMonth
<1>11. CASE m = 11 BY <1>11 DEF DaysToMonth
<1>12. CASE m = 12 BY <1>12 DEF DaysToMonth
<1>13. CASE m = 13 BY <1>13 DEF DaysToMonth
<1> QED
  BY <1>1, <1>2, <1>3, <1>4, <1>5, <1>6, <1>7, <1>8, <1>9, <1>10, <1>11, <1>12, <1>13

LEMMA MonthLength ==
  \A y \in Int : \A m \in 1 .. 12 : DaysToMonth(y, m) + 28 <= DaysToMonth(y, m + 1)
<1> TAKE y \in Int
<1> TAKE m \in 1 .. 12
<1>1. CASE m = 1 BY <1>1 DEF DaysToMonth
<1>2. CASE m = 2 BY <1>2 DEF DaysToMonth
<1>3. CASE m = 3 BY <1>3 DEF DaysToMonth
<1>4. CASE m = 4 BY <1>4 DEF DaysToMonth
<1>5. CASE m = 5 BY <1>5 DEF DaysToMonth
<1>6. CASE m = 6 BY <1>6 DEF DaysToMonth
<1>7. CASE m = 7 BY <1>7 DEF DaysToMonth
<1>8. CASE m = 8 BY <1>8 DEF DaysToMonth
<1>9. CASE m = 9 BY <1>9 DEF DaysToMonth
<1>10. CASE m = 10 BY <1>10 DEF DaysToMonth
<1>11. CASE m = 11 BY <1>11 DEF DaysToMonth
<1>12. CASE m = 12 BY <1>12 DEF DaysToMonth
<1> QED
  BY <1>1, <1>2, <1>3, <1>4, <1>5, <1>6, <1>7, <1>8, <1>9, <1>10, <1>11, <1>12

LEMMA MonthsInYear ==
    ASSUME NEW y \in Int
    PROVE  DaysToMonth(y, 1) = 0 /\ DaysToMonth(y, 13) = YearDays(y)
BY DEF DaysToMonth, YearDays

LEMMA LaterMonths ==
  \A y \in Int : \A a \in 1 .. 12, b \in 1 .. 13 :
    a < b => DaysToMonth(y, a + 1) <= DaysToMonth(y, b)
<1> TAKE y \in Int
<1> TAKE a \in 1 .. 12, b \in 1 .. 13
<1> HAVE a < b
<1> DEFINE D(i) == DaysToMonth(y, i)
<1>1. \A i \in 1 .. 12 : D(i) \in Int /\ D(i + 1) \in Int /\ D(i) <= D(i + 1)
  <2> TAKE i \in 1 .. 12
  <2>1. i \in 1 .. 13 /\ i + 1 \in 1 .. 13
    OBVIOUS
  <2>2. DaysToMonth(y, i) \in Int /\ DaysToMonth(y, i + 1) \in Int
    BY <2>1, MonthStarts
  <2>3. DaysToMonth(y, i) + 28 <= DaysToMonth(y, i + 1)
    BY MonthLength
  <2> QED BY <2>2, <2>3
<1> HIDE DEF D
<1>2. /\ D(2) <= D(3) /\ D(3) <= D(4) /\ D(4) <= D(5) /\ D(5) <= D(6) /\ D(6) <= D(7)
      /\ D(7) <= D(8) /\ D(8) <= D(9) /\ D(9) <= D(10) /\ D(10) <= D(11) /\ D(11) <= D(12)
      /\ D(12) <= D(13)
  BY <1>1
<1>3. \A i \in 1 .. 13 : D(i) \in Int
  BY <1>1
<1> QED
  <2>1. D(a + 1) <= D(b)
    BY <1>2, <1>3
  <2> QED BY <2>1 DEF D

\* Every day has one year, one month and one day of the month.
LEMMA CivilOfDay ==
    ASSUME NEW date \in Int
    PROVE  /\ Year(date) \in Int /\ Month(date) \in 1 .. 12
           /\ DayOfMonth(date) \in 1 .. LastDayOfMonth(Year(date), Month(date))
           /\ date = Date(Year(date), Month(date), DayOfMonth(date))
<1> DEFINE guess == 2023 + (400 * (date - 1)) \div 146097
           y == CHOOSE y \in guess - 1 .. guess + 1 : DaysBefore(y) < date /\ date <= DaysBefore(y + 1)
           inYear == date - DaysBefore(y)
           m == CHOOSE m \in 1 .. 12 : DaysToMonth(y, m) < inYear /\ inYear <= DaysToMonth(y, m + 1)
<1>1. Civil(date) = [year |-> y, month |-> m, day |-> inYear - DaysToMonth(y, m)]
  BY DEF Civil
<1>2. Year(date) = y /\ Month(date) = m /\ DayOfMonth(date) = inYear - DaysToMonth(y, m)
  BY <1>1 DEF Year, Month, DayOfMonth
<1>3. guess \in Int
  OBVIOUS
<1>4. y \in guess - 1 .. guess + 1 /\ DaysBefore(y) < date /\ date <= DaysBefore(y + 1)
  <2>1. \E x \in guess - 1 .. guess + 1 : DaysBefore(x) < date /\ date <= DaysBefore(x + 1)
    <3>1. PICK x \in 2022 + (400 * (date - 1)) \div 146097 .. 2024 + (400 * (date - 1)) \div 146097 :
             DaysBefore(x) < date /\ date <= DaysBefore(x + 1)
      BY YearOfDay
    <3>2. x \in guess - 1 .. guess + 1
      OBVIOUS
    <3> QED BY <3>1, <3>2
  <2> HIDE DEF guess
  <2> QED BY <2>1
<1>5. y \in Int
  <2> HIDE DEF guess, y
  <2> QED BY <1>3, <1>4
<1> HIDE DEF y
<1>6. inYear \in 1 .. YearDays(y)
  BY <1>4, <1>5, YearLength
<1>7. m \in 1 .. 12 /\ DaysToMonth(y, m) < inYear /\ inYear <= DaysToMonth(y, m + 1)
  <2>1. \E k \in 1 .. 12 : DaysToMonth(y, k) < inYear /\ inYear <= DaysToMonth(y, k + 1)
    <3> DEFINE D(i) == DaysToMonth(y, i)
    <3>1. \A i \in 1 .. 12 : D(i) \in Int /\ D(i + 1) \in Int
      <4> TAKE i \in 1 .. 12
      <4>1. i \in 1 .. 13 /\ i + 1 \in 1 .. 13
        OBVIOUS
      <4> QED BY <4>1, <1>5, MonthStarts
    <3>2. D(1) < inYear /\ inYear <= D(13)
      BY <1>5, <1>6, MonthsInYear
    <3>3. inYear \in Int
      BY <1>6, <1>5, YearLength
    <3>4. SUFFICES \E k \in 1 .. 12 : D(k) < inYear /\ inYear <= D(k + 1)
      OBVIOUS
    <3> HIDE DEF D, inYear
    <3> QED
      BY <3>1, <3>2, <3>3
  <2> HIDE DEF inYear
  <2> QED BY <2>1
<1> HIDE DEF m
<1>8. DaysToMonth(y, m) \in Int /\ DaysToMonth(y, m + 1) \in Int /\ DaysBefore(y) \in Int
  <2>1. m \in 1 .. 13 /\ m + 1 \in 1 .. 13
    BY <1>7
  <2>2. DaysToMonth(y, m) \in Int /\ DaysToMonth(y, m + 1) \in Int
    BY <1>5, <2>1, MonthStarts
  <2>3. DaysBefore(y) \in Int
    BY <1>5, YearLength
  <2> QED BY <2>2, <2>3
<1> QED
  BY <1>2, <1>5, <1>7, <1>8 DEF LastDayOfMonth, Date

LEMMA CivilOfDate ==
    ASSUME NEW y \in Int, NEW m \in 1 .. 12, NEW d \in 1 .. LastDayOfMonth(y, m)
    PROVE  /\ Date(y, m, d) \in Int
           /\ Year(Date(y, m, d)) = y /\ Month(Date(y, m, d)) = m /\ DayOfMonth(Date(y, m, d)) = d
<1> DEFINE date == Date(y, m, d)
           yy == Year(date)
           mm == Month(date)
           dd == DayOfMonth(date)
<1>1. DaysToMonth(y, m) \in Int /\ DaysToMonth(y, m + 1) \in Int /\ DaysBefore(y) \in Int
  <2>1. m \in 1 .. 13 /\ m + 1 \in 1 .. 13
    OBVIOUS
  <2>2. DaysToMonth(y, m) \in Int /\ DaysToMonth(y, m + 1) \in Int
    BY <2>1, MonthStarts
  <2>3. DaysBefore(y) \in Int
    BY YearLength
  <2> QED BY <2>2, <2>3
<1>2. d \in Int /\ d >= 1 /\ DaysToMonth(y, m) + d <= DaysToMonth(y, m + 1)
  BY <1>1 DEF LastDayOfMonth
<1>3. date = DaysBefore(y) + DaysToMonth(y, m) + d /\ date \in Int
  BY <1>1, <1>2 DEF Date
<1> HIDE DEF date
<1>4. /\ yy \in Int /\ mm \in 1 .. 12 /\ dd \in 1 .. LastDayOfMonth(yy, mm)
      /\ date = Date(yy, mm, dd)
  BY <1>3, CivilOfDay
<1> HIDE DEF yy, mm, dd
<1>5. DaysToMonth(yy, mm) \in Int /\ DaysToMonth(yy, mm + 1) \in Int /\ DaysBefore(yy) \in Int
  <2>1. mm \in 1 .. 13 /\ mm + 1 \in 1 .. 13
    BY <1>4
  <2>2. DaysToMonth(yy, mm) \in Int /\ DaysToMonth(yy, mm + 1) \in Int
    BY <1>4, <2>1, MonthStarts
  <2>3. DaysBefore(yy) \in Int
    BY <1>4, YearLength
  <2> QED BY <2>2, <2>3
<1>6. /\ dd \in Int /\ dd >= 1 /\ DaysToMonth(yy, mm) + dd <= DaysToMonth(yy, mm + 1)
      /\ date = DaysBefore(yy) + DaysToMonth(yy, mm) + dd
  BY <1>4, <1>5 DEF LastDayOfMonth, Date
<1>7. \A x \in Int, n \in 1 .. 12 :
        DaysToMonth(x, n) >= 0 /\ DaysBefore(x) + DaysToMonth(x, n + 1) <= DaysBefore(x + 1)
  <2> TAKE x \in Int, n \in 1 .. 12
  <2>1. /\ DaysToMonth(x, 1) = 0 /\ DaysToMonth(x, 13) = YearDays(x)
        /\ DaysBefore(x + 1) = DaysBefore(x) + YearDays(x)
        /\ YearDays(x) \in Int /\ DaysBefore(x) \in Int
    BY MonthsInYear, YearLength
  <2>2. DaysToMonth(x, n) \in Int /\ DaysToMonth(x, n + 1) \in Int /\ DaysToMonth(x, n + 1) >= DaysToMonth(x, n)
    <3>1. n \in 1 .. 13 /\ n + 1 \in 1 .. 13
      OBVIOUS
    <3>2. DaysToMonth(x, n) \in Int /\ DaysToMonth(x, n + 1) \in Int
      BY <3>1, MonthStarts
    <3>3. DaysToMonth(x, n) + 28 <= DaysToMonth(x, n + 1)
      BY MonthLength
    <3> QED BY <3>2, <3>3
  <2>3. n = 1 \/ DaysToMonth(x, 2) <= DaysToMonth(x, n)
    BY LaterMonths
  <2>4. DaysToMonth(x, 2) \in Int /\ DaysToMonth(x, 2) >= 28
    <3>1. DaysToMonth(x, 1) + 28 <= DaysToMonth(x, 1 + 1)
      BY MonthLength
    <3>2. DaysToMonth(x, 2) \in Int
      BY MonthStarts
    <3> QED BY <3>1, <3>2, <2>1
  <2>5. DaysToMonth(x, n + 1) <= DaysToMonth(x, 13)
    BY <2>1, <2>2, LaterMonths
  <2> QED BY <2>1, <2>2, <2>3, <2>4, <2>5
<1>8. yy = y
  <2>1. ~(yy < y)
    <3> SUFFICES ASSUME yy < y PROVE FALSE OBVIOUS
    <3>1. DaysBefore(yy + 1) <= DaysBefore(y)
      BY <1>4, LaterYears
    <3>2. DaysBefore(yy + 1) \in Int
      BY <1>4, YearLength
    <3> QED BY <3>1, <3>2, <1>1, <1>2, <1>3, <1>4, <1>5, <1>6, <1>7
  <2>2. ~(y < yy)
    <3> SUFFICES ASSUME y < yy PROVE FALSE OBVIOUS
    <3>1. DaysBefore(y + 1) <= DaysBefore(yy)
      BY <1>4, LaterYears
    <3>2. DaysBefore(y + 1) \in Int
      BY YearLength
    <3> QED BY <3>1, <3>2, <1>1, <1>2, <1>3, <1>4, <1>5, <1>6, <1>7
  <2> QED BY <2>1, <2>2, <1>4
<1>9. mm = m
  <2>1. mm < m => DaysToMonth(y, mm + 1) <= DaysToMonth(y, m)
    BY <1>4, LaterMonths
  <2>2. m < mm => DaysToMonth(y, m + 1) <= DaysToMonth(y, mm)
    BY <1>4, LaterMonths
  <2> QED BY <2>1, <2>2, <1>8, <1>1, <1>2, <1>3, <1>4, <1>5, <1>6
<1> QED
  BY <1>1, <1>2, <1>3, <1>5, <1>6, <1>8, <1>9 DEF yy, mm, dd, date

LEMMA LastDays ==
  \A y \in Int : \A m \in 1 .. 12 : LastDayOfMonth(y, m) \in Int /\ LastDayOfMonth(y, m) >= 28
<1> TAKE y \in Int
<1> TAKE m \in 1 .. 12
<1>1. m \in 1 .. 13 /\ m + 1 \in 1 .. 13
  OBVIOUS
<1>2. DaysToMonth(y, m) \in Int /\ DaysToMonth(y, m + 1) \in Int
  BY <1>1, MonthStarts
<1>3. DaysToMonth(y, m) + 28 <= DaysToMonth(y, m + 1)
  BY MonthLength
<1> QED
  BY <1>2, <1>3 DEF LastDayOfMonth

\* A day moved into another month or year stays in it.
LEMMA DayKept ==
    ASSUME NEW base \in Int, NEW y \in Int, NEW m \in 1 .. 12
    PROVE  /\ OnDay(y, m, base) \in Int
           /\ Year(OnDay(y, m, base)) = y /\ Month(OnDay(y, m, base)) = m
<1> DEFINE last == LastDayOfMonth(y, m)
           day  == IF DayOfMonth(base) < last THEN DayOfMonth(base) ELSE last
<1>1. last \in Int /\ last >= 28
  BY LastDays
<1>2. DayOfMonth(base) \in Int /\ DayOfMonth(base) >= 1
  <2>1. /\ Year(base) \in Int /\ Month(base) \in 1 .. 12
        /\ DayOfMonth(base) \in 1 .. LastDayOfMonth(Year(base), Month(base))
    BY CivilOfDay
  <2>2. LastDayOfMonth(Year(base), Month(base)) \in Int
    BY <2>1, LastDays
  <2> QED BY <2>1, <2>2
<1>3. day \in 1 .. LastDayOfMonth(y, m)
  BY <1>1, <1>2
<1>4. OnDay(y, m, base) = Date(y, m, day)
  BY DEF OnDay
<1> HIDE DEF day
<1> QED
  BY <1>3, <1>4, CivilOfDate

-----------------------------------------------------------------------------
(***************************************************************************)
(* Shifting a day by a number of units, and to a weekday.                  *)
(***************************************************************************)

LEMMA MonthsApart ==
    ASSUME NEW base \in Int, NEW n \in Int
    PROVE  /\ ShiftMonths(base, n) \in Int
           /\ PlaceOf("month", ShiftMonths(base, n)) = PlaceOf("month", base) + n
<1> DEFINE months == MonthsOf(base) + n
           y == months \div 12
           m == (months % 12) + 1
<1>1. Year(base) \in Int /\ Month(base) \in 1 .. 12 /\ DayOfMonth(base) \in Int /\ DayOfMonth(base) >= 1
  <2>1. /\ Year(base) \in Int /\ Month(base) \in 1 .. 12
        /\ DayOfMonth(base) \in 1 .. LastDayOfMonth(Year(base), Month(base))
    BY CivilOfDay
  <2>2. Month(base) \in 1 .. 13 /\ Month(base) + 1 \in 1 .. 13
    BY <2>1
  <2>3. LastDayOfMonth(Year(base), Month(base)) \in Int
    BY <2>1, <2>2, LastDays
  <2> QED BY <2>1, <2>3
<1>2. months \in Int /\ y \in Int /\ m \in 1 .. 12 /\ 12 * y + m = months + 1
  BY <1>1 DEF MonthsOf
<1>3. ShiftMonths(base, n) = OnDay(y, m, base)
  BY DEF ShiftMonths
<1> HIDE DEF y, m
<1>4. /\ OnDay(y, m, base) \in Int
      /\ Year(OnDay(y, m, base)) = y /\ Month(OnDay(y, m, base)) = m
  BY <1>1, <1>2, DayKept
<1> QED
  BY <1>1, <1>2, <1>3, <1>4 DEF PlaceOf, MonthsOf

LEMMA YearsApart ==
    ASSUME NEW base \in Int, NEW n \in Int
    PROVE  /\ ShiftYears(base, n) \in Int
           /\ PlaceOf("year", ShiftYears(base, n)) = PlaceOf("year", base) + n
<1>1. Year(base) \in Int /\ Month(base) \in 1 .. 12
  BY CivilOfDay
<1>2. /\ ShiftYears(base, n) \in Int /\ Year(ShiftYears(base, n)) = Year(base) + n
  <2> DEFINE y == Year(base) + n
             m == Month(base)
  <2>1. y \in Int /\ m \in 1 .. 12 /\ ShiftYears(base, n) = OnDay(y, m, base)
    BY <1>1 DEF ShiftYears
  <2> HIDE DEF y, m
  <2>2. OnDay(y, m, base) \in Int /\ Year(OnDay(y, m, base)) = y
    BY <2>1, DayKept
  <2> QED BY <2>1, <2>2 DEF y
<1> QED
  BY <1>1, <1>2 DEF PlaceOf

LEMMA WeeksApart ==
    ASSUME NEW base \in Int, NEW n \in Int
    PROVE  PlaceOf("week", base + 7 * n) = PlaceOf("week", base) + n
<1> DEFINE week == (base + 5) \div 7
<1>1. week \in Int /\ Weekday(base) \in 0 .. 6 /\ base + 5 = 7 * week + Weekday(base)
  BY DEF Weekday
<1>2. Weekday(base + 7 * n) = Weekday(base)
  <2> HIDE DEF week
  <2>1. (base + 7 * n) + 5 = 7 * (week + n) + Weekday(base)
    BY <1>1
  <2> QED BY <2>1, <1>1 DEF Weekday
<1>3. WeekStart(base + 7 * n) = WeekStart(base) + 7 * n /\ WeekStart(base) \in Int
  BY <1>1, <1>2 DEF WeekStart
<1> QED
  BY <1>3 DEF PlaceOf

\* A shift by a unit leads into the period so many units away.
LEMMA ShiftedPlace ==
    ASSUME NEW base \in Int, NEW n \in Int, NEW unit \in Units
    PROVE  /\ Shift(base, unit, n) \in Int
           /\ PlaceOf(unit, Shift(base, unit, n)) = PlaceOf(unit, base) + n
<1>1. CASE unit = "day"
  BY <1>1 DEF Shift, PlaceOf
<1>2. CASE unit = "week"
  BY <1>2, WeeksApart DEF Shift
<1>3. CASE unit = "month"
  BY <1>3, MonthsApart DEF Shift
<1>4. CASE unit = "year"
  BY <1>4, YearsApart DEF Shift
<1> QED
  BY <1>1, <1>2, <1>3, <1>4 DEF Units

\* "Last", "this" and "next" weekday.
LEMMA WeekdayIsMet ==
    ASSUME NEW base \in Int, NEW w \in 0 .. 6, NEW n \in -1 .. 1
    PROVE  LET day == ResolveWeekday(base, w, n) IN
           /\ day \in Int /\ Weekday(day) = w
           /\ n < 0 => base - day \in 1 .. 7
           /\ n >= 0 => PlaceOf("week", day) = PlaceOf("week", base) + n
<1>1. CASE n < 0
  BY <1>1 DEF ResolveWeekday, Weekday
<1>2. CASE n >= 0
  BY <1>2 DEF ResolveWeekday, Weekday, WeekStart, PlaceOf
<1> QED
  BY <1>1, <1>2

-----------------------------------------------------------------------------
(***************************************************************************)
(* The day of a question.                                                  *)
(***************************************************************************)

LEMMA LeastIsIn ==
    ASSUME NEW S \in SUBSET Nat, S # {}
    PROVE  Least(S) \in S /\ \A j \in S : Least(S) <= j
<1> DEFINE R == {ss \in Nat \X Nat : ss[1] < ss[2]}
<1>1. IsWellFoundedOn(R, Nat)
  BY NatLessThanWellFounded DEF OpToRel
<1>2. \E i \in S : \A j \in S : ~ (<<j, i>> \in R)
  <2> HIDE DEF R
  <2> QED BY <1>1, WFMin
<1>3. PICK i \in S : \A j \in S : ~ (<<j, i>> \in R)
  BY <1>2
<1>4. ASSUME NEW j \in S PROVE i <= j
  <2>1. j \in Nat /\ i \in Nat /\ ~ (<<j, i>> \in R)
    BY <1>3
  <2> QED BY <2>1
<1> QED BY <1>3, <1>4 DEF Least

\* What makes an expression of each kind.
LEMMA ExpressionKinds ==
    ASSUME NEW e \in Expressions
    PROVE  /\ e.n \in Int /\ e.unit \in Units
           /\ \/ e.kind = "day" /\ \E n \in -1 .. 1 : e = Day(n)
              \/ e.kind = "period" /\ \E unit \in Units \ {"day"}, n \in -1 .. 1 : e = Period(unit, n)
              \/ e.kind = "weekend" /\ e.unit = "week" /\ e.n \in -1 .. 1
              \/ e.kind \in {"ago", "future", "other"}
              \/ e.kind = "weekday" /\ e.weekday \in 0 .. 6 /\ e.n \in -1 .. 1
<1>1. CASE e \in {Day(n) : n \in -1 .. 1}
  BY <1>1 DEF Day, Units
<1>2. CASE e \in {Period(unit, n) : unit \in Units \ {"day"}, n \in -1 .. 1}
  BY <1>2 DEF Period
<1>3. CASE e \in {Weekend(n) : n \in -1 .. 1}
  BY <1>3 DEF Weekend, Units
<1>4. CASE e \in {Apart(unit, n) : unit \in Units, n \in (-10 .. 10) \ {0}}
  BY <1>4 DEF Apart
<1>5. CASE e \in {Named(w, n) : w \in 0 .. 6, n \in -1 .. 1}
  BY <1>5 DEF Named, Units
<1>6. CASE e \in [kind : {"other"}, unit : Units, n : Int]
  BY <1>6
<1> QED
  BY <1>1, <1>2, <1>3, <1>4, <1>5, <1>6 DEF Expressions

LEMMA FixedPhrasesAre ==
    /\ DOMAIN FixedPhrases = 1 .. 12
    /\ \A i \in 1 .. 12 : FixedPhrases[i].kind \in {"day", "period"}
    /\ \A n \in -1 .. 1 : \E i \in 1 .. 12 : FixedPhrases[i] = Day(n)
    /\ \A unit \in Units \ {"day"} : \A n \in -1 .. 1 :
         \E i \in 1 .. 12 : FixedPhrases[i] = Period(unit, n)
<1>1. /\ DOMAIN FixedPhrases = 1 .. 12
      /\ FixedPhrases[1] = Day(0) /\ FixedPhrases[2] = Day(-1) /\ FixedPhrases[3] = Day(1)
      /\ FixedPhrases[4] = Period("week", -1) /\ FixedPhrases[5] = Period("week", 0)
      /\ FixedPhrases[6] = Period("week", 1) /\ FixedPhrases[7] = Period("month", -1)
      /\ FixedPhrases[8] = Period("month", 0) /\ FixedPhrases[9] = Period("month", 1)
      /\ FixedPhrases[10] = Period("year", -1) /\ FixedPhrases[11] = Period("year", 0)
      /\ FixedPhrases[12] = Period("year", 1)
  BY DEF FixedPhrases
<1>2. \A n : Day(n).kind = "day"
  BY DEF Day
<1>3. \A unit, n : Period(unit, n).kind = "period"
  BY DEF Period
<1>4. ASSUME NEW i \in 1 .. 12
      PROVE  FixedPhrases[i].kind \in {"day", "period"}
  <2>1. i = 1 \/ i = 2 \/ i = 3 \/ i = 4 \/ i = 5 \/ i = 6 \/ i = 7 \/ i = 8 \/ i = 9 \/ i = 10
          \/ i = 11 \/ i = 12
    OBVIOUS
  <2> QED BY <1>1, <1>2, <1>3, <2>1
<1>5. \A n \in -1 .. 1 : n = -1 \/ n = 0 \/ n = 1
  OBVIOUS
<1>6. ASSUME NEW n \in -1 .. 1
      PROVE  \E i \in 1 .. 12 : FixedPhrases[i] = Day(n)
  <2>1. 1 \in 1 .. 12 /\ 2 \in 1 .. 12 /\ 3 \in 1 .. 12
    OBVIOUS
  <2> QED BY <1>1, <1>5, <2>1
<1>7. ASSUME NEW unit \in Units \ {"day"}, NEW n \in -1 .. 1
      PROVE  \E i \in 1 .. 12 : FixedPhrases[i] = Period(unit, n)
  <2>1. {4, 5, 6, 7, 8, 9, 10, 11, 12} \subseteq 1 .. 12
    OBVIOUS
  <2>2. CASE unit = "week"
    BY <1>1, <1>5, <2>1, <2>2
  <2>3. CASE unit = "month"
    BY <1>1, <1>5, <2>1, <2>3
  <2>4. CASE unit = "year"
    BY <1>1, <1>5, <2>1, <2>4
  <2> QED BY <2>2, <2>3, <2>4 DEF Units
<1> QED
  BY <1>1, <1>4, <1>6, <1>7

\* The places in the fixed order of what is said.
FixedIn(phrases) == {i \in DOMAIN FixedPhrases : SaidIn(phrases, FixedPhrases[i])}
\* The expression a single one is read as.
ReadAs(e) == IF e.kind = "weekend" THEN Period("week", e.n) ELSE e

LEMMA FixedForOne ==
    ASSUME NEW e \in Expressions
    PROVE  /\ \A i \in FixedIn(<<e>>) : FixedPhrases[i] = ReadAs(e)
           /\ e.kind \in {"day", "period", "weekend"} => FixedIn(<<e>>) # {}
           /\ e.kind \notin {"day", "period", "weekend"} => FixedIn(<<e>>) = {}
           /\ FixedIn(<<e>>) \in SUBSET Nat
<1>1. \A p : SaidIn(<<e>>, p) <=> (e = p \/ (e.kind = "weekend" /\ p = Period("week", e.n)))
  BY DEF SaidIn
<1>2. FixedIn(<<e>>) = {i \in 1 .. 12 : SaidIn(<<e>>, FixedPhrases[i])}
  BY FixedPhrasesAre DEF FixedIn
<1>3. ASSUME NEW i \in FixedIn(<<e>>)
      PROVE  FixedPhrases[i] = ReadAs(e) /\ e.kind \in {"day", "period", "weekend"}
  <2>1. i \in 1 .. 12 /\ SaidIn(<<e>>, FixedPhrases[i])
    BY <1>2
  <2>2. FixedPhrases[i].kind \in {"day", "period"}
    BY <2>1, FixedPhrasesAre
  <2> QED BY <1>1, <2>1, <2>2 DEF ReadAs
<1>4. ASSUME e.kind \in {"day", "period", "weekend"}
      PROVE  FixedIn(<<e>>) # {}
  <2>1. \E i \in 1 .. 12 : FixedPhrases[i] = ReadAs(e)
    <3>1. CASE e.kind = "day"
      <4>1. PICK n \in -1 .. 1 : e = Day(n)
        BY <3>1, ExpressionKinds
      <4> QED BY <3>1, <4>1, FixedPhrasesAre DEF ReadAs
    <3>2. CASE e.kind = "period"
      <4>1. PICK unit \in Units \ {"day"}, n \in -1 .. 1 : e = Period(unit, n)
        BY <3>2, ExpressionKinds
      <4> QED BY <3>2, <4>1, FixedPhrasesAre DEF ReadAs
    <3>3. CASE e.kind = "weekend"
      <4>1. e.n \in -1 .. 1 /\ "week" \in Units \ {"day"}
        BY <3>3, ExpressionKinds DEF Units
      <4> QED BY <3>3, <4>1, FixedPhrasesAre DEF ReadAs
    <3> QED BY <1>4, <3>1, <3>2, <3>3
  <2>2. SaidIn(<<e>>, ReadAs(e))
    BY <1>1 DEF ReadAs
  <2> QED BY <1>2, <2>1, <2>2
<1> QED
  BY <1>2, <1>3, <1>4

LEMMA OneExpression ==
    ASSUME NEW e \in Expressions, NEW base
    PROVE  ResolveTarget(<<e>>, base).date = DayOf(ReadAs(e), base)
<1> DEFINE fixed == FixedIn(<<e>>)
           kinds == {k \in DOMAIN LaterKinds : OfKind(<<e>>, LaterKinds[k]) # {}}
           p == IF fixed # {} THEN FixedPhrases[Least(fixed)]
                ELSE <<e>>[Least(OfKind(<<e>>, LaterKinds[Least(kinds)]))]
<1>1. ResolveTarget(<<e>>, base)
        = IF fixed = {} /\ kinds = {} THEN [date |-> 0, window |-> 0]
          ELSE [date |-> DayOf(p, base), window |-> WindowDays(p.unit)]
  BY DEF ResolveTarget, FixedIn
<1>2. CASE fixed # {}
  <2>1. Least(fixed) \in fixed
    BY <1>2, FixedForOne, LeastIsIn
  <2>2. p = ReadAs(e)
    BY <1>2, <2>1, FixedForOne
  <2> HIDE DEF fixed, kinds, p
  <2> QED BY <1>1, <1>2, <2>2
<1>3. CASE fixed = {}
  <2>1. e.kind \notin {"day", "period", "weekend"}
    BY <1>3, FixedForOne
  <2>2. e.kind \in {"ago", "future", "weekday", "other"}
    BY <2>1, ExpressionKinds
  <2>3. \A kind : OfKind(<<e>>, kind) = IF e.kind = kind THEN {1} ELSE {}
    BY DEF OfKind
  <2>4. /\ DOMAIN LaterKinds = 1 .. 4 /\ LaterKinds[1] = "ago" /\ LaterKinds[2] = "future"
        /\ LaterKinds[3] = "weekday" /\ LaterKinds[4] = "other"
    BY DEF LaterKinds
  <2>5. kinds = {k \in 1 .. 4 : LaterKinds[k] = e.kind} /\ kinds # {}
    BY <2>2, <2>3, <2>4
  <2>6. Least(kinds) \in kinds
    <3>1. kinds \in SUBSET Nat
      BY <2>5
    <3> HIDE DEF kinds
    <3> QED BY <2>5, <3>1, LeastIsIn
  <2>7. OfKind(<<e>>, LaterKinds[Least(kinds)]) = {1}
    BY <2>3, <2>5, <2>6
  <2>8. Least({1}) = 1
    BY LeastIsIn
  <2>9. p = ReadAs(e)
    <3>1. p = <<e>>[Least(OfKind(<<e>>, LaterKinds[Least(kinds)]))]
      BY <1>3
    <3>2. <<e>>[1] = e /\ ReadAs(e) = e
      BY <2>1 DEF ReadAs
    <3> HIDE DEF kinds, p
    <3> QED BY <3>1, <3>2, <2>7, <2>8
  <2> HIDE DEF fixed, kinds, p
  <2> QED BY <1>1, <2>5, <2>9
<1> QED BY <1>2, <1>3

\* The day a single expression stands for is where its words put it.
LEMMA DayIsInThePeriod ==
    ASSUME NEW e \in Expressions, e.kind # "other", NEW base \in Int
    PROVE  LET day == DayOf(ReadAs(e), base) IN
           /\ day \in Int /\ InPeriod(e, base, day)
           /\ day # 0 => AugmentTokens(<<e>>, base) \cap TemporalTerms(day, Silent) # {}
<1> DEFINE day == DayOf(ReadAs(e), base)
<1>1. e.n \in Int /\ e.unit \in Units
  BY ExpressionKinds
<1>2. day \in Int /\ InPeriod(e, base, day)
  <2>1. CASE e.kind = "weekday"
    <3>1. e.weekday \in 0 .. 6 /\ e.n \in -1 .. 1
      BY <2>1, ExpressionKinds
    <3>2. day = ResolveWeekday(base, e.weekday, e.n)
      BY <2>1 DEF DayOf, ReadAs
    <3>3. /\ day \in Int /\ Weekday(day) = e.weekday
          /\ e.n < 0 => base - day \in 1 .. 7
          /\ e.n >= 0 => PlaceOf("week", day) = PlaceOf("week", base) + e.n
      BY <3>1, <3>2, WeekdayIsMet
    <3> HIDE DEF day
    <3>4. CASE e.n < 0
      BY <2>1, <3>1, <3>3, <3>4 DEF InPeriod
    <3>5. CASE e.n >= 0
      BY <2>1, <3>1, <3>3, <3>5 DEF InPeriod
    <3> QED BY <3>1, <3>4, <3>5
  <2>2. CASE e.kind # "weekday"
    <3>1. day = Shift(base, e.unit, e.n)
      <4>1. CASE e.kind = "weekend"
        <5>1. e.unit = "week"
          BY <4>1, ExpressionKinds
        <5> QED BY <4>1, <5>1 DEF DayOf, ReadAs, Period
      <4>2. CASE e.kind # "weekend"
        BY <2>2, <4>2 DEF DayOf, ReadAs
      <4> QED BY <4>1, <4>2
    <3>2. day \in Int /\ PlaceOf(e.unit, day) = PlaceOf(e.unit, base) + e.n
      BY <1>1, <3>1, ShiftedPlace
    <3> HIDE DEF day
    <3> QED BY <2>2, <3>2 DEF InPeriod
  <2> QED BY <2>1, <2>2
<1>3. ASSUME day # 0
      PROVE  AugmentTokens(<<e>>, base) \cap TemporalTerms(day, Silent) # {}
  <2> DEFINE p == ReadAs(e)
             said == {FixedPhrases[i] : i \in {j \in DOMAIN FixedPhrases : SaidIn(<<e>>, FixedPhrases[j])}}
                       \cup {<<e>>[i] : i \in {j \in DOMAIN <<e>> : <<e>>[j].kind # "other"}}
             token == <<"month and weekday", Month(day), Weekday(day)>>
  <2>1. p \in said
    <3>1. CASE e.kind = "weekend"
      <4>1. PICK i \in FixedIn(<<e>>) : FixedPhrases[i] = p
        BY <3>1, FixedForOne
      <4> QED BY <4>1 DEF FixedIn
    <3>2. CASE e.kind # "weekend"
      BY <3>2 DEF ReadAs
    <3> QED BY <3>1, <3>2
  <2>2. day \in SpokenDays(p, base)
    <3>1. p.kind # "weekend"
      BY DEF ReadAs, Period
    <3> QED BY <3>1 DEF SpokenDays
  <2>3. token \in DateTokens(p, day) /\ token \in DateTokens(OfDocument, day)
    BY DEF DateTokens
  <2>4. AugmentTokens(<<e>>, base)
          = MarkerTokens(<<e>>) \cup UNION {UNION {DateTokens(x, d) : d \in SpokenDays(x, base)} : x \in said}
    BY DEF AugmentTokens
  <2>5. token \in TemporalTerms(day, Silent)
    BY <1>3, <2>3 DEF TemporalTerms
  <2> HIDE DEF p, said, token, day
  <2>6. token \in UNION {DateTokens(p, d) : d \in SpokenDays(p, base)}
    BY <2>2, <2>3
  <2> QED BY <2>1, <2>4, <2>5, <2>6
<1> QED BY <1>2, <1>3

AnswersAQuery == answer # NoIndex => answer.query \in Queries

LEMMA AnswersAQueryHolds == Spec => []AnswersAQuery
<1>1. Init => AnswersAQuery
  BY DEF Init, AnswersAQuery
<1>2. AnswersAQuery /\ [Next]_vars => AnswersAQuery'
  <2> SUFFICES ASSUME AnswersAQuery, [Next]_vars PROVE AnswersAQuery'
    OBVIOUS
  <2>1. CASE answer' = NoIndex \/ UNCHANGED answer
    BY <2>1 DEF AnswersAQuery
  <2>2. ASSUME NEW q \in Queries, NEW order \in Orders, Query(q, order)
        PROVE  AnswersAQuery'
    BY <2>2 DEF Query, AnswersAQuery
  <2> QED BY <2>1, <2>2 DEF Next, Upsert, RemoveDocument, Refresh, Reopen, vars
<1> QED BY <1>1, <1>2, PTL DEF Spec

(* The day a question with one expression of time is resolved to lies in the *)
(* period its words name, seen from any anchor, and a document of that day   *)
(* has a temporal term in common with the question as augmented.             *)
THEOREM TargetIsInThePeriodHolds == Spec => []TargetIsInThePeriod
<1>1. AnswersAQuery => TargetIsInThePeriod
  <2> SUFFICES ASSUME AnswersAQuery, answer # NoIndex, Len(answer.query.phrases) = 1,
                      answer.query.phrases[1].kind # "other"
               PROVE  LET phrases == answer.query.phrases
                          anchor == RelativeAnchor(answer.query)
                          target == ResolveTarget(phrases, anchor).date
                      IN  /\ InPeriod(phrases[1], anchor, target)
                          /\ AugmentTokens(phrases, anchor) \cap TemporalTerms(target, Silent) # {}
    BY DEF TargetIsInThePeriod
  <2> DEFINE q == answer.query
             e == q.phrases[1]
             anchor == RelativeAnchor(q)
  <2>1. q \in Queries
    BY DEF AnswersAQuery
  <2>2. q.phrases \in Seq(Expressions) /\ {q.reference, q.start, q.end} \subseteq Nat
          /\ (q.phrases # <<>> => TargetOf(q) # 0)
    BY <2>1, QueriesAssumption DEF Questions
  <2>3. e \in Expressions /\ q.phrases = <<e>>
    BY <2>2
  <2>4. anchor \in Int
    BY <2>2, ScoringAssumption DEF RelativeAnchor
  <2>5. TargetOf(q) # 0 /\ TargetOf(q) = ResolveTarget(<<e>>, anchor).date
    BY <2>2, <2>3 DEF TargetOf
  <2> HIDE DEF q, e, anchor
  <2>6. ResolveTarget(<<e>>, anchor).date = DayOf(ReadAs(e), anchor)
    BY <2>3, OneExpression
  <2>7. e.kind # "other"
    BY DEF e, q
  <2>8. /\ InPeriod(e, anchor, DayOf(ReadAs(e), anchor))
        /\ DayOf(ReadAs(e), anchor) # 0 =>
             AugmentTokens(<<e>>, anchor) \cap TemporalTerms(DayOf(ReadAs(e), anchor), Silent) # {}
    BY <2>3, <2>4, <2>7, DayIsInThePeriod
  <2>9. /\ InPeriod(e, anchor, ResolveTarget(q.phrases, anchor).date)
        /\ AugmentTokens(q.phrases, anchor) \cap TemporalTerms(ResolveTarget(q.phrases, anchor).date, Silent) # {}
    BY <2>3, <2>5, <2>6, <2>8
  <2> QED BY <2>9 DEF q, e, anchor
<1> QED BY <1>1, AnswersAQueryHolds, PTL
-----------------------------------------------------------------------------
(***************************************************************************)
(* Finite sets, numbers, sums and rankings, as the scoring uses them.      *)
(***************************************************************************)

LEMMA ImageIsFinite ==
    ASSUME NEW S, IsFiniteSet(S), NEW f
    PROVE  IsFiniteSet({f[x] : x \in S})
<1> DEFINE T == {f[x] : x \in S}
           g == [x \in S |-> f[x]]
<1>1. g \in Surjection(S, T)
  BY DEF Surjection
<1> HIDE DEF g, T
<1>2. IsFiniteSet(T)
  BY <1>1, FS_Surjection
<1> QED BY <1>2 DEF T

LEMMA UnionIsFinite ==
    ASSUME NEW S, IsFiniteSet(S), NEW f, \A x \in S : IsFiniteSet(f[x])
    PROVE  IsFiniteSet(UNION {f[x] : x \in S})
<1> DEFINE T == {f[x] : x \in S}
<1>1. IsFiniteSet(T)
  BY ImageIsFinite
<1>2. \A t \in T : IsFiniteSet(t)
  OBVIOUS
<1> HIDE DEF T
<1>3. IsFiniteSet(UNION T)
  BY <1>1, <1>2, FS_UNION
<1> QED BY <1>3 DEF T

LEMMA ElementsAreFinite ==
    ASSUME NEW E, NEW s \in Seq(E)
    PROVE  Elements(s) \subseteq E /\ IsFiniteSet(Elements(s))
<1>1. IsFiniteSet(1 .. Len(s)) /\ DOMAIN s = 1 .. Len(s)
  BY FS_Interval
<1>2. IsFiniteSet({s[i] : i \in DOMAIN s})
  BY <1>1, ImageIsFinite
<1> QED BY <1>2 DEF Elements

\* How many elements a part of a finite set has.
LEMMA PartIsCounted ==
    ASSUME NEW S, IsFiniteSet(S), NEW T \in SUBSET S
    PROVE  IsFiniteSet(T) /\ Cardinality(T) \in Nat
BY FS_Subset, FS_CardinalityType

LEMMA ProductIsNat == ASSUME NEW a \in Nat, NEW b \in Nat PROVE a * b \in Nat
OBVIOUS

LEMMA QuotientIsNat == ASSUME NEW a \in Nat, NEW b \in Nat \ {0} PROVE a \div b \in Nat
OBVIOUS

LEMMA ThousandthsAreNat ==
    ASSUME NEW a \in Nat, NEW b \in Nat \ {0} PROVE (1000 * a) \div b \in Nat
<1>1. 1000 * a \in Nat
  OBVIOUS
<1> QED BY <1>1, QuotientIsNat

LEMMA AtMostType == ASSUME NEW a \in Nat, NEW b \in Nat PROVE AtMost(a, b) \in Nat
<1>1. Min({a, b}) = IF a <= b THEN a ELSE b
  BY DEF Min
<1> QED BY <1>1 DEF AtMost

LEMMA NonNegativeType == ASSUME NEW a \in Int PROVE NonNegative(a) \in Nat
<1>1. NonNegative(a) = IF a >= 0 THEN a ELSE 0
  BY MaxOfTwo DEF NonNegative
<1> QED BY <1>1

LEMMA FlagType == ASSUME NEW b, NEW n \in Nat PROVE Flag(b, n) \in Nat
BY DEF Flag

AddStep(c, x, v) == c[x] + v
AnyOf(s) == CHOOSE x \in s : TRUE
PartlySummed(c, s, v) == v \in Nat /\ \A x \in s : v >= c[x]

Adding == INSTANCE FoldTheorems WITH Step <- AddStep, Choice <- AnyOf, Inv <- PartlySummed

LEMMA TotalIsNat ==
    ASSUME NEW S, IsFiniteSet(S), NEW c \in [S -> Nat]
    PROVE  Total(c) \in Nat /\ \A x \in S : Total(c) >= c[x]
<1>1. Adding!Chooses(S)
  BY DEF Adding!Chooses, AnyOf
<1>2. PartlySummed(c, {}, 0)
  BY DEF PartlySummed
<1>3. ASSUME NEW s \in SUBSET S, NEW v, s # {}, PartlySummed(c, s \ {AnyOf(s)}, v)
      PROVE  PartlySummed(c, s, AddStep(c, AnyOf(s), v))
  <2> DEFINE x == AnyOf(s)
  <2>1. x \in s /\ c[x] \in Nat /\ \A y \in s : y = x \/ y \in s \ {x}
    BY <1>3 DEF AnyOf
  <2> HIDE DEF x
  <2>2. v \in Nat /\ \A y \in s \ {x} : v >= c[y] /\ c[y] \in Nat
    BY <1>3 DEF PartlySummed, x
  <2>3. c[x] + v \in Nat /\ \A y \in s : c[x] + v >= c[y]
    BY <2>1, <2>2
  <2> QED BY <2>3 DEF PartlySummed, AddStep, x
<1>4. PartlySummed(c, S, Adding!Fold(c, 0, S))
  BY <1>1, <1>2, <1>3, Adding!FoldInduction DEF Adding!IsFiniteSet, IsFiniteSet
<1>5. Total(c) = Adding!Fold(c, 0, S)
  BY DEF Total, Seqs!SumFunction, Seqs!SumFunctionOnSet, Seqs!FoldFunctionOnSet, Seqs!MapThenFoldSet,
     Adding!Fold, AddStep, AnyOf
<1> QED BY <1>4, <1>5 DEF PartlySummed

-----------------------------------------------------------------------------
(* Rankings *)

TotalOn(R, S) ==
    /\ \A x \in S : <<x, x>> \notin R
    /\ \A x, y \in S : x # y => <<x, y>> \in R \/ <<y, x>> \in R
    /\ \A x, y, z \in S : <<x, y>> \in R /\ <<y, z>> \in R => <<x, z>> \in R

RankedBy(S, R) ==
    [i \in 1 .. Cardinality(S) |-> CHOOSE x \in S : Cardinality({y \in S : <<y, x>> \in R}) = i - 1]

\* r lists the elements of S, each once.
Lists(r, S) ==
    /\ r \in Seq(S) /\ Len(r) = Cardinality(S) /\ Elements(r) = S
    /\ \A i, j \in DOMAIN r : i # j => r[i] # r[j]

LEMMA RankingLists ==
    ASSUME NEW S, IsFiniteSet(S), NEW R, TotalOn(R, S)
    PROVE  /\ Lists(RankedBy(S, R), S)
           /\ \A i, j \in DOMAIN RankedBy(S, R) : i < j => <<RankedBy(S, R)[i], RankedBy(S, R)[j]>> \in R
<1> DEFINE r == RankedBy(S, R)
<1>0. LET q == Adding!RankedBy(S, R) IN
      /\ DOMAIN q = 1 .. Adding!Cardinality(S) /\ Adding!Elements(q) = S
      /\ \A i, j \in DOMAIN q : i < j => <<q[i], q[j]>> \in R
  BY Adding!RankingIsExact DEF TotalOn, Adding!TotalOn, Adding!IsFiniteSet, IsFiniteSet
<1>1. /\ DOMAIN r = 1 .. Cardinality(S) /\ Elements(r) = S
      /\ \A i, j \in DOMAIN r : i < j => <<r[i], r[j]>> \in R
  BY <1>0 DEF RankedBy, Adding!RankedBy, Elements, Adding!Elements, Adding!Cardinality, Cardinality
<1>2. \A x \in S : <<x, x>> \notin R
  BY DEF TotalOn
<1>3. r = [i \in 1 .. Cardinality(S) |-> r[i]]
  <2> DEFINE other(i) == CHOOSE x \in S : Cardinality({y \in S : <<y, x>> \in R}) = i - 1
  <2>1. r = [i \in 1 .. Cardinality(S) |-> other(i)]
    BY DEF RankedBy
  <2> HIDE DEF r, other
  <2> QED BY <2>1
<1> HIDE DEF r
<1>4. Cardinality(S) \in Nat
  BY FS_CardinalityType
<1>5. \A i \in DOMAIN r : r[i] \in S
  BY <1>1 DEF Elements
<1>6. r \in Seq(S) /\ Len(r) = Cardinality(S)
  BY <1>1, <1>3, <1>4, <1>5
<1>7. ASSUME NEW i \in DOMAIN r, NEW j \in DOMAIN r, i # j PROVE r[i] # r[j]
  <2>1. i < j \/ j < i
    BY <1>1, <1>7
  <2> QED BY <1>1, <1>2, <1>5, <2>1
<1> QED BY <1>1, <1>6, <1>7 DEF Lists, r

\* Scores are numbers, and no two elements have the same place in the map.
Places(S, score, order) ==
    /\ \A x \in S : score[x] \in Int /\ order[x] \in Int
    /\ \A x, y \in S : order[x] = order[y] => x = y

LEMMA BestLists ==
    ASSUME NEW S, IsFiniteSet(S), NEW score, NEW order, Places(S, score, order)
    PROVE  /\ Lists(Best(S, score, order), S)
           /\ \A i, j \in DOMAIN Best(S, score, order) :
                i < j => score[Best(S, score, order)[i]] >= score[Best(S, score, order)[j]]
<1> DEFINE before(y, x) == score[y] > score[x] \/ (score[y] = score[x] /\ order[y] < order[x])
           R == {p \in S \X S : before(p[1], p[2])}
           r == Best(S, score, order)
<1>1. \A x, y \in S : <<x, y>> \in R <=> before(x, y)
  OBVIOUS
<1>2. r = RankedBy(S, R)
  <2> DEFINE one(i) == CHOOSE x \in S : Cardinality({y \in S : before(y, x)}) = i - 1
             other(i) == CHOOSE x \in S : Cardinality({y \in S : <<y, x>> \in R}) = i - 1
  <2>1. \A x \in S : {y \in S : before(y, x)} = {y \in S : <<y, x>> \in R}
    BY <1>1
  <2>2. \A i \in 1 .. Cardinality(S) : one(i) = other(i)
    <3> HIDE DEF R, before
    <3> QED BY <2>1
  <2>3. r = [i \in 1 .. Cardinality(S) |-> one(i)]
    BY DEF Best, Ranked
  <2>4. RankedBy(S, R) = [i \in 1 .. Cardinality(S) |-> other(i)]
    BY DEF RankedBy
  <2> HIDE DEF one, other
  <2> QED BY <2>2, <2>3, <2>4
<1>3. TotalOn(R, S)
  <2> HIDE DEF R
  <2>1. \A x, y, z \in S : before(x, y) /\ before(y, z) => before(x, z)
    BY DEF Places
  <2>2. \A x, y \in S : x # y => before(x, y) \/ before(y, x)
    BY DEF Places
  <2>3. \A x \in S : ~before(x, x)
    BY DEF Places
  <2> QED BY <1>1, <2>1, <2>2, <2>3 DEF TotalOn
<1> HIDE DEF R
<1>4. Lists(r, S) /\ \A i, j \in DOMAIN r : i < j => <<r[i], r[j]>> \in R
  BY <1>2, <1>3, RankingLists
<1>5. \A x, y \in S : <<x, y>> \in R => score[x] >= score[y]
  BY <1>1 DEF Places
<1> HIDE DEF r
<1>6. \A i \in DOMAIN r : r[i] \in S
  BY <1>4 DEF Lists, Elements
<1>7. \A i, j \in DOMAIN r : i < j => score[r[i]] >= score[r[j]]
  BY <1>4, <1>5, <1>6
<1> QED BY <1>4, <1>7 DEF r

LEMMA TakeIsHead ==
    ASSUME NEW E, NEW s \in Seq(E), NEW n \in Nat
    PROVE  /\ Take(s, n) \in Seq(E)
           /\ Len(Take(s, n)) = (IF n <= Len(s) THEN n ELSE Len(s))
           /\ DOMAIN Take(s, n) = 1 .. Len(Take(s, n))
           /\ \A i \in DOMAIN Take(s, n) : i \in DOMAIN s /\ Take(s, n)[i] = s[i]
           /\ Elements(Take(s, n)) \subseteq Elements(s)
<1>1. Min({n, Len(s)}) = IF n <= Len(s) THEN n ELSE Len(s)
  BY DEF Min
<1> DEFINE m == IF n <= Len(s) THEN n ELSE Len(s)
<1>4. Take(s, n) = SubSeq(s, 1, m)
  BY <1>1 DEF Take
<1>2. m \in Nat /\ m <= Len(s) /\ Take(s, n) = SubSeq(s, 1, m)
  BY <1>4
<1> HIDE DEF m
<1>3. Len(Take(s, n)) = m
  BY <1>2
<1>5. \A i \in DOMAIN Take(s, n) : i \in DOMAIN s /\ Take(s, n)[i] = s[i]
  BY <1>2, <1>3
<1>6. Elements(Take(s, n)) \subseteq Elements(s)
  BY <1>5 DEF Elements
<1> QED BY <1>2, <1>3, <1>5, <1>6 DEF m

\* A finite set of numbers has a greatest.
LEMMA MaxIsIn ==
    ASSUME NEW S \in SUBSET Int, IsFiniteSet(S), S # {}
    PROVE  Max(S) \in S /\ \A y \in S : Max(S) >= y
<1> DEFINE w == [x \in S |-> x]
           r == Best(S, w, w)
<1>1. Places(S, w, w)
  BY DEF Places
<1>2. Lists(r, S) /\ \A i, j \in DOMAIN r : i < j => w[r[i]] >= w[r[j]]
  <2> HIDE DEF w
  <2> QED BY <1>1, BestLists
<1> HIDE DEF r
<1>3. /\ r \in Seq(S) /\ DOMAIN r = 1 .. Len(r) /\ Len(r) \in Nat
      /\ (\A i \in DOMAIN r : r[i] \in S) /\ \A x \in S : \E i \in DOMAIN r : r[i] = x
  BY <1>2 DEF Lists, Elements
<1>4. 1 \in DOMAIN r
  <2>1. PICK x \in S : TRUE
    OBVIOUS
  <2>2. PICK i \in DOMAIN r : r[i] = x
    BY <1>3, <2>1
  <2> QED BY <1>3, <2>2
<1>5. ASSUME NEW y \in S PROVE r[1] >= y
  <2>1. PICK i \in DOMAIN r : r[i] = y
    BY <1>3
  <2>2. i = 1 \/ 1 < i
    BY <1>3
  <2>3. 1 < i => w[r[1]] >= w[r[i]]
    BY <1>2, <1>4
  <2> QED BY <1>3, <1>4, <2>1, <2>2, <2>3
<1>6. r[1] \in S
  BY <1>3, <1>4
<1> HIDE DEF w
<1> QED BY <1>5, <1>6 DEF Max

\* The order of indices.
LEMMA InOrder ==
    ASSUME NEW n \in Nat, NEW I \in SUBSET (1 .. n)
    PROVE  Lists(Ranked(I, LAMBDA i, j : i < j), I)
<1> DEFINE R == {p \in I \X I : p[1] < p[2]}
           r == Ranked(I, LAMBDA i, j : i < j)
<1>1. \A x, y \in I : <<x, y>> \in R <=> x < y
  OBVIOUS
<1>2. r = RankedBy(I, R)
  <2> DEFINE one(i) == CHOOSE x \in I : Cardinality({y \in I : y < x}) = i - 1
             other(i) == CHOOSE x \in I : Cardinality({y \in I : <<y, x>> \in R}) = i - 1
  <2>1. \A x \in I : {y \in I : y < x} = {y \in I : <<y, x>> \in R}
    BY <1>1
  <2>2. \A i \in 1 .. Cardinality(I) : one(i) = other(i)
    <3> HIDE DEF R
    <3> QED BY <2>1
  <2>3. r = [i \in 1 .. Cardinality(I) |-> one(i)]
    BY DEF Ranked
  <2>4. RankedBy(I, R) = [i \in 1 .. Cardinality(I) |-> other(i)]
    BY DEF RankedBy
  <2> HIDE DEF one, other
  <2> QED BY <2>2, <2>3, <2>4
<1> HIDE DEF R
<1>3. TotalOn(R, I)
  BY <1>1 DEF TotalOn
<1>4. IsFiniteSet(I)
  <2>1. IsFiniteSet(1 .. n)
    BY FS_Interval
  <2> HIDE DEF r, R
  <2> QED BY <2>1, FS_Subset
<1> QED BY <1>2, <1>3, <1>4, RankingLists

LEMMA WithinIsPart ==
    ASSUME NEW E, NEW s \in Seq(E), NEW T
    PROVE  /\ Within(s, T) \in Seq(E)
           /\ Elements(Within(s, T)) = Elements(s) \cap T
           /\ (\A i, j \in DOMAIN s : i # j => s[i] # s[j])
                => \A i, j \in DOMAIN Within(s, T) : i # j => Within(s, T)[i] # Within(s, T)[j]
<1> DEFINE I == {i \in DOMAIN s : s[i] \in T}
           at == Ranked(I, LAMBDA i, j : i < j)
           w == Within(s, T)
<1>1. I \in SUBSET (1 .. Len(s)) /\ Len(s) \in Nat /\ DOMAIN s = 1 .. Len(s)
  OBVIOUS
<1>2. Lists(at, I)
  <2> HIDE DEF I
  <2> QED BY <1>1, InOrder
<1>3. w = [k \in DOMAIN at |-> s[at[k]]]
  BY DEF Within
<1>4. \A i \in I : i \in DOMAIN s /\ s[i] \in T /\ s[i] \in E
  OBVIOUS
<1>5. \A i \in DOMAIN s : s[i] \in T => i \in I
  OBVIOUS
<1> HIDE DEF at, w, I
<1>6. /\ at \in Seq(I) /\ DOMAIN at = 1 .. Len(at) /\ Len(at) \in Nat /\ \A k \in DOMAIN at : at[k] \in I
      /\ \A i \in I : \E k \in DOMAIN at : at[k] = i
      /\ \A k, l \in DOMAIN at : k # l => at[k] # at[l]
  BY <1>2 DEF Lists, Elements
<1>7. DOMAIN w = DOMAIN at /\ \A k \in DOMAIN w : w[k] = s[at[k]]
  BY <1>3
<1>8. w \in Seq(E)
  BY <1>3, <1>4, <1>6
<1>9. Elements(w) = Elements(s) \cap T
  BY <1>4, <1>5, <1>6, <1>7 DEF Elements
<1>10. ASSUME \A i, j \in DOMAIN s : i # j => s[i] # s[j],
              NEW i \in DOMAIN w, NEW j \in DOMAIN w, i # j
       PROVE  w[i] # w[j]
  BY <1>4, <1>6, <1>7, <1>10
<1> QED BY <1>8, <1>9, <1>10 DEF w

\* No element appears twice in a sequence, or in any of a sequence of them.
Once(s) == \A i, j \in DOMAIN s : i # j => s[i] # s[j]

Disjoint(s) ==
    /\ \A i \in DOMAIN s : Once(s[i])
    /\ \A i, j \in DOMAIN s : i # j => Elements(s[i]) \cap Elements(s[j]) = {}

LEMMA FlattenIsExact ==
    ASSUME NEW E, NEW s \in Seq(Seq(E))
    PROVE  /\ Seqs!FlattenSeq(s) \in Seq(E)
           /\ Elements(Seqs!FlattenSeq(s)) = UNION {Elements(s[i]) : i \in DOMAIN s}
           /\ Disjoint(s) => Once(Seqs!FlattenSeq(s))
<1>1. Seqs!FlattenSeq(s) = Adding!Joined(s)
  BY DEF Seqs!FlattenSeq, Adding!Joined
<1>2. /\ Adding!Joined(s) \in Seq(E)
      /\ Adding!Elements(Adding!Joined(s)) = UNION {Adding!Elements(s[i]) : i \in DOMAIN s}
      /\ Adding!Apart(s) => Adding!Once(Adding!Joined(s))
  BY Adding!JoinedIsExact
<1>3. \A t : Adding!Elements(t) = Elements(t)
  BY DEF Elements, Adding!Elements
<1>4. \A t : Adding!Once(t) <=> Once(t)
  BY DEF Once, Adding!Once
<1>5. Disjoint(s) => Adding!Apart(s)
  BY <1>3, <1>4 DEF Disjoint, Adding!Apart
<1> QED BY <1>1, <1>2, <1>3, <1>4, <1>5
-----------------------------------------------------------------------------
(***************************************************************************)
(* Every feature of a document and of a group is a natural number.         *)
(***************************************************************************)

\* What a record, its chunks and its claims hold.
LEMMA RecordIs ==
    ASSUME NEW r \in Records
    PROVE  /\ r.text \in Seq(Nat) /\ r.date \in Nat /\ r.penalty \in Nat /\ r.group \in Nat
           /\ IsFiniteSet(r.entities) /\ IsFiniteSet(r.claims)
           /\ \A claim \in r.claims : claim.confidence \in Nat /\ IsFiniteSet(claim.tokens)
           /\ IsFiniteSet(ChunksOf(r)) /\ ChunksOf(r) # {}
           /\ \A c \in ChunksOf(r) :
                /\ c.from \in Nat /\ c.date \in Nat
                /\ IsFiniteSet(c.terms) /\ IsFiniteSet(c.heading) /\ IsFiniteSet(c.entities)
<1>1. r \in DocRecords
  BY MemoryIndexAssumption
<1>2. /\ r.text \in Seq(Nat) /\ r.date \in Nat /\ r.penalty \in Nat /\ r.group \in Nat
      /\ r.chunks \in SUBSET Chunks /\ r.claims \in SUBSET [tokens : SUBSET Nat, confidence : Nat]
  BY <1>1 DEF DocRecords
<1>3. /\ IsFiniteSet(r.chunks) /\ IsFiniteSet(r.claims)
      /\ IsFiniteSet(r.terms) /\ IsFiniteSet(r.heading) /\ IsFiniteSet(r.entities)
      /\ \A c \in r.chunks : IsFiniteSet(c.terms) /\ IsFiniteSet(c.heading) /\ IsFiniteSet(c.entities)
      /\ \A claim \in r.claims : IsFiniteSet(claim.tokens)
  BY ChunksAssumption, ListsAssumption
<1>4. \A claim \in r.claims : claim.confidence \in Nat
  BY <1>2
<1>5. CASE r.chunks # {}
  <2>1. ChunksOf(r) = r.chunks
    BY <1>5 DEF ChunksOf
  <2>2. \A c \in r.chunks : c.from \in Nat /\ c.date \in Nat
    BY <1>2 DEF Chunks
  <2> QED BY <1>2, <1>3, <1>4, <1>5, <2>1, <2>2
<1>6. CASE r.chunks = {}
  <2> DEFINE whole == [id |-> 0, terms |-> r.terms, heading |-> r.heading, entities |-> r.entities,
                       from |-> 1, to |-> Max({r.lines, 1}), date |-> r.date]
  <2>1. ChunksOf(r) = {whole}
    BY <1>6 DEF ChunksOf
  <2>2. /\ whole.from = 1 /\ whole.date = r.date /\ whole.terms = r.terms
        /\ whole.heading = r.heading /\ whole.entities = r.entities
    OBVIOUS
  <2> HIDE DEF whole
  <2>3. IsFiniteSet({whole})
    BY FS_Singleton
  <2> QED BY <1>2, <1>3, <1>4, <2>1, <2>2, <2>3
<1> QED BY <1>5, <1>6

LEMMA DateType == ASSUME NEW r \in Records PROVE DateOf(r) \in Nat
<1> DEFINE dated == {c \in ChunksOf(r) : c.date > 0}
           starts == {c.from : c \in dated}
           first == CHOOSE c \in dated : \A o \in dated : c.from <= o.from
<1>1. \A c \in dated : c.from \in Nat /\ c.date \in Nat
  BY RecordIs
<1>2. DateOf(r) = IF dated = {} THEN r.date ELSE first.date
  BY DEF DateOf
<1>3. CASE dated = {}
  BY <1>2, <1>3, RecordIs
<1>4. CASE dated # {}
  <2> HIDE DEF dated
  <2>1. starts \in SUBSET Nat /\ starts # {}
    BY <1>1, <1>4
  <2>2. Least(starts) \in starts /\ \A j \in starts : Least(starts) <= j
    <3> HIDE DEF starts
    <3> QED BY <2>1, LeastIsIn
  <2>3. first \in dated
    BY <2>2
  <2> QED BY <1>1, <1>2, <1>4, <2>3
<1> QED BY <1>3, <1>4

LEMMA QuestionIs ==
    ASSUME NEW q \in Questions
    PROVE  /\ q.terms \in Seq(Nat) /\ IsFiniteSet(Elements(q.terms))
           /\ q.start \in Nat /\ q.end \in Nat /\ q.window \in Nat /\ q.topK \in Nat
           /\ IsFiniteSet(ContentTerms(q)) /\ IsFiniteSet(UnitTerms(q))
<1>1. /\ q.terms \in Seq(Nat) /\ q.start \in Nat /\ q.end \in Nat /\ q.window \in Nat /\ q.topK \in Nat
  BY DEF Questions
<1>2. IsFiniteSet(Elements(q.terms))
  BY <1>1, ElementsAreFinite
<1>3. ContentTerms(q) \in SUBSET Elements(q.terms) /\ UnitTerms(q) \in SUBSET Elements(q.terms)
  BY DEF ContentTerms, UnitTerms
<1> QED BY <1>1, <1>2, <1>3, FS_Subset

LEMMA NamedAreFinite ==
    ASSUME NEW ix, NEW q \in Questions
    PROVE  IsFiniteSet(QueryEntities(ix, q))
<1>1. IsFiniteSet({q.phrase}) /\ IsFiniteSet(Elements(q.terms))
  BY FS_Singleton, QuestionIs
<1>2. IsFiniteSet({q.phrase} \cup Elements(q.terms))
  BY <1>1, FS_Union
<1>3. QueryEntities(ix, q) \in SUBSET ({q.phrase} \cup Elements(q.terms))
  BY DEF QueryEntities
<1> QED BY <1>2, <1>3, FS_Subset

LEMMA LexicalType ==
    ASSUME NEW ix, NEW q \in Questions, NEW d, ix.records[d] \in Records
    PROVE  LexicalScore(ix, q, d) \in Nat
<1> DEFINE C == ChunksOf(ix.records[d])
           T == Elements(q.terms)
           hit(t, c) == (IF t \in c.heading THEN 140 ELSE 0) + (IF t \in c.terms THEN 200 ELSE 0)
                          + (IF t \in c.entities THEN 240 ELSE 0)
           of(t) == Total([c \in C |-> hit(t, c)])
<1>1. IsFiniteSet(C) /\ IsFiniteSet(T)
  BY RecordIs, QuestionIs
<1>2. LexicalScore(ix, q, d) = Total([t \in T |-> of(t)])
  BY DEF LexicalScore, Sum
<1>3. \A t, c : hit(t, c) \in Nat
  OBVIOUS
<1> HIDE DEF C, T, hit
<1>4. ASSUME NEW t \in T PROVE of(t) \in Nat
  <2> DEFINE f == [c \in C |-> hit(t, c)]
  <2>1. f \in [C -> Nat]
    BY <1>3
  <2> HIDE DEF f
  <2>2. Total(f) \in Nat
    BY <1>1, <2>1, TotalIsNat
  <2> QED BY <2>2 DEF f
<1> HIDE DEF of
<1> DEFINE g == [t \in T |-> of(t)]
<1>5. g \in [T -> Nat]
  BY <1>4
<1> HIDE DEF g
<1>6. Total(g) \in Nat
  BY <1>1, <1>5, TotalIsNat
<1> QED BY <1>2, <1>6 DEF g

LEMMA SeedType ==
    ASSUME NEW ix, NEW q \in Questions, NEW d, ix.records[d] \in Records
    PROVE  SeedScore(ix, q, d) \in Nat
<1> DEFINE r == ix.records[d]
           text == Elements(r.text)
           terms == Cardinality(ContentTerms(q) \cap text)
           named == Cardinality(r.entities \cap QueryEntities(ix, q))
           unit == UnitTerms(q) \cap text # {}
           dated == DateOf(r) > 0
           score ==
             CASE q.intent = "count" -> terms * 240 + named * 350 + Flag(dated, 50) + Flag(r.temporal, 40)
               [] q.intent = "sum" -> terms * 200 + named * 120 + Flag(r.number, 300) + Flag(unit, 180)
                                        + Flag(dated, 40)
               [] q.intent = "sequence" -> terms * 200 + named * 120 + Flag(dated, 280)
                                             + Flag(r.temporal, 140) + Flag(r.number, 80)
               [] OTHER -> 0
<1>1. terms \in Nat /\ named \in Nat
  <2>1. IsFiniteSet(ContentTerms(q)) /\ IsFiniteSet(r.entities)
    BY RecordIs, QuestionIs
  <2>2. ContentTerms(q) \cap text \in SUBSET ContentTerms(q)
          /\ r.entities \cap QueryEntities(ix, q) \in SUBSET r.entities
    OBVIOUS
  <2> QED BY <2>1, <2>2, PartIsCounted
<1>2. SeedScore(ix, q, d) = AtMost(score, 850) \/ SeedScore(ix, q, d) = 0
  BY DEF SeedScore
<1> HIDE DEF terms, named, unit, dated
<1>3. score \in Nat
  BY <1>1 DEF Flag
<1> HIDE DEF score
<1>4. AtMost(score, 850) \in Nat
  BY <1>3, AtMostType
<1> QED BY <1>2, <1>4

LEMMA ClaimScoreType ==
    ASSUME NEW q \in Questions, NEW r \in Records
    PROVE  ClaimScore(q, r) \in Nat
<1> DEFINE matched(c) == Cardinality(c.tokens \cap Elements(q.terms))
           sure(c) == Max({c.confidence, 100})
           delta(c) == IF matched(c) = 0 THEN 0
                       ELSE (450 * matched(c) * sure(c)) \div (1000 * Cardinality(c.tokens))
                              + Flag(matched(c) >= 2, (150 * sure(c)) \div 1000)
           S == {0} \cup {delta(c) : c \in r.claims}
<1>1. ClaimScore(q, r) = Max(S)
  BY DEF ClaimScore
<1>2. ASSUME NEW c \in r.claims PROVE delta(c) \in Nat
  <2>1. c.confidence \in Nat /\ IsFiniteSet(c.tokens)
    BY RecordIs
  <2>2. matched(c) \in Nat /\ Cardinality(c.tokens) \in Nat /\ matched(c) <= Cardinality(c.tokens)
    <3>1. c.tokens \cap Elements(q.terms) \in SUBSET c.tokens
      OBVIOUS
    <3> QED BY <2>1, <3>1, FS_Subset, FS_CardinalityType
  <2>3. sure(c) \in Nat
    BY <2>1, MaxOfTwo
  <2> DEFINE m == matched(c)
             s == sure(c)
             n == Cardinality(c.tokens)
  <2>4. m \in Nat /\ n \in Nat /\ m <= n /\ s \in Nat
    BY <2>2, <2>3
  <2>5. delta(c) = IF m = 0 THEN 0
                   ELSE (450 * m * s) \div (1000 * n) + Flag(m >= 2, (150 * s) \div 1000)
    OBVIOUS
  <2> HIDE DEF m, s, n, delta
  <2>6. 450 * m * s \in Nat
    BY <2>4, ProductIsNat
  <2>7. Flag(m >= 2, (150 * s) \div 1000) \in Nat
    BY <2>4, FlagType
  <2>8. m # 0 => 1000 * n \in Nat \ {0}
    BY <2>4
  <2>9. m # 0 => (450 * m * s) \div (1000 * n) \in Nat
    BY <2>6, <2>8, QuotientIsNat
  <2> QED BY <2>5, <2>7, <2>9
<1> HIDE DEF delta
<1>3. S \in SUBSET Int /\ S # {} /\ IsFiniteSet(S) /\ S \subseteq Nat
  <2> DEFINE f == [c \in r.claims |-> delta(c)]
  <2>1. IsFiniteSet({f[c] : c \in r.claims})
    <3> HIDE DEF f
    <3> QED BY RecordIs, ImageIsFinite
  <2>2. {f[c] : c \in r.claims} = {delta(c) : c \in r.claims}
    OBVIOUS
  <2>3. IsFiniteSet(S)
    BY <2>1, <2>2, FS_Singleton, FS_Union
  <2> QED BY <1>2, <2>3
<1> HIDE DEF S
<1>4. Max(S) \in S
  BY <1>3, MaxIsIn
<1> QED BY <1>1, <1>3, <1>4

LEMMA DistanceType == ASSUME NEW a \in Int, NEW b \in Int PROVE Distance(a, b) \in Nat
BY DEF Distance

LEMMA RecencyType == ASSUME NEW date \in Int, Today \in Int PROVE Recency(date) \in Nat
<1> DEFINE age == IF date > Today THEN 0 ELSE Today - date
           n == age \div 30 + 1
           r == age % 30
<1>1. age \in Nat
  OBVIOUS
<1>2. Recency(date) = 0
        \/ (n <= 8 /\ Recency(date) = Halvings[n] - ((Halvings[n] - Halvings[n + 1]) * r) \div 30)
  BY DEF Recency
<1> HIDE DEF age
<1>3. n \in Nat /\ n >= 1 /\ r \in 0 .. 29
  BY <1>1
<1> HIDE DEF n, r
<1>4. ASSUME n <= 8 PROVE Halvings[n] - ((Halvings[n] - Halvings[n + 1]) * r) \div 30 \in Nat
  <2>1. n = 1 \/ n = 2 \/ n = 3 \/ n = 4 \/ n = 5 \/ n = 6 \/ n = 7 \/ n = 8
    BY <1>3, <1>4
  <2>2. \/ Halvings[n] = 250 /\ Halvings[n + 1] = 125
        \/ Halvings[n] = 125 /\ Halvings[n + 1] = 62
        \/ Halvings[n] = 62 /\ Halvings[n + 1] = 31
        \/ Halvings[n] = 31 /\ Halvings[n + 1] = 15
        \/ Halvings[n] = 15 /\ Halvings[n + 1] = 7
        \/ Halvings[n] = 7 /\ Halvings[n + 1] = 3
        \/ Halvings[n] = 3 /\ Halvings[n + 1] = 1
        \/ Halvings[n] = 1 /\ Halvings[n + 1] = 0
    BY <2>1 DEF Halvings
  <2> DEFINE x == Halvings[n]
             y == Halvings[n + 1]
  <2>3. x \in Nat /\ y \in Nat /\ y <= x
    BY <2>2
  <2>4. \/ x - y = 125 \/ x - y = 63 \/ x - y = 31 \/ x - y = 16 \/ x - y = 8 \/ x - y = 4
        \/ x - y = 2 \/ x - y = 1
    BY <2>2
  <2> HIDE DEF x, y
  <2>5. x - ((x - y) * r) \div 30 \in Nat
    BY <1>3, <2>3, <2>4
  <2> QED BY <2>5 DEF x, y
<1> QED BY <1>2, <1>4

LEMMA MetadataType ==
    ASSUME NEW ix, NEW q \in Questions, NEW d, ix.records[d] \in Records
    PROVE  MetadataScore(ix, q, d) \in Nat
<1> DEFINE r == ix.records[d]
           topics == Cardinality(r.topic \cap Elements(q.terms))
           types == Cardinality(r.type \cap Elements(q.terms))
           claims == Flag(ix.options.claims, ClaimScore(q, r))
           recent == Flag(q.recency, Recency(DateOf(r)))
<1>1. topics \in Nat /\ types \in Nat
  <2>1. /\ r.topic \cap Elements(q.terms) \in SUBSET Elements(q.terms)
        /\ r.type \cap Elements(q.terms) \in SUBSET Elements(q.terms)
    OBVIOUS
  <2> QED BY <2>1, QuestionIs, PartIsCounted
<1>2. claims \in Nat
  BY ClaimScoreType, FlagType
<1>3. recent \in Nat
  <2> DEFINE date == DateOf(r)
  <2>1. date \in Int /\ Today \in Int
    BY DateType, ScoringAssumption
  <2> HIDE DEF date
  <2>2. Recency(date) \in Nat
    BY <2>1, RecencyType
  <2> QED BY <2>2, FlagType DEF date
<1>4. MetadataScore(ix, q, d) = 350 * topics + 250 * types + claims + recent
  BY DEF MetadataScore
<1> HIDE DEF topics, types, claims, recent
<1> QED BY <1>1, <1>2, <1>3, <1>4

LEMMA GraphType ==
    ASSUME NEW ix, NEW S, IsFiniteSet(S), NEW score \in [S -> Nat], NEW anchors \in SUBSET S,
           NEW near, NEW d, ix.records[d] \in Records
    PROVE  GraphScore(ix, score, anchors, near, d) \in Nat
<1> DEFINE weight(a) == (1000 * score[a]) \div (1000 + score[a])
           linking == {x \in anchors : d \in ix.records[x].links}
           links == Total([a \in linking |-> (220 * weight(a)) \div 1000])
           shared == ix.records[d].entities \cap UNION {ix.records[a].entities : a \in anchors}
<1>1. GraphScore(ix, score, anchors, near, d)
        = AtMost(links, 600) + Flag(d \in near, AtMost(80 * Cardinality(shared), 600))
  BY DEF GraphScore, Sum
<1>2. IsFiniteSet(linking) /\ linking \in SUBSET S
  <2>1. linking \in SUBSET S
    OBVIOUS
  <2> HIDE DEF linking
  <2> QED BY <2>1, FS_Subset
<1>3. Cardinality(shared) \in Nat
  <2>1. shared \in SUBSET ix.records[d].entities
    OBVIOUS
  <2> HIDE DEF shared
  <2> QED BY <2>1, RecordIs, PartIsCounted
<1>4. ASSUME NEW a \in S PROVE (220 * weight(a)) \div 1000 \in Nat
  <2>1. score[a] \in Nat
    OBVIOUS
  <2>2. 1000 * score[a] \in Nat /\ 1000 + score[a] \in Nat \ {0}
    BY <2>1
  <2>3. weight(a) \in Nat
    BY <2>2, QuotientIsNat
  <2> HIDE DEF weight
  <2> QED BY <2>3
<1> DEFINE f == [a \in linking |-> (220 * weight(a)) \div 1000]
<1>5. f \in [linking -> Nat]
  <2> HIDE DEF linking, weight
  <2> QED BY <1>2, <1>4
<1>6. Total(f) \in Nat
  <2> HIDE DEF f, linking
  <2> QED BY <1>2, <1>5, TotalIsNat
<1> HIDE DEF links, shared
<1>7. links \in Nat
  BY <1>6 DEF links
<1>8. 80 * Cardinality(shared) \in Nat /\ 600 \in Nat
  BY <1>3
<1>9. AtMost(links, 600) \in Nat /\ AtMost(80 * Cardinality(shared), 600) \in Nat
  BY <1>7, <1>8, AtMostType
<1>10. Flag(d \in near, AtMost(80 * Cardinality(shared), 600)) \in Nat
  BY <1>9, FlagType
<1> QED BY <1>1, <1>9, <1>10
-----------------------------------------------------------------------------
(* The text comparisons *)

\* The table of common lengths for all i and j of a sum up to k.
Cells(m, n, k) == {p \in (0 .. m) \X (0 .. n) : p[1] + p[2] <= k}

CellOf(a, b, f, p) ==
    CASE p[1] = 0 \/ p[2] = 0 -> 0
      [] p[1] > 0 /\ p[2] > 0 /\ a[p[1]] = b[p[2]] -> f[<<p[1] - 1, p[2] - 1>>] + 1
      [] OTHER -> Max({f[<<p[1], p[2] - 1>>], f[<<p[1] - 1, p[2]>>]})

IsTable(a, b, k, f) ==
    f = [p \in Cells(Len(a), Len(b), k) |-> CellOf(a, b, f, p)]

\* A cell depends on cells of a smaller sum.
LEMMA CellsBelow ==
    ASSUME NEW m \in Nat, NEW n \in Nat, NEW k \in Nat, NEW p \in Cells(m, n, k + 1),
           p[1] # 0, p[2] # 0
    PROVE  /\ p[1] \in 1 .. m /\ p[2] \in 1 .. n
           /\ <<p[1] - 1, p[2] - 1>> \in Cells(m, n, k)
           /\ <<p[1], p[2] - 1>> \in Cells(m, n, k) /\ <<p[1] - 1, p[2]>> \in Cells(m, n, k)
<1>1. p[1] \in 0 .. m /\ p[2] \in 0 .. n /\ p[1] + p[2] <= k + 1
  BY DEF Cells
<1>2. /\ p[1] - 1 \in 0 .. m /\ p[2] - 1 \in 0 .. n
      /\ (p[1] - 1) + (p[2] - 1) <= k /\ p[1] + (p[2] - 1) <= k /\ (p[1] - 1) + p[2] <= k
  BY <1>1
<1> QED BY <1>1, <1>2 DEF Cells

\* f and g have the same values at the cells up to k.
Agree(a, b, k, f, g) == \A p \in Cells(Len(a), Len(b), k) : g[p] = f[p]

LEMMA CellsStay ==
    ASSUME NEW a \in Seq(Nat), NEW b \in Seq(Nat), NEW k \in Nat, NEW f, NEW g, Agree(a, b, k, f, g)
    PROVE  \A p \in Cells(Len(a), Len(b), k + 1) : CellOf(a, b, g, p) = CellOf(a, b, f, p)
<1> SUFFICES ASSUME NEW p \in Cells(Len(a), Len(b), k + 1)
             PROVE  CellOf(a, b, g, p) = CellOf(a, b, f, p)
  OBVIOUS
<1>0. Len(a) \in Nat /\ Len(b) \in Nat
  OBVIOUS
<1>1. CASE p[1] = 0 \/ p[2] = 0
  BY <1>1 DEF CellOf
<1>2. CASE p[1] # 0 /\ p[2] # 0
  <2>1. /\ <<p[1] - 1, p[2] - 1>> \in Cells(Len(a), Len(b), k)
        /\ <<p[1], p[2] - 1>> \in Cells(Len(a), Len(b), k)
        /\ <<p[1] - 1, p[2]>> \in Cells(Len(a), Len(b), k)
    BY <1>0, <1>2, CellsBelow
  <2>2. /\ g[<<p[1] - 1, p[2] - 1>>] = f[<<p[1] - 1, p[2] - 1>>]
        /\ g[<<p[1], p[2] - 1>>] = f[<<p[1], p[2] - 1>>]
        /\ g[<<p[1] - 1, p[2]>>] = f[<<p[1] - 1, p[2]>>]
    BY <2>1 DEF Agree
  <2> QED BY <2>2 DEF CellOf
<1> QED BY <1>1, <1>2

LEMMA TableExists ==
    ASSUME NEW a \in Seq(Nat), NEW b \in Seq(Nat), NEW k \in Nat
    PROVE  \E f : IsTable(a, b, k, f)
<1> DEFINE T == {j \in Nat : j <= k => \E f : IsTable(a, b, j, f)}
           C(j) == Cells(Len(a), Len(b), j)
<1>1. 0 \in T
  <2> DEFINE f == [p \in C(0) |-> 0]
  <2>1. ASSUME NEW p \in C(0), NEW g PROVE CellOf(a, b, g, p) = 0
    <3>1. p[1] = 0
      BY DEF Cells
    <3> QED BY <3>1 DEF CellOf
  <2>2. IsTable(a, b, 0, f)
    <3>1. f = [p \in C(0) |-> CellOf(a, b, f, p)]
      <4> HIDE DEF C
      <4> QED BY <2>1
    <3> QED BY <3>1 DEF IsTable
  <2> QED BY <2>2
<1>2. ASSUME NEW j \in Nat, j < k, j \in T PROVE j + 1 \in T
  <2>1. PICK f : IsTable(a, b, j, f)
    BY <1>2
  <2>2. f = [p \in C(j) |-> CellOf(a, b, f, p)]
    BY <2>1 DEF IsTable
  <2> DEFINE g == [p \in C(j + 1) |-> CellOf(a, b, f, p)]
  <2>3. \A p \in C(j) : p \in C(j + 1)
    BY DEF Cells
  <2>4. \A p \in C(j) : g[p] = f[p]
    <3> HIDE DEF C
    <3> QED BY <2>2, <2>3
  <2>5. \A p \in C(j + 1) : CellOf(a, b, g, p) = CellOf(a, b, f, p)
    <3> HIDE DEF g
    <3>1. Agree(a, b, j, f, g)
      BY <2>4 DEF Agree
    <3>2. j \in Nat
      OBVIOUS
    <3> HIDE DEF C
    <3>3. \A p \in Cells(Len(a), Len(b), j + 1) : CellOf(a, b, g, p) = CellOf(a, b, f, p)
      BY <3>1, <3>2, CellsStay
    <3> QED BY <3>3 DEF C
  <2>6. g = [p \in C(j + 1) |-> CellOf(a, b, g, p)]
    <3> DEFINE h == [p \in C(j + 1) |-> CellOf(a, b, g, p)]
    <3>1. \A p \in C(j + 1) : g[p] = h[p]
      BY <2>5
    <3>2. g = [p \in C(j + 1) |-> g[p]] /\ h = [p \in C(j + 1) |-> h[p]]
      OBVIOUS
    <3>3. g = h
      <4> HIDE DEF g, h, C
      <4> QED BY <3>1, <3>2
    <3> QED BY <3>3
  <2>7. IsTable(a, b, j + 1, g)
    <3> HIDE DEF g
    <3> QED BY <2>6 DEF IsTable
  <2> HIDE DEF g
  <2> QED BY <2>7
<1>3. k \in T
  <2> HIDE DEF T
  <2> QED BY <1>1, <1>2, Adding!StepsReach
<1> QED BY <1>3

LEMMA TableType ==
    ASSUME NEW a \in Seq(Nat), NEW b \in Seq(Nat), NEW k \in Nat, NEW f, IsTable(a, b, k, f)
    PROVE  \A p \in Cells(Len(a), Len(b), k) : f[p] \in Nat
<1> DEFINE C(j) == Cells(Len(a), Len(b), j)
           T == {j \in Nat : j <= k => \A p \in C(j) : f[p] \in Nat}
<1>0. Len(a) \in Nat /\ Len(b) \in Nat
  OBVIOUS
<1>1. \A j \in Nat : j <= k => \A p \in C(j) : f[p] = CellOf(a, b, f, p)
  <2>1. \A j \in Nat : j <= k => C(j) \subseteq C(k)
    BY DEF Cells
  <2> QED BY <2>1 DEF IsTable
<1>2. 0 \in T
  <2>1. \A p \in C(0) : p[1] = 0
    BY DEF Cells
  <2>2. \A p \in C(0) : CellOf(a, b, f, p) = 0
    BY <2>1 DEF CellOf
  <2> HIDE DEF C
  <2> QED BY <1>1, <2>2
<1>3. ASSUME NEW j \in Nat, j < k, j \in T PROVE j + 1 \in T
  <2> SUFFICES ASSUME NEW p \in C(j + 1) PROVE f[p] \in Nat
    OBVIOUS
  <2>1. f[p] = CellOf(a, b, f, p)
    <3> HIDE DEF C
    <3> QED BY <1>1, <1>3
  <2>2. CASE p[1] = 0 \/ p[2] = 0
    BY <2>1, <2>2 DEF CellOf
  <2>3. CASE p[1] # 0 /\ p[2] # 0
    <3>1. /\ <<p[1] - 1, p[2] - 1>> \in C(j)
          /\ <<p[1], p[2] - 1>> \in C(j) /\ <<p[1] - 1, p[2]>> \in C(j)
      BY <1>3, <2>3, <1>0, CellsBelow
    <3> DEFINE x == f[<<p[1] - 1, p[2] - 1>>]
               y == f[<<p[1], p[2] - 1>>]
               z == f[<<p[1] - 1, p[2]>>]
    <3>2. x \in Nat /\ y \in Nat /\ z \in Nat
      BY <1>3, <3>1
    <3>3. CellOf(a, b, f, p) = x + 1 \/ CellOf(a, b, f, p) = Max({y, z})
      BY <2>3 DEF CellOf
    <3> HIDE DEF x, y, z
    <3>4. Max({y, z}) \in Nat
      BY <3>2, MaxOfTwo
    <3> QED BY <2>1, <3>2, <3>3, <3>4
  <2> QED BY <2>2, <2>3
<1>4. k \in T
  <2> HIDE DEF T
  <2> QED BY <1>2, <1>3, Adding!StepsReach
<1> QED BY <1>4

LEMMA CommonLengthType ==
    ASSUME NEW a \in Seq(Nat), NEW b \in Seq(Nat)
    PROVE  CommonLength(a, b) \in Nat
<1> DEFINE m == Len(a)
           n == Len(b)
           cell == CHOOSE f : f = [p \in (0 .. m) \X (0 .. n) |-> CellOf(a, b, f, p)]
<1>1. m \in Nat /\ n \in Nat /\ m + n \in Nat
  OBVIOUS
<1>2. Cells(m, n, m + n) = (0 .. m) \X (0 .. n)
  <2> HIDE DEF m, n
  <2> QED BY <1>1 DEF Cells
<1>3. \A f : IsTable(a, b, m + n, f) <=> f = [p \in (0 .. m) \X (0 .. n) |-> CellOf(a, b, f, p)]
  BY <1>2 DEF IsTable
<1>4. \E f : IsTable(a, b, m + n, f)
  <2> DEFINE k == m + n
  <2> HIDE DEF k
  <2>1. \E f : IsTable(a, b, k, f)
    BY <1>1, TableExists DEF k
  <2> QED BY <2>1 DEF k
<1>5. IsTable(a, b, m + n, cell)
  <2> HIDE DEF m, n
  <2> QED BY <1>3, <1>4
<1>6. CommonLength(a, b) = cell[<<m, n>>]
  BY DEF CommonLength, CellOf
<1>7. <<m, n>> \in Cells(m, n, m + n)
  BY <1>1, <1>2
<1> HIDE DEF cell
<1>8. cell[<<m, n>>] \in Nat
  BY <1>1, <1>5, <1>7, TableType
<1> QED BY <1>6, <1>8

LEMMA RatiosType ==
    ASSUME NEW a \in Seq(Nat), NEW b \in Seq(Nat)
    PROVE  /\ PairRatio(a, b) \in Nat /\ LcsRatio(a, b) \in Nat /\ OverlapRatio(a, b) \in Nat
<1> DEFINE n == Len(a)
           part(x, y) == (1000 * x) \div y
           pairs == {i \in 1 .. n - 1 : <<a[i], a[i + 1]>> \in Pairs(b)}
           same == {i \in DOMAIN a : a[i] \in Elements(b)}
<1>1. n \in Nat /\ DOMAIN a = 1 .. n /\ (a # <<>> => n \in Nat \ {0})
  OBVIOUS
<1>2. PairRatio(a, b) = 0 \/ (n - 1 \in Nat \ {0} /\ PairRatio(a, b) = part(Cardinality(pairs), n - 1))
  <2>1. n < 2 => PairRatio(a, b) = 0
    BY DEF PairRatio
  <2>2. Len(b) < 2 => PairRatio(a, b) = 0
    BY DEF PairRatio
  <2>3. ~(n < 2) /\ ~(Len(b) < 2) => PairRatio(a, b) = part(Cardinality(pairs), n - 1)
    BY DEF PairRatio
  <2> HIDE DEF n, pairs
  <2>4. ~(n < 2) => n - 1 \in Nat \ {0}
    BY <1>1
  <2> QED BY <2>1, <2>2, <2>3, <2>4
<1>3. LcsRatio(a, b) = 0 \/ (n \in Nat \ {0} /\ LcsRatio(a, b) = part(CommonLength(a, b), n))
  <2>1. a = <<>> => LcsRatio(a, b) = 0
    BY DEF LcsRatio
  <2>2. a # <<>> => LcsRatio(a, b) = 0 \/ LcsRatio(a, b) = part(CommonLength(a, b), n)
    BY DEF LcsRatio
  <2> QED BY <1>1, <2>1, <2>2
<1>4. OverlapRatio(a, b) = 0 \/ (n \in Nat \ {0} /\ OverlapRatio(a, b) = part(Cardinality(same), n))
  <2>1. a = <<>> => OverlapRatio(a, b) = 0
    BY DEF OverlapRatio
  <2>2. a # <<>> => OverlapRatio(a, b) = 0 \/ OverlapRatio(a, b) = part(Cardinality(same), n)
    BY DEF OverlapRatio
  <2> QED BY <1>1, <2>1, <2>2
<1>5. Cardinality(pairs) \in Nat /\ Cardinality(same) \in Nat
  <2>1. pairs \in SUBSET (1 .. n - 1) /\ same \in SUBSET (1 .. n)
    BY <1>1
  <2>2. IsFiniteSet(1 .. n - 1) /\ IsFiniteSet(1 .. n)
    <3>1. n - 1 \in Int /\ n \in Int /\ 1 \in Int
      BY <1>1
    <3> HIDE DEF n
    <3>2. IsFiniteSet(1 .. n)
      BY <3>1, FS_Interval
    <3>3. 1 .. n - 1 \in SUBSET (1 .. n)
      BY <3>1
    <3> QED BY <3>2, <3>3, FS_Subset
  <2> HIDE DEF pairs, same
  <2> QED BY <2>1, <2>2, PartIsCounted
<1>6. CommonLength(a, b) \in Nat
  BY CommonLengthType
<1> HIDE DEF n, pairs, same
<1>7. \A x \in Nat, y \in Nat \ {0} : part(x, y) \in Nat
  BY ThousandthsAreNat
<1> HIDE DEF part
<1>8. PairRatio(a, b) \in Nat
  <2> DEFINE x == Cardinality(pairs)
             y == n - 1
  <2>1. x \in Nat /\ (PairRatio(a, b) = 0 \/ (y \in Nat \ {0} /\ PairRatio(a, b) = part(x, y)))
    BY <1>2, <1>5
  <2> HIDE DEF x, y
  <2> QED BY <2>1, <1>7
<1>9. LcsRatio(a, b) \in Nat
  BY <1>3, <1>6, <1>7
<1>10. OverlapRatio(a, b) \in Nat
  <2> DEFINE x == Cardinality(same)
  <2>1. x \in Nat /\ (OverlapRatio(a, b) = 0 \/ (n \in Nat \ {0} /\ OverlapRatio(a, b) = part(x, n)))
    BY <1>4, <1>5
  <2> HIDE DEF x
  <2> QED BY <2>1, <1>7
<1> QED BY <1>8, <1>9, <1>10

LEMMA TextType ==
    ASSUME NEW ix, NEW q \in Questions, NEW d, ix.records[d] \in Records
    PROVE  TextScore(ix, q, d) \in Nat
<1> DEFINE text == ix.records[d].text
           o == OverlapRatio(q.terms, text)
           p == PairRatio(q.terms, text)
           l == LcsRatio(q.terms, text)
<1>1. text \in Seq(Nat) /\ q.terms \in Seq(Nat)
  BY RecordIs, QuestionIs
<1>2. TextScore(ix, q, d) = (80 * o) \div 1000 + Flag(ix.options.ngram, (80 * p) \div 1000)
                              + Flag(ix.options.lcs, (50 * l) \div 1000)
  BY DEF TextScore
<1>3. o \in Nat /\ p \in Nat /\ l \in Nat
  BY <1>1, RatiosType
<1> HIDE DEF o, p, l
<1>4. (80 * o) \div 1000 \in Nat /\ (80 * p) \div 1000 \in Nat /\ (50 * l) \div 1000 \in Nat
  BY <1>3
<1> QED BY <1>2, <1>4 DEF Flag

-----------------------------------------------------------------------------
(* The scores of groups *)

LEMMA AggregateType ==
    ASSUME NEW scores \in Seq(Nat), scores # <<>>, NEW counting
    PROVE  AggregateScore(scores, counting) \in Nat
<1> DEFINE decay == IF counting THEN <<450, 280, 160, 80>> ELSE <<300, 180, 100, 50>>
           S == {i \in 1 .. 4 : i < Len(scores)}
           term(i) == (decay[i] * scores[i + 1]) \div 1000
           support == Total([i \in S |-> term(i)])
           B == {i \in 2 .. Len(scores) : scores[i] >= Max({(scores[1] * 350) \div 1000, 150})}
           backing == Cardinality(B)
<1>1. scores[1] \in Nat /\ Len(scores) \in Nat
  OBVIOUS
<1>2. ASSUME NEW i \in S PROVE term(i) \in Nat
  <2>1. scores[i + 1] \in Nat
    OBVIOUS
  <2>2. decay[i] \in Nat
    <3>1. i = 1 \/ i = 2 \/ i = 3 \/ i = 4
      OBVIOUS
    <3>2. CASE counting
      <4>1. decay = <<450, 280, 160, 80>>
        BY <3>2
      <4> QED BY <3>1, <4>1
    <3>3. CASE ~counting
      <4>1. decay = <<300, 180, 100, 50>>
        BY <3>3
      <4> QED BY <3>1, <4>1
    <3> QED BY <3>2, <3>3
  <2> DEFINE x == decay[i]
             y == scores[i + 1]
  <2> HIDE DEF x, y
  <2>3. x * y \in Nat
    BY <2>1, <2>2, ProductIsNat DEF x, y
  <2>4. (x * y) \div 1000 \in Nat
    BY <2>3, QuotientIsNat
  <2> QED BY <2>4 DEF x, y
<1>3. IsFiniteSet(S) /\ IsFiniteSet(B)
  <2>1. IsFiniteSet(1 .. 4) /\ IsFiniteSet(2 .. Len(scores))
    <3> DEFINE m == Len(scores)
    <3>1. m \in Int /\ 1 \in Int /\ 2 \in Int /\ 4 \in Int
      BY <1>1
    <3> HIDE DEF m
    <3>2. IsFiniteSet(1 .. 4) /\ IsFiniteSet(2 .. m)
      BY <3>1, FS_Interval
    <3> QED BY <3>2 DEF m
  <2>2. S \in SUBSET (1 .. 4) /\ B \in SUBSET (2 .. Len(scores))
    OBVIOUS
  <2> HIDE DEF S, B
  <2> QED BY <2>1, <2>2, FS_Subset
<1>4. AggregateScore(scores, counting)
        = (scores[1] * (IF counting THEN 750 ELSE 1000)) \div 1000 + support
            + AtMost(backing, 4) * (IF counting THEN 80 ELSE 50)
  BY DEF AggregateScore, Sum
<1> HIDE DEF S, term, B
<1>5. support \in Nat
  <2> DEFINE f == [i \in S |-> term(i)]
  <2>1. f \in [S -> Nat]
    BY <1>2
  <2> HIDE DEF f
  <2>2. Total(f) \in Nat
    BY <1>3, <2>1, TotalIsNat
  <2> QED BY <2>2 DEF f
<1>6. backing \in Nat
  BY <1>3, FS_CardinalityType
<1> HIDE DEF support, backing
<1>7. AtMost(backing, 4) \in Nat
  BY <1>6, AtMostType
<1> QED BY <1>1, <1>4, <1>5, <1>7

LEMMA MatchedIsFinite ==
    ASSUME NEW rows, IsFiniteSet(rows), NEW d, NEW part
    PROVE  IsFiniteSet(Matched(rows, d, part))
<1> DEFINE S == {x \in rows : x.doc = d /\ x.part = part /\ x.at # 0}
           f == [row \in S |-> row.term]
<1>1. IsFiniteSet(S)
  <2>1. S \in SUBSET rows
    OBVIOUS
  <2> HIDE DEF S
  <2> QED BY <2>1, FS_Subset
<1>2. Matched(rows, d, part) = {f[row] : row \in S}
  BY DEF Matched
<1> HIDE DEF S, f
<1> QED BY <1>1, <1>2, ImageIsFinite

LEMMA GroupScoreType ==
    ASSUME NEW ix, NEW q \in Questions, NEW rows, IsFiniteSet(rows), NEW S,
           NEW score \in [S -> Nat], NEW items \in Seq(S), items # <<>>
    PROVE  GroupScore(ix, q, rows, score, items) \in Nat
<1> DEFINE D == Elements(items)
           named == QueryEntities(ix, q)
           entities == UNION {Matched(rows, d, "entity") : d \in D}
           terms == UNION {Matched(rows, d, "term") \cup Matched(rows, d, "claim") : d \in D}
           exact == {d \in D : Matched(rows, d, "entity") \cap named # {}}
           backing == {d \in D : score[d] >= Max({(score[items[1]] * 350) \div 1000, 150})}
           dated == {d \in D : DateOf(ix.records[d]) > 0}
           days == {DateOf(ix.records[d]) : d \in dated}
           near == CASE Cardinality(dated) < 2 -> 0
                     [] Cardinality(dated) >= 2 /\ Max(days) - Min(days) <= 7 -> 80
                     [] Cardinality(dated) >= 2 /\ Max(days) - Min(days) \in 8 .. 30 -> 40
                     [] OTHER -> 0
           scores == [i \in DOMAIN items |-> score[items[i]]]
<1>1. IsFiniteSet(D)
  BY ElementsAreFinite
<1>2. Cardinality(exact) \in Nat /\ Cardinality(backing) \in Nat
  <2>1. exact \in SUBSET D /\ backing \in SUBSET D
    OBVIOUS
  <2> HIDE DEF exact, backing, D
  <2> QED BY <1>1, <2>1, PartIsCounted
<1>3. Cardinality(entities) \in Nat /\ Cardinality(entities \cap named) \in Nat
  <2> DEFINE f == [d \in D |-> Matched(rows, d, "entity")]
  <2>1. \A d \in D : IsFiniteSet(f[d])
    BY MatchedIsFinite
  <2>2. entities = UNION {f[d] : d \in D}
    OBVIOUS
  <2> HIDE DEF f, entities, D, named
  <2>3. IsFiniteSet(entities)
    BY <1>1, <2>1, <2>2, UnionIsFinite
  <2>4. entities \cap named \in SUBSET entities
    OBVIOUS
  <2> QED BY <2>3, <2>4, PartIsCounted, FS_CardinalityType
<1>4. Cardinality(terms) \in Nat
  <2> DEFINE f == [d \in D |-> Matched(rows, d, "term") \cup Matched(rows, d, "claim")]
  <2>1. \A d \in D : IsFiniteSet(Matched(rows, d, "term")) /\ IsFiniteSet(Matched(rows, d, "claim"))
    BY MatchedIsFinite
  <2>2. \A d \in D : IsFiniteSet(f[d])
    BY <2>1, FS_Union
  <2>3. terms = UNION {f[d] : d \in D}
    OBVIOUS
  <2> HIDE DEF f, terms, D
  <2>4. IsFiniteSet(terms)
    BY <1>1, <2>2, <2>3, UnionIsFinite
  <2> QED BY <2>4, FS_CardinalityType
<1>5. near \in Nat
  <2> HIDE DEF dated, days
  <2> QED OBVIOUS
<1>6. AggregateScore(scores, q.counting) \in Nat
  <2>1. scores \in Seq(Nat) /\ scores # <<>>
    OBVIOUS
  <2> HIDE DEF scores
  <2> QED BY <2>1, AggregateType
<1>7. GroupScore(ix, q, rows, score, items)
        = AggregateScore(scores, q.counting)
            + AtMost(Cardinality(exact), 3) * 100 + AtMost(Cardinality(entities \cap named), 3) * 80
            + AtMost(Cardinality(entities), 4) * 40 + AtMost(Cardinality(terms), 6) * 15
            + AtMost(Cardinality(backing), 4) * (IF q.counting THEN 60 ELSE 30)
            + (IF q.counting THEN (near * 3) \div 2 ELSE near)
  BY DEF GroupScore
<1> HIDE DEF D, named, entities, terms, exact, backing, near, scores
<1>8. /\ AtMost(Cardinality(exact), 3) \in Nat /\ AtMost(Cardinality(entities \cap named), 3) \in Nat
      /\ AtMost(Cardinality(entities), 4) \in Nat /\ AtMost(Cardinality(terms), 6) \in Nat
      /\ AtMost(Cardinality(backing), 4) \in Nat
  BY <1>2, <1>3, <1>4, AtMostType
<1>9. (near * 3) \div 2 \in Nat
  BY <1>5
<1> DEFINE backed == AggregateScore(scores, q.counting)
           n1 == AtMost(Cardinality(exact), 3)
           n2 == AtMost(Cardinality(entities \cap named), 3)
           n3 == AtMost(Cardinality(entities), 4)
           n4 == AtMost(Cardinality(terms), 6)
           n5 == AtMost(Cardinality(backing), 4)
           close == (near * 3) \div 2
<1>10. /\ n1 \in Nat /\ n2 \in Nat /\ n3 \in Nat /\ n4 \in Nat /\ n5 \in Nat
       /\ backed \in Nat /\ close \in Nat /\ near \in Nat
  BY <1>5, <1>6, <1>8, <1>9
<1>11. GroupScore(ix, q, rows, score, items)
         = backed + n1 * 100 + n2 * 80 + n3 * 40 + n4 * 15
             + n5 * (IF q.counting THEN 60 ELSE 30) + (IF q.counting THEN close ELSE near)
  BY <1>7
<1> HIDE DEF backed, n1, n2, n3, n4, n5, close
<1> DEFINE factor == IF q.counting THEN 60 ELSE 30
<1>12. n5 * factor \in Nat
  BY <1>10
<1> QED BY <1>10, <1>11, <1>12

LEMMA EvidenceType ==
    ASSUME NEW ix, NEW q \in Questions, NEW d, ix.records[d] \in Records
    PROVE  LET e == Evidence(ix, q, d) IN e.score \in Nat /\ e.terms \in Nat /\ e.penalty \in Nat
<1> DEFINE r == ix.records[d]
           text == Elements(r.text)
           terms == Cardinality(ContentTerms(q) \cap text)
           unit == UnitTerms(q) \cap text # {}
           time == DateOf(r) > 0 \/ r.temporal
           signal == q.intent \in r.predicates
           by(sum, sequence, count) ==
             CASE q.intent = "sum" -> sum [] q.intent = "sequence" -> sequence [] OTHER -> count
           raw == AtMost(terms, 6) * 180 + Flag(signal, 550) + Flag(time, by(120, 450, 120))
                    + Flag(r.number, by(450, 120, 80)) + Flag(unit, by(300, 160, 60)) - r.penalty
           weighed == IF ~signal /\ terms < 2 THEN raw \div 4 ELSE raw
           e == Evidence(ix, q, d)
<1>1. /\ e.terms = terms /\ e.penalty = r.penalty
      /\ e.score = 0 \/ e.score = NonNegative(weighed)
  BY DEF Evidence
<1>2. terms \in Nat
  <2>1. IsFiniteSet(ContentTerms(q))
    BY QuestionIs
  <2>2. ContentTerms(q) \cap text \in SUBSET ContentTerms(q)
    OBVIOUS
  <2> QED BY <2>1, <2>2, PartIsCounted
<1>3. r.penalty \in Nat
  BY RecordIs
<1> HIDE DEF terms, unit, time, signal, r, e
<1>4. \A x, y, z \in Nat : by(x, y, z) \in Nat
  <2> SUFFICES ASSUME NEW x \in Nat, NEW y \in Nat, NEW z \in Nat PROVE by(x, y, z) \in Nat
    OBVIOUS
  <2>1. by(x, y, z) = x \/ by(x, y, z) = y \/ by(x, y, z) = z
    OBVIOUS
  <2> QED BY <2>1
<1> HIDE DEF by
<1>5. AtMost(terms, 6) \in Nat
  BY <1>2, AtMostType
<1>6. by(120, 450, 120) \in Nat /\ by(450, 120, 80) \in Nat /\ by(300, 160, 60) \in Nat
  <2>1. /\ 120 \in Nat /\ 450 \in Nat /\ 80 \in Nat /\ 300 \in Nat /\ 160 \in Nat /\ 60 \in Nat
    OBVIOUS
  <2> QED BY <1>4, <2>1
<1>7. /\ Flag(signal, 550) \in Nat /\ Flag(time, by(120, 450, 120)) \in Nat
      /\ Flag(r.number, by(450, 120, 80)) \in Nat /\ Flag(unit, by(300, 160, 60)) \in Nat
  BY <1>6, FlagType
<1>8. raw \in Int
  BY <1>3, <1>5, <1>7
<1> HIDE DEF raw
<1>9. weighed \in Int
  BY <1>8
<1> HIDE DEF weighed
<1>10. NonNegative(weighed) \in Nat
  BY <1>9, NonNegativeType
<1>11. e.score \in Nat /\ e.terms \in Nat /\ e.penalty \in Nat
  BY <1>1, <1>2, <1>3, <1>10
<1> QED BY <1>11 DEF e

LEMMA BoostType ==
    ASSUME NEW intent, NEW D, IsFiniteSet(D), NEW evidence, DOMAIN evidence = D,
           \A d \in D : /\ evidence[d].score \in Nat /\ evidence[d].terms \in Nat
                        /\ evidence[d].penalty \in Nat
    PROVE  EvidenceBoost(intent, evidence) \in Nat
<1> DEFINE docs == {d \in D : evidence[d].score > 0}
           total(f) == Total([d \in docs |-> evidence[d][f]])
           count(f) == Cardinality({d \in docs : evidence[d][f]})
           n == Cardinality(docs)
           shared == AtMost(total("score"), 4000) + AtMost(n, 4) * 220 + AtMost(total("terms"), 8) * 40
                       + AtMost(count("signal"), 3) * 240
           own == CASE intent = "count" -> AtMost(NonNegative(n - 1), 3) * 220
                    [] intent = "sum" -> AtMost(count("number"), 3) * 300 + AtMost(count("unit"), 3) * 180
                    [] OTHER -> AtMost(count("time"), 4) * 300 + AtMost(count("number"), 2) * 120
           loss == AtMost(total("penalty"), 1500)
<1>1. EvidenceBoost(intent, evidence) = 0 \/ EvidenceBoost(intent, evidence) = NonNegative(shared + own - loss)
  BY DEF EvidenceBoost, Sum
<1>2. IsFiniteSet(docs) /\ docs \subseteq D
  <2>1. docs \in SUBSET D
    OBVIOUS
  <2> HIDE DEF docs
  <2> QED BY <2>1, FS_Subset
<1> HIDE DEF docs
<1>3. n \in Nat
  BY <1>2, FS_CardinalityType
<1>4. ASSUME NEW f \in {"score", "terms", "penalty"} PROVE total(f) \in Nat
  <2> DEFINE g == [d \in docs |-> evidence[d][f]]
  <2>1. g \in [docs -> Nat]
    BY <1>2
  <2> HIDE DEF g
  <2>2. Total(g) \in Nat
    BY <1>2, <2>1, TotalIsNat
  <2> QED BY <2>2 DEF g
<1>5. \A f : count(f) \in Nat
  <2> SUFFICES ASSUME NEW f PROVE count(f) \in Nat
    OBVIOUS
  <2>1. {d \in docs : evidence[d][f]} \in SUBSET docs
    OBVIOUS
  <2> QED BY <1>2, <2>1, PartIsCounted
<1> HIDE DEF n, total, count
<1>12. 4000 \in Nat /\ 1500 \in Nat /\ 8 \in Nat /\ 4 \in Nat /\ 3 \in Nat /\ 2 \in Nat
  OBVIOUS
<1>13. /\ total("score") \in Nat /\ total("terms") \in Nat /\ total("penalty") \in Nat
       /\ count("signal") \in Nat /\ count("number") \in Nat /\ count("unit") \in Nat
       /\ count("time") \in Nat
  BY <1>4, <1>5
<1>6. /\ AtMost(total("score"), 4000) \in Nat /\ AtMost(n, 4) \in Nat /\ AtMost(total("terms"), 8) \in Nat
      /\ AtMost(count("signal"), 3) \in Nat /\ loss \in Nat
  <2> DEFINE a == total("score")
             b == total("terms")
             c == total("penalty")
             e == count("signal")
  <2>1. a \in Nat /\ b \in Nat /\ c \in Nat /\ e \in Nat
    BY <1>13
  <2> HIDE DEF a, b, c, e
  <2>2. \A k \in Nat : AtMost(a, k) \in Nat /\ AtMost(b, k) \in Nat /\ AtMost(c, k) \in Nat
                       /\ AtMost(e, k) \in Nat /\ AtMost(n, k) \in Nat
    BY <1>3, <2>1, AtMostType
  <2>3. /\ AtMost(a, 4000) \in Nat /\ AtMost(n, 4) \in Nat /\ AtMost(b, 8) \in Nat
        /\ AtMost(e, 3) \in Nat /\ AtMost(c, 1500) \in Nat
    BY <1>12, <2>2
  <2> QED BY <2>3 DEF a, b, c, e
<1>7. /\ AtMost(count("number"), 3) \in Nat /\ AtMost(count("unit"), 3) \in Nat
      /\ AtMost(count("time"), 4) \in Nat /\ AtMost(count("number"), 2) \in Nat
  <2> DEFINE a == count("number")
             b == count("unit")
             c == count("time")
  <2>1. a \in Nat /\ b \in Nat /\ c \in Nat
    BY <1>13
  <2> HIDE DEF a, b, c
  <2>2. \A k \in Nat : AtMost(a, k) \in Nat /\ AtMost(b, k) \in Nat /\ AtMost(c, k) \in Nat
    BY <2>1, AtMostType
  <2>3. /\ AtMost(a, 3) \in Nat /\ AtMost(b, 3) \in Nat /\ AtMost(c, 4) \in Nat
        /\ AtMost(a, 2) \in Nat
    BY <1>12, <2>2
  <2> QED BY <2>3 DEF a, b, c
<1>8. AtMost(NonNegative(n - 1), 3) \in Nat
  BY <1>3, NonNegativeType, AtMostType
<1>9. shared \in Nat
  BY <1>6
<1>10. own \in Nat
  BY <1>7, <1>8
<1> HIDE DEF shared, own, loss
<1>11. shared + own - loss \in Int
  BY <1>6, <1>9, <1>10
<1> QED BY <1>1, <1>11, NonNegativeType

LEMMA WeighedType ==
    ASSUME NEW ix, NEW q \in Questions, NEW S, \A d \in S : ix.records[d] \in Records,
           NEW items \in Seq(S), NEW plain \in Nat
    PROVE  Weighed(ix, q, items, plain) \in Nat
<1> DEFINE D == Elements(items)
           evidence == [d \in D |-> Evidence(ix, q, d)]
<1>1. IsFiniteSet(D) /\ D \subseteq S
  BY ElementsAreFinite
<1>2. DOMAIN evidence = D /\ \A d \in D : evidence[d] = Evidence(ix, q, d)
  OBVIOUS
<1>3. \A d \in D : /\ evidence[d].score \in Nat /\ evidence[d].terms \in Nat /\ evidence[d].penalty \in Nat
  <2> HIDE DEF D, evidence
  <2> QED BY <1>1, <1>2, EvidenceType
<1>4. Weighed(ix, q, items, plain) = plain
        \/ Weighed(ix, q, items, plain) = (plain * 800) \div 1000 + EvidenceBoost(q.intent, evidence)
  BY DEF Weighed
<1> HIDE DEF D, evidence
<1>5. EvidenceBoost(q.intent, evidence) \in Nat
  BY <1>1, <1>2, <1>3, BoostType
<1> QED BY <1>4, <1>5
-----------------------------------------------------------------------------
(***************************************************************************)
(* The postings of an index are finitely many, each with a score too large *)
(* for any weight of a query to round to nothing, and so are the rows a    *)
(* query gets from them.                                                   *)
(***************************************************************************)

\* No posting is scored lower than an uncertain claim.
Weights == {n \in Nat : n >= 100}

Scored(rows) == IsFiniteSet(rows) /\ \A row \in rows : row.score \in Weights

LEMMA ScoredUnion ==
    ASSUME NEW S, IsFiniteSet(S), NEW f, \A x \in S : Scored(f[x])
    PROVE  Scored(UNION {f[x] : x \in S})
<1>1. IsFiniteSet(UNION {f[x] : x \in S})
  BY UnionIsFinite DEF Scored
<1> QED BY <1>1 DEF Scored

\* Rows made of the keys of one list are finitely many.
LEMMA ScoredKeys ==
    ASSUME NEW K, IsFiniteSet(K), NEW f, \A t \in K : f[t].score \in Weights
    PROVE  Scored({f[t] : t \in K})
<1>1. IsFiniteSet({f[t] : t \in K})
  BY ImageIsFinite
<1> QED BY <1>1 DEF Scored

LEMMA ScoredBoth ==
    ASSUME NEW A, NEW B, Scored(A), Scored(B)
    PROVE  Scored(A \cup B)
<1>1. IsFiniteSet(A \cup B)
  BY FS_Union DEF Scored
<1> QED BY <1>1 DEF Scored

\* The rows of a list of keys, at one place and with one score.
LEMMA KeyRowsAreScored ==
    ASSUME NEW K, IsFiniteSet(K), NEW at, NEW n \in Weights
    PROVE  Scored({[key |-> t, at |-> at, score |-> n] : t \in K})
<1> DEFINE f == [t \in K |-> [key |-> t, at |-> at, score |-> n]]
<1>1. \A t \in K : f[t] = [key |-> t, at |-> at, score |-> n]
  OBVIOUS
<1>2. \A t \in K : f[t].score \in Weights
  BY <1>1
<1> HIDE DEF f
<1>3. Scored({f[t] : t \in K})
  BY <1>2, ScoredKeys
<1>4. {f[t] : t \in K} = {[key |-> t, at |-> at, score |-> n] : t \in K}
  BY <1>1
<1> QED BY <1>3, <1>4

LEMMA ChunkRowsAreScored ==
    ASSUME NEW r \in Records, NEW at, NEW c \in ChunksOf(r)
    PROVE  Scored(TermRows(at, c)) /\ Scored(EntityRows(at, c))
<1> DEFINE rows(K, n) == {[key |-> t, at |-> at, score |-> n] : t \in K}
<1>1. IsFiniteSet(c.terms) /\ IsFiniteSet(c.heading) /\ IsFiniteSet(c.entities)
  BY RecordIs
<1>2. 800 \in Weights /\ 400 \in Weights /\ 900 \in Weights
  BY DEF Weights
<1>3. ASSUME NEW K, IsFiniteSet(K), NEW n \in Weights PROVE Scored(rows(K, n))
  BY <1>3, KeyRowsAreScored
<1>4. /\ TermRows(at, c) = rows(c.terms, 800) \cup rows(c.heading, 400)
      /\ EntityRows(at, c) = rows(c.entities, 900)
  BY DEF TermRows, EntityRows
<1> HIDE DEF rows
<1>5. Scored(rows(c.terms, 800)) /\ Scored(rows(c.heading, 400)) /\ Scored(rows(c.entities, 900))
  BY <1>1, <1>2, <1>3
<1> QED BY <1>4, <1>5, ScoredBoth

LEMMA ClaimRowsAreScored ==
    ASSUME NEW r \in Records, NEW d
    PROVE  Scored(ClaimRows(d, r))
<1> DEFINE f == [claim \in r.claims |-> RowsOfClaim(d, claim)]
<1>1. ASSUME NEW claim \in r.claims PROVE Scored(RowsOfClaim(d, claim))
  <2> DEFINE sure == Max({claim.confidence, 100})
             g == [t \in claim.tokens |-> [key |-> t, at |-> d, score |-> sure, of |-> claim]]
  <2>1. claim.confidence \in Nat /\ IsFiniteSet(claim.tokens)
    BY RecordIs
  <2>2. sure \in Weights
    <3>1. sure = IF claim.confidence >= 100 THEN claim.confidence ELSE 100
      BY <2>1, MaxOfTwo
    <3> QED BY <2>1, <3>1 DEF Weights
  <2>3. RowsOfClaim(d, claim) = {g[t] : t \in claim.tokens}
    BY DEF RowsOfClaim
  <2> HIDE DEF sure
  <2>4. \A t \in claim.tokens : g[t].score \in Weights
    BY <2>2
  <2> HIDE DEF g
  <2> QED BY <2>1, <2>3, <2>4, ScoredKeys
<1>2. ClaimRows(d, r) = UNION {f[claim] : claim \in r.claims}
  BY DEF ClaimRows
<1>3. \A claim \in r.claims : Scored(f[claim])
  BY <1>1
<1>4. IsFiniteSet(r.claims)
  BY RecordIs
<1> HIDE DEF f
<1> QED BY <1>2, <1>3, <1>4, ScoredUnion

LEMMA PresentAre ==
    ASSUME NEW R \in RecordMaps
    PROVE  /\ Present(R) \subseteq Docs /\ IsFiniteSet(Present(R))
           /\ \A d \in Present(R) : R[d] \in Records
<1>1. Present(R) \in SUBSET Docs /\ \A d \in Present(R) : R[d] \in Records
  BY DEF Present, RecordMaps
<1> QED BY <1>1, FS_Subset, MemoryIndexAssumption

LEMMA AggregateIsScored ==
    ASSUME NEW R \in RecordMaps, NEW k
    PROVE  /\ Scored(AggregateOf(R, k).chunkTerms) /\ Scored(AggregateOf(R, k).chunkEntities)
           /\ Scored(AggregateOf(R, k).claims)
<1>1. ASSUME NEW f \in {"chunkTerms", "chunkEntities", "claims"}
      PROVE  Scored(AggregateOf(R, k)[f])
  <2> DEFINE own == [d \in Present(R) |-> DocState(d, R[d], k)[f]]
  <2>1. f \in Fields
    BY DEF Fields, ChunkFields, DocFields
  <2>2. AggregateOf(R, k)[f] = UNION {own[d] : d \in Present(R)}
    BY <2>1, AggregateField
  <2>3. ASSUME NEW d \in Present(R) PROVE Scored(DocState(d, R[d], k)[f])
    <3> DEFINE C == ChunksOf(R[d])
               termsOf == [c \in C |-> TermRows(ChunkId(d, c), c)]
               entitiesOf == [c \in C |-> EntityRows(ChunkId(d, c), c)]
    <3>1. R[d] \in Records /\ IsFiniteSet(C)
      BY PresentAre, RecordIs
    <3>2. /\ DocState(d, R[d], k).chunkTerms = UNION {termsOf[c] : c \in C}
          /\ DocState(d, R[d], k).chunkEntities = UNION {entitiesOf[c] : c \in C}
          /\ DocState(d, R[d], k).claims = (IF k THEN ClaimRows(d, R[d]) ELSE {})
      BY DEF DocState
    <3>3. \A c \in C : Scored(termsOf[c]) /\ Scored(entitiesOf[c])
      BY <3>1, ChunkRowsAreScored
    <3>4. Scored({})
      BY FS_EmptySet DEF Scored
    <3> HIDE DEF C, termsOf, entitiesOf
    <3>5. Scored(UNION {termsOf[c] : c \in C}) /\ Scored(UNION {entitiesOf[c] : c \in C})
      BY <3>1, <3>3, ScoredUnion
    <3>6. Scored(ClaimRows(d, R[d]))
      BY <3>1, ClaimRowsAreScored
    <3> QED BY <3>2, <3>4, <3>5, <3>6
  <2>4. \A d \in Present(R) : Scored(own[d])
    BY <2>3
  <2>5. IsFiniteSet(Present(R))
    BY PresentAre
  <2> HIDE DEF own
  <2> QED BY <2>2, <2>4, <2>5, ScoredUnion
<1> QED BY <1>1

\* Every chunk named by a row belongs to a document with a record.
LEMMA DocsOfRows ==
    ASSUME NEW R \in RecordMaps, NEW k, NEW f \in ChunkFields,
           NEW row \in AggregateOf(R, k)[f]
    PROVE  DocOf(AggregateOf(R, k).chunks, row.at) \in Present(R)
<1> DEFINE chunks == AggregateOf(R, k).chunks
<1>1. /\ chunks = UNION {DocState(d, R[d], k).chunks : d \in Present(R)}
      /\ AggregateOf(R, k)[f] = UNION {DocState(d, R[d], k)[f] : d \in Present(R)}
  BY AggregateField DEF Fields
<1>2. PICK d \in Present(R) : row \in DocState(d, R[d], k)[f]
  BY <1>1
<1>3. PICK c \in DocState(d, R[d], k).chunks : row.at = c.id
  BY <1>2, ChunkRows
<1>4. c \in chunks
  BY <1>1
<1>5. \A x \in chunks : x.doc \in Present(R)
  <2> SUFFICES ASSUME NEW x \in chunks PROVE x.doc \in Present(R)
    OBVIOUS
  <2>1. PICK e \in Present(R) : x \in DocState(e, R[e], k).chunks
    BY <1>1
  <2> QED BY <2>1, ChunkRows
<1> HIDE DEF chunks
<1>6. DocOf(chunks, row.at) \in Present(R)
  BY <1>3, <1>4, <1>5 DEF DocOf
<1> QED BY <1>6 DEF chunks

\* The postings of one key before the cap, and how they are listed.
DocsOfKey(rows, chunks, k) == {DocOf(chunks, row.at) : row \in {x \in rows : x.key = k}}

ScoreOfKey(rows, chunks, k, d) ==
    Max({row.score : row \in {x \in rows : x.key = k /\ DocOf(chunks, x.at) = d}})

RowsOfKey(rows, chunks, k) ==
    {[key |-> k, at |-> d, score |-> ScoreOfKey(rows, chunks, k, d)] : d \in DocsOfKey(rows, chunks, k)}

ListOf(S, order) == Best(S, [x \in S |-> x.score], [x \in S |-> order[x.at]])

LEMMA PostingsByKey ==
    ASSUME NEW rows, NEW chunks, NEW order
    PROVE  DocPostings(rows, chunks, order)
             = UNION {Elements(Take(ListOf(RowsOfKey(rows, chunks, k), order), MaxPostings)) :
                        k \in {row.key : row \in rows}}
BY DEF DocPostings, DocsOfKey, ScoreOfKey, RowsOfKey, ListOf

LEMMA KeyIsListed ==
    ASSUME NEW rows, Scored(rows), NEW chunks, NEW order \in Orders,
           \A row \in rows : DocOf(chunks, row.at) \in Docs, NEW k
    PROVE  /\ Scored(RowsOfKey(rows, chunks, k))
           /\ \A row \in RowsOfKey(rows, chunks, k) : row.at \in DocsOfKey(rows, chunks, k)
           /\ Cardinality(RowsOfKey(rows, chunks, k)) <= Cardinality(DocsOfKey(rows, chunks, k))
           /\ Lists(ListOf(RowsOfKey(rows, chunks, k), order), RowsOfKey(rows, chunks, k))
<1> DEFINE D == DocsOfKey(rows, chunks, k)
           S == RowsOfKey(rows, chunks, k)
           score(d) == ScoreOfKey(rows, chunks, k, d)
           f == [d \in D |-> [key |-> k, at |-> d, score |-> score(d)]]
<1>1. D \subseteq Docs
  BY DEF DocsOfKey
<1>2. ASSUME NEW d \in D PROVE score(d) \in Weights
  <2> DEFINE F == {x \in rows : x.key = k /\ DocOf(chunks, x.at) = d}
             g == [row \in F |-> row.score]
             T == {g[row] : row \in F}
  <2>1. F \in SUBSET rows /\ F # {}
    BY DEF DocsOfKey
  <2>2. score(d) = Max(T)
    BY DEF ScoreOfKey
  <2> HIDE DEF F
  <2>3. IsFiniteSet(F) /\ \A row \in F : g[row] \in Weights
    BY <2>1, FS_Subset DEF Scored
  <2>4. T \subseteq Weights /\ T \subseteq Int /\ T # {}
    BY <2>1, <2>3 DEF Weights
  <2> HIDE DEF g, score
  <2>5. IsFiniteSet(T)
    BY <2>3, ImageIsFinite
  <2> HIDE DEF T
  <2>6. Max(T) \in T
    BY <2>4, <2>5, MaxIsIn
  <2> QED BY <2>2, <2>4, <2>6
<1>3. S = {f[d] : d \in D}
  BY DEF RowsOfKey
<1> HIDE DEF score
<1>4. \A d \in D : f[d].score \in Weights /\ f[d].at = d
  BY <1>2
<1>5. IsFiniteSet(D)
  <2>1. D \in SUBSET Docs
    BY <1>1
  <2> HIDE DEF D
  <2> QED BY <2>1, FS_Subset, MemoryIndexAssumption
<1>6. DOMAIN f = D
  OBVIOUS
<1>7. f = [d \in D |-> f[d]]
  OBVIOUS
<1> HIDE DEF f, D, S
<1>8. Scored(S)
  BY <1>3, <1>4, <1>5, ScoredKeys
<1>9. \A x, y \in S : x.at \in D /\ x.at \in Docs /\ x.score \in Nat /\ (x.at = y.at => x = y)
  BY <1>1, <1>3, <1>4 DEF Weights
<1>10. Cardinality(S) <= Cardinality(D)
  <2>1. f \in Surjection(D, S)
    BY <1>3, <1>7 DEF Surjection
  <2> QED BY <1>5, <2>1, FS_Surjection
<1>11. Lists(ListOf(S, order), S)
  <2> DEFINE w == [x \in S |-> x.score]
             o == [x \in S |-> order[x.at]]
  <2>1. \A x \in S : w[x] = x.score /\ o[x] = order[x.at]
    OBVIOUS
  <2>2. \A d, e \in Docs : order[d] \in Nat /\ (order[d] = order[e] => d = e)
    BY OrdersAssumption
  <2>3. ListOf(S, order) = Best(S, w, o)
    BY DEF ListOf
  <2> HIDE DEF w, o
  <2>4. Places(S, w, o)
    BY <1>9, <2>1, <2>2 DEF Places
  <2> QED BY <1>8, <2>3, <2>4, BestLists DEF Scored
<1> QED BY <1>8, <1>9, <1>10, <1>11 DEF S, D

LEMMA PostingsAreScored ==
    ASSUME NEW rows, Scored(rows), NEW chunks, NEW order \in Orders,
           \A row \in rows : DocOf(chunks, row.at) \in Docs
    PROVE  /\ Scored(DocPostings(rows, chunks, order))
           /\ \A row \in DocPostings(rows, chunks, order) : row.at \in {DocOf(chunks, x.at) : x \in rows}
<1> DEFINE keys == {row.key : row \in rows}
           listed(k) == Elements(Take(ListOf(RowsOfKey(rows, chunks, k), order), MaxPostings))
           g == [k \in keys |-> listed(k)]
<1>1. IsFiniteSet(keys)
  <2> DEFINE f == [row \in rows |-> row.key]
  <2>1. keys = {f[row] : row \in rows}
    OBVIOUS
  <2> HIDE DEF f, keys
  <2> QED BY <2>1, ImageIsFinite DEF Scored
<1>2. ASSUME NEW k
      PROVE  Scored(listed(k)) /\ \A row \in listed(k) : row.at \in {DocOf(chunks, x.at) : x \in rows}
  <2> DEFINE S == RowsOfKey(rows, chunks, k)
             r == ListOf(S, order)
  <2>1. Scored(S) /\ Lists(r, S) /\ \A row \in S : row.at \in DocsOfKey(rows, chunks, k)
    BY KeyIsListed
  <2> HIDE DEF r, S
  <2>2. Elements(Take(r, MaxPostings)) \in SUBSET S
    BY <2>1, TakeIsHead, IndexAssumption DEF Lists
  <2>3. Scored(Elements(Take(r, MaxPostings)))
    BY <2>1, <2>2, FS_Subset DEF Scored
  <2>4. \A row \in Elements(Take(r, MaxPostings)) : row.at \in {DocOf(chunks, x.at) : x \in rows}
    BY <2>1, <2>2 DEF DocsOfKey
  <2> QED BY <2>3, <2>4 DEF r, S
<1>3. \A k \in keys : Scored(g[k]) /\ \A row \in g[k] : row.at \in {DocOf(chunks, x.at) : x \in rows}
  BY <1>2
<1>4. DocPostings(rows, chunks, order) = UNION {g[k] : k \in keys}
  BY PostingsByKey
<1> HIDE DEF g, keys
<1> QED BY <1>1, <1>3, <1>4, ScoredUnion

(* Where no key is in more documents than the cap, nothing is cut, and it   *)
(* does not matter what an unordered map puts first.                        *)
LEMMA UncutPostings ==
    ASSUME NEW rows, Scored(rows), NEW chunks, NEW order \in Orders,
           \A row \in rows : DocOf(chunks, row.at) \in Docs,
           \A k \in {row.key : row \in rows} : Cardinality(DocsOfKey(rows, chunks, k)) <= MaxPostings
    PROVE  DocPostings(rows, chunks, order)
             = UNION {RowsOfKey(rows, chunks, k) : k \in {row.key : row \in rows}}
<1> DEFINE keys == {row.key : row \in rows}
           listed(k) == Elements(Take(ListOf(RowsOfKey(rows, chunks, k), order), MaxPostings))
<1>1. ASSUME NEW k \in keys PROVE listed(k) = RowsOfKey(rows, chunks, k)
  <2> DEFINE S == RowsOfKey(rows, chunks, k)
             r == ListOf(S, order)
             n == Cardinality(DocsOfKey(rows, chunks, k))
  <2>1. Lists(r, S) /\ Cardinality(S) <= n /\ n <= MaxPostings
    BY KeyIsListed
  <2>2. Cardinality(S) \in Nat /\ n \in Nat
    <3>1. IsFiniteSet(S)
      BY KeyIsListed DEF Scored
    <3>2. DocsOfKey(rows, chunks, k) \in SUBSET Docs
      BY DEF DocsOfKey
    <3> QED BY <3>1, <3>2, FS_CardinalityType, PartIsCounted, MemoryIndexAssumption
  <2> HIDE DEF r, S, n
  <2>3. r \in Seq(S) /\ Len(r) <= MaxPostings /\ Elements(r) = S /\ MaxPostings \in Nat
    BY <2>1, <2>2, IndexAssumption DEF Lists
  <2>4. Take(r, MaxPostings) = r
    <3>1. Min({MaxPostings, Len(r)}) = Len(r)
      BY <2>3 DEF Min
    <3> QED BY <2>3, <3>1 DEF Take
  <2> QED BY <2>3, <2>4 DEF r, S
<1>2. DocPostings(rows, chunks, order) = UNION {listed(k) : k \in keys}
  BY PostingsByKey
<1> HIDE DEF listed
<1> QED BY <1>1, <1>2

\* What the scoring needs of the index it is given.
Usable(ix) ==
    /\ ix.records \in RecordMaps /\ ix.table = Present(ix.records)
    /\ \A row \in ix.terms \cup ix.entities : row.at \in ix.table
    /\ Scored(ix.terms) /\ Scored(ix.entities) /\ Scored(ix.claims)
    /\ ix.filters = UNION {{[pair |-> p, at |-> d] : p \in ix.records[d].filters} :
                             d \in ix.table \cap Present(ix.records)}

\* What a loaded index does without.
Loaded(o) == [[o EXCEPT !.claims = FALSE] EXCEPT !.ngram = FALSE, !.lcs = FALSE]

\* There is no index yet, or the one at hand is what was saved, put together
\* again in the order some unordered maps had.
BuiltInv ==
    \/ index = NoIndex /\ saved = NoIndex /\ answer = NoIndex
    \/ \E order \in Orders, o \in {options, Loaded(options)} :
         index = Assembled(saved.records, saved.core, o, order)

LEMMA AssembledTables ==
    ASSUME NEW R, NEW core, NEW o, NEW order
    PROVE  LET ix == Assembled(R, core, o, order) IN
           /\ ix.terms = DocPostings(ix.chunkTerms, ix.chunks, order)
           /\ ix.entities = DocPostings(ix.chunkEntities, ix.chunks, order)
           /\ ix.filters = UNION {{[pair |-> p, at |-> d] : p \in ix.records[d].filters} :
                                    d \in ix.table \cap Present(ix.records)}
BY DEF Assembled

\* An index put together from its own core is the same.
LEMMA AssembledAgain ==
    ASSUME NEW R, NEW core, NEW o, NEW order
    PROVE  LET ix == Assembled(R, core, o, order) IN
           ix = Assembled(R, CoreOf(ix), o, order)
<1> DEFINE ix == Assembled(R, core, o, order)
           again == CoreOf(ix)
<1>1. /\ ix.table = core.table /\ ix.chunks = core.chunks /\ ix.chunkTerms = core.chunkTerms
      /\ ix.chunkEntities = core.chunkEntities
      /\ ix.claims = IF o.claims THEN core.claims ELSE {}
  BY AssembledKeeps
<1>2. /\ again.table = core.table /\ again.chunks = core.chunks /\ again.chunkTerms = core.chunkTerms
      /\ again.chunkEntities = core.chunkEntities
      /\ again.claims = IF o.claims THEN core.claims ELSE {}
  BY <1>1 DEF CoreOf
<1> HIDE DEF again
<1>3. Assembled(R, again, o, order) = Assembled(R, core, o, order)
  <2>1. (IF o.claims THEN again.claims ELSE {}) = IF o.claims THEN core.claims ELSE {}
    BY <1>2
  <2> QED BY <1>2, <2>1 DEF Assembled
<1> QED BY <1>3 DEF again

LEMMA BuiltInvHolds == Spec => []BuiltInv
<1>1. Init => BuiltInv
  BY DEF Init, BuiltInv
<1>2. BuiltInv /\ [Next]_vars => BuiltInv'
  <2> SUFFICES ASSUME BuiltInv, [Next]_vars PROVE BuiltInv'
    OBVIOUS
  <2>1. ASSUME NEW order \in Orders, Refresh(order) PROVE BuiltInv'
    <3> DEFINE table == Present(records)
               chunks == {c \in aggregate.chunks : c.doc \in table}
               ids == {c.id : c \in chunks}
               core == [table |-> table, chunks |-> chunks,
                        chunkTerms |-> {row \in aggregate.chunkTerms : row.at \in ids},
                        chunkEntities |-> {row \in aggregate.chunkEntities : row.at \in ids},
                        claims |-> aggregate.claims]
    <3>1. index' = Assembled(records, core, options, order)
      BY <2>1 DEF Refresh, FromAggregate
    <3> HIDE DEF core
    <3>2. index' = Assembled(records, CoreOf(index'), options, order)
      BY <3>1, AssembledAgain
    <3>3. saved'.records = records /\ saved'.core = CoreOf(index') /\ options' = options
      BY <2>1 DEF Refresh
    <3>4. index' = Assembled(saved'.records, saved'.core, options', order)
      BY <3>2, <3>3
    <3> QED BY <3>4 DEF BuiltInv
  <2>2. ASSUME NEW order \in Orders, Reopen(order) PROVE BuiltInv'
    <3>1. index' = Assembled(saved.records, saved.core, Loaded(options), order)
            /\ saved' = saved /\ options' = options
      BY <2>2 DEF Reopen, LoadCore, Loaded
    <3>2. index' = Assembled(saved'.records, saved'.core, Loaded(options'), order)
      BY <3>1
    <3> HIDE DEF Loaded
    <3> QED BY <3>2 DEF BuiltInv
  <2>3. CASE UNCHANGED <<options, index, saved>> /\ (answer' = NoIndex \/ answer' = answer)
    BY <2>3 DEF BuiltInv
  <2>4. ASSUME NEW q \in Queries, NEW order \in Orders, Query(q, order) PROVE BuiltInv'
    <3>1. index # NoIndex /\ UNCHANGED <<options, index, saved>>
      BY <2>4 DEF Query
    <3> QED BY <3>1 DEF BuiltInv
  <2> QED BY <2>1, <2>2, <2>3, <2>4 DEF Next, Upsert, RemoveDocument, vars
<1> QED BY <1>1, <1>2, PTL DEF Spec

LEMMA IndexIsUsable ==
    ASSUME IndexInv, BuiltInv, index # NoIndex
    PROVE  Usable(index)
<1> DEFINE R == index.records
           k == index.options.claims
           own == AggregateOf(R, k)
<1>1. /\ R \in RecordMaps /\ index.table = Present(R)
      /\ index.chunks = own.chunks /\ index.chunkTerms = own.chunkTerms
      /\ index.chunkEntities = own.chunkEntities /\ index.claims = own.claims
  BY DEF IndexInv, IndexMatches, IsOf
<1>2. PICK order \in Orders : \E o : index = Assembled(saved.records, saved.core, o, order)
  BY DEF BuiltInv
<1>7. /\ index.terms = DocPostings(index.chunkTerms, index.chunks, order)
      /\ index.entities = DocPostings(index.chunkEntities, index.chunks, order)
      /\ index.filters = UNION {{[pair |-> p, at |-> d] : p \in index.records[d].filters} :
                                  d \in index.table \cap Present(index.records)}
  BY <1>2, AssembledTables
<1>3. Scored(own.chunkTerms) /\ Scored(own.chunkEntities) /\ Scored(own.claims)
  <2> HIDE DEF R, k
  <2> QED BY <1>1, AggregateIsScored
<1>4. /\ \A row \in own.chunkTerms : DocOf(own.chunks, row.at) \in Present(R)
      /\ \A row \in own.chunkEntities : DocOf(own.chunks, row.at) \in Present(R)
  <2> HIDE DEF R, k
  <2>1. \A f \in ChunkFields : \A row \in own[f] : DocOf(own.chunks, row.at) \in Present(R)
    BY <1>1, DocsOfRows
  <2> QED BY <2>1 DEF ChunkFields
<1> HIDE DEF own
<1>6. Present(R) \subseteq Docs
  BY <1>1, PresentAre
<1>5. /\ Scored(index.terms) /\ Scored(index.entities)
      /\ \A row \in index.terms : row.at \in {DocOf(own.chunks, x.at) : x \in own.chunkTerms}
      /\ \A row \in index.entities : row.at \in {DocOf(own.chunks, x.at) : x \in own.chunkEntities}
  BY <1>1, <1>3, <1>4, <1>6, <1>7, PostingsAreScored
<1>8. \A row \in index.terms \cup index.entities : row.at \in index.table
  BY <1>1, <1>4, <1>5
<1> QED BY <1>1, <1>3, <1>5, <1>7, <1>8 DEF Usable

-----------------------------------------------------------------------------
(* The rows of a query *)

Valued(rows) == IsFiniteSet(rows) /\ \A row \in rows : row.value \in Nat \ {0}

LEMMA ValuedUnion ==
    ASSUME NEW S, IsFiniteSet(S), NEW f, \A x \in S : Valued(f[x])
    PROVE  Valued(UNION {f[x] : x \in S})
<1>1. IsFiniteSet(UNION {f[x] : x \in S})
  BY UnionIsFinite DEF Valued
<1> QED BY <1>1 DEF Valued

LEMMA ValuedImage ==
    ASSUME NEW S, IsFiniteSet(S), NEW f, \A x \in S : f[x].value \in Nat \ {0}
    PROVE  Valued({f[x] : x \in S})
<1>1. IsFiniteSet({f[x] : x \in S})
  BY ImageIsFinite
<1> QED BY <1>1 DEF Valued

LEMMA ValuedBoth ==
    ASSUME NEW A, NEW B, Valued(A), Valued(B)
    PROVE  Valued(A \cup B)
<1>1. IsFiniteSet(A \cup B)
  BY FS_Union DEF Valued
<1> QED BY <1>1 DEF Valued

LEMMA ValuedThree ==
    ASSUME NEW A, NEW B, NEW C, Valued(A), Valued(B), Valued(C)
    PROVE  Valued(A \cup B \cup C)
<1> DEFINE D == A \cup B
<1>1. Valued(D)
  BY ValuedBoth
<1> HIDE DEF D
<1>2. Valued(D \cup C)
  BY <1>1, ValuedBoth
<1> QED BY <1>2 DEF D

LEMMA ValuedNone == Valued({})
BY FS_EmptySet DEF Valued

\* A key that only begins with a token counts for a quarter.
Shares == {n \in Nat : n >= 250}

LEMMA ProductGrows ==
    ASSUME NEW a \in Nat, NEW b \in Nat, NEW m \in Nat, NEW n \in Nat, a >= m, b >= n
    PROVE  a * b >= m * n
<1>1. PICK x \in Nat : a = m + x
  <2>1. a - m \in Nat /\ a = m + (a - m)
    OBVIOUS
  <2> QED BY <2>1
<1>2. PICK y \in Nat : b = n + y
  <2>1. b - n \in Nat /\ b = n + (b - n)
    OBVIOUS
  <2> QED BY <2>1
<1>3. a * b = m * n + m * y + x * n + x * y
  BY <1>1, <1>2
<1>4. m * n \in Nat /\ m * y \in Nat /\ x * n \in Nat /\ x * y \in Nat
  BY <1>1, <1>2, ProductIsNat
<1> QED BY <1>3, <1>4

\* No weight of a term is so small that a posting found by part of a key adds
\* nothing.
LEMMA ScaledIsWorth ==
    ASSUME NEW weight \in Nat, weight >= 350, NEW score \in Weights, NEW share \in Shares
    PROVE  /\ weight * score * share \in Nat
           /\ (weight * score * share) \div 1000000 \in Nat \ {0}
           /\ (weight * score) \div 1000 \in Nat \ {0}
<1>1. score \in Nat /\ score >= 100 /\ share \in Nat /\ share >= 250
  BY DEF Weights, Shares
<1> DEFINE n == weight * score
<1>2. n \in Nat /\ n >= 350 * 100
  BY <1>1, ProductIsNat, ProductGrows
<1>3. n >= 35000
  BY <1>2
<1> HIDE DEF n
<1> DEFINE m == n * share
<1>4. m \in Nat /\ m >= 35000 * 250
  <2>1. 35000 \in Nat /\ 250 \in Nat
    OBVIOUS
  <2> QED BY <1>1, <1>2, <1>3, <2>1, ProductIsNat, ProductGrows
<1> HIDE DEF m
<1>5. m \div 1000000 \in Nat \ {0} /\ n \div 1000 \in Nat \ {0}
  BY SMT, <1>2, <1>3, <1>4
<1> QED BY <1>4, <1>5 DEF m, n

LEMMA FoundIs ==
    ASSUME NEW rows, NEW t, NEW order
    PROVE  IsFiniteSet(Found(rows, t, order)) /\ \A f \in Found(rows, t, order) : f.share \in Shares
<1> DEFINE longer == {k \in Keys(rows) : <<k, t>> \in Extends}
           next == CHOOSE k \in longer : \A o \in longer : order[k] <= order[o]
           exact == [key |-> t, share |-> 1000]
           begun == [key |-> next, share |-> 250]
<1>1. Found(rows, t, order)
        = CASE t \in Keys(rows) -> {exact}
            [] t \notin Keys(rows) /\ longer # {} -> {begun}
            [] OTHER -> {}
  BY DEF Found
<1>2. (\A f \in {exact} : f.share \in Shares) /\ \A f \in {begun} : f.share \in Shares
  BY DEF Shares
<1> HIDE DEF exact, begun, longer
<1>3. IsFiniteSet({exact}) /\ IsFiniteSet({begun}) /\ IsFiniteSet({})
  BY FS_Singleton, FS_EmptySet
<1>4. CASE t \in Keys(rows)
  <2>1. Found(rows, t, order) = {exact}
    BY <1>1, <1>4
  <2> QED BY <1>2, <1>3, <2>1
<1>5. CASE t \notin Keys(rows) /\ longer # {}
  <2>1. Found(rows, t, order) = {begun}
    BY <1>1, <1>5
  <2> QED BY <1>2, <1>3, <2>1
<1>6. CASE t \notin Keys(rows) /\ longer = {}
  <2>1. Found(rows, t, order) = {}
    BY <1>1, <1>6
  <2> QED BY <1>3, <2>1
<1> QED BY <1>4, <1>5, <1>6

LEMMA PostingRowsAreValued ==
    ASSUME NEW ix, Usable(ix), NEW q \in Questions, IsFiniteSet(q.expanded), NEW order
    PROVE  Valued(PostingRows(ix, q, order))
<1> DEFINE named == QueryEntities(ix, q)
           scaled(row, weight, share) == (weight * row.score * share) \div 1000000
           entityRow(i, t, weight, sure, f, row) ==
             Row("entity", row.at, i, t,
                 (scaled(row, weight, f.share) * (IF t \in named THEN sure ELSE 100)) \div 100)
           termRow(i, t, weight, f, row) == Row("term", row.at, i, t, scaled(row, weight, f.share))
           claimRow(i, t, weight, row) ==
             [Row("claim", row.at, i, t, (weight * row.score) \div 1000) EXCEPT !.of = {row.of}]
           entity(i, t, weight, sure) ==
             UNION {{entityRow(i, t, weight, sure, f, row) : row \in {x \in ix.entities : x.key = f.key}} :
                      f \in Found(ix.entities, t, order)}
           term(i, t, weight) ==
             UNION {{termRow(i, t, weight, f, row) : row \in {x \in ix.terms : x.key = f.key}} :
                      f \in Found(ix.terms, t, order)}
           claim(i, t, weight) ==
             {claimRow(i, t, weight, row) : row \in {x \in ix.claims : x.key = t /\ x.at \in ix.table}}
           asked(i) == LET t == q.terms[i]
                       IN  entity(i, t, 1200, 140) \cup term(i, t, 800) \cup claim(i, t, 700)
           expanded(t) ==
             (IF t \in Keys(ix.entities) THEN entity(0, t, 450, 120) ELSE {})
               \cup (IF t \in Keys(ix.terms) THEN term(0, t, 350) ELSE {})
               \cup claim(0, t, 420)
           phrase == IF q.phrase \notin Keys(ix.entities) THEN {}
                     ELSE {Row("entity", row.at, -1, q.phrase, (1500 * row.score * 125) \div 100000) :
                             row \in {x \in ix.entities : x.key = q.phrase}}
           lexical == {Row("lexical", d, 0, 0, LexicalScore(ix, q, d)) :
                         d \in {x \in ix.table \cap Present(ix.records) :
                                  LexicalScore(ix, q, x) > 0}}
<1>1. PostingRows(ix, q, order)
        = lexical \cup phrase \cup (UNION {asked(i) : i \in DOMAIN q.terms})
            \cup UNION {expanded(t) : t \in q.expanded \ Elements(q.terms)}
  BY SMT DEF PostingRows
<1> HIDE DEF scaled, entityRow, termRow, claimRow
<1>2. Scored(ix.entities) /\ Scored(ix.terms) /\ Scored(ix.claims)
  BY DEF Usable
<1>3. \A a, b, c, d, e : Row(a, b, c, d, e).value = e
  BY DEF Row
<1>4. ASSUME NEW i, NEW t, NEW weight \in Nat, weight >= 350, NEW sure \in Nat, sure >= 100
      PROVE  Valued(entity(i, t, weight, sure))
  <2>1. ASSUME NEW f \in Found(ix.entities, t, order)
        PROVE  Valued({entityRow(i, t, weight, sure, f, row) : row \in {x \in ix.entities : x.key = f.key}})
    <3> DEFINE S == {x \in ix.entities : x.key = f.key}
               g == [row \in S |-> entityRow(i, t, weight, sure, f, row)]
               factor == IF t \in named THEN sure ELSE 100
    <3>1. S \in SUBSET ix.entities
      OBVIOUS
    <3>2. {entityRow(i, t, weight, sure, f, row) : row \in S} = {g[row] : row \in S}
      OBVIOUS
    <3>3. ASSUME NEW row \in S PROVE g[row].value \in Nat \ {0}
      <4>1. row.score \in Weights /\ f.share \in Shares /\ factor \in Nat /\ factor >= 100
        BY <1>2, <1>4, FoundIs DEF Scored
      <4>2. g[row].value = (scaled(row, weight, f.share) * factor) \div 100
        BY <1>3 DEF entityRow
      <4>3. scaled(row, weight, f.share) \in Nat \ {0}
        BY <1>4, <4>1, ScaledIsWorth DEF scaled
      <4> DEFINE n == scaled(row, weight, f.share)
      <4> HIDE DEF factor, g, n
      <4>4. n \in Nat /\ n >= 1 /\ 100 \in Nat /\ 1 \in Nat
        BY <4>3 DEF n
      <4>5. n * factor \in Nat /\ n * factor >= 1 * 100
        BY <4>1, <4>4, ProductIsNat, ProductGrows
      <4>6. (n * factor) \div 100 \in Nat \ {0}
        BY <4>5
      <4> QED BY <4>2, <4>6 DEF n
    <3>4. IsFiniteSet(S)
      <4> HIDE DEF S
      <4> QED BY <1>2, <3>1, FS_Subset DEF Scored
    <3> HIDE DEF g, S
    <3>5. Valued({entityRow(i, t, weight, sure, f, row) : row \in S})
      BY <3>2, <3>3, <3>4, ValuedImage
    <3> QED BY <3>5 DEF S
  <2> DEFINE F == Found(ix.entities, t, order)
             h == [f \in F |-> {entityRow(i, t, weight, sure, f, row) :
                                  row \in {x \in ix.entities : x.key = f.key}}]
  <2>2. IsFiniteSet(F)
    BY FoundIs
  <2>3. entity(i, t, weight, sure) = UNION {h[f] : f \in F}
    OBVIOUS
  <2>4. \A f \in F : Valued(h[f])
    BY <2>1
  <2> HIDE DEF entity, h, F
  <2> QED BY <2>2, <2>3, <2>4, ValuedUnion
<1>5. ASSUME NEW i, NEW t, NEW weight \in Nat, weight >= 350
      PROVE  Valued(term(i, t, weight))
  <2>1. ASSUME NEW f \in Found(ix.terms, t, order)
        PROVE  Valued({termRow(i, t, weight, f, row) : row \in {x \in ix.terms : x.key = f.key}})
    <3> DEFINE S == {x \in ix.terms : x.key = f.key}
               g == [row \in S |-> termRow(i, t, weight, f, row)]
    <3>1. S \in SUBSET ix.terms
      OBVIOUS
    <3>2. {termRow(i, t, weight, f, row) : row \in S} = {g[row] : row \in S}
      OBVIOUS
    <3>3. ASSUME NEW row \in S PROVE g[row].value \in Nat \ {0}
      <4>1. row.score \in Weights /\ f.share \in Shares
        BY <1>2, FoundIs DEF Scored
      <4>2. g[row].value = scaled(row, weight, f.share)
        BY <1>3 DEF termRow
      <4>3. scaled(row, weight, f.share) \in Nat \ {0}
        BY <1>5, <4>1, ScaledIsWorth DEF scaled
      <4> HIDE DEF g
      <4> QED BY <4>2, <4>3
    <3>4. IsFiniteSet(S)
      <4> HIDE DEF S
      <4> QED BY <1>2, <3>1, FS_Subset DEF Scored
    <3> HIDE DEF g, S
    <3>5. Valued({termRow(i, t, weight, f, row) : row \in S})
      BY <3>2, <3>3, <3>4, ValuedImage
    <3> QED BY <3>5 DEF S
  <2> DEFINE F == Found(ix.terms, t, order)
             h == [f \in F |-> {termRow(i, t, weight, f, row) : row \in {x \in ix.terms : x.key = f.key}}]
  <2>2. IsFiniteSet(F)
    BY FoundIs
  <2>3. term(i, t, weight) = UNION {h[f] : f \in F}
    OBVIOUS
  <2>4. \A f \in F : Valued(h[f])
    BY <2>1
  <2> HIDE DEF term, h, F
  <2> QED BY <2>2, <2>3, <2>4, ValuedUnion
<1>6. ASSUME NEW i, NEW t, NEW weight \in Nat, weight >= 350
      PROVE  Valued(claim(i, t, weight))
  <2> DEFINE S == {x \in ix.claims : x.key = t /\ x.at \in ix.table}
             g == [row \in S |-> claimRow(i, t, weight, row)]
  <2>1. S \in SUBSET ix.claims
    OBVIOUS
  <2>2. claim(i, t, weight) = {g[row] : row \in S}
    OBVIOUS
  <2>3. ASSUME NEW row \in S PROVE g[row].value \in Nat \ {0}
    <3>1. row.score \in Weights
      BY <1>2 DEF Scored
    <3>2. g[row].value = (weight * row.score) \div 1000
      BY DEF Row, claimRow
    <3>3. 250 \in Shares
      BY DEF Shares
    <3> HIDE DEF g
    <3> QED BY <1>6, <3>1, <3>2, <3>3, ScaledIsWorth
  <2>4. IsFiniteSet(S)
    <3> HIDE DEF S
    <3> QED BY <1>2, <2>1, FS_Subset DEF Scored
  <2> HIDE DEF g, S, claim
  <2> QED BY <2>2, <2>3, <2>4, ValuedImage
<1>7. Valued(phrase)
  <2> DEFINE S == {x \in ix.entities : x.key = q.phrase}
             worth(row) == (1500 * row.score * 125) \div 100000
             g == [row \in S |-> Row("entity", row.at, -1, q.phrase, worth(row))]
  <2>1. S \in SUBSET ix.entities
    OBVIOUS
  <2>2. phrase = IF q.phrase \notin Keys(ix.entities) THEN {}
                 ELSE {Row("entity", row.at, -1, q.phrase, worth(row)) : row \in S}
    OBVIOUS
  <2>3. ASSUME NEW row \in S PROVE worth(row) \in Nat \ {0}
    <3>1. row.score \in Nat /\ row.score >= 100
      BY <1>2 DEF Scored, Weights
    <3> QED BY SMT, <3>1
  <2> HIDE DEF worth, phrase
  <2>4. phrase = {} \/ phrase = {g[row] : row \in S}
    BY <2>2
  <2>5. \A row \in S : g[row].value \in Nat \ {0}
    BY <1>3, <2>3
  <2>6. IsFiniteSet(S)
    <3> HIDE DEF S
    <3> QED BY <1>2, <2>1, FS_Subset DEF Scored
  <2> HIDE DEF g, S
  <2>7. Valued({g[row] : row \in S})
    BY <2>5, <2>6, ValuedImage
  <2> QED BY <2>4, <2>7, ValuedNone
<1>8. Valued(lexical)
  <2> DEFINE S == {x \in ix.table \cap Present(ix.records) : LexicalScore(ix, q, x) > 0}
             g == [d \in S |-> Row("lexical", d, 0, 0, LexicalScore(ix, q, d))]
  <2>1. S \in SUBSET Present(ix.records)
    OBVIOUS
  <2>2. lexical = {g[d] : d \in S}
    OBVIOUS
  <2>3. IsFiniteSet(Present(ix.records)) /\ \A d \in Present(ix.records) : ix.records[d] \in Records
    BY PresentAre DEF Usable
  <2>4. ASSUME NEW d \in S PROVE g[d].value \in Nat \ {0}
    <3>1. LexicalScore(ix, q, d) \in Nat /\ LexicalScore(ix, q, d) > 0
      BY <2>3, LexicalType
    <3> QED BY <1>3, <3>1
  <2> HIDE DEF g, S, lexical
  <2>5. IsFiniteSet(S)
    BY <2>1, <2>3, FS_Subset
  <2> QED BY <2>2, <2>4, <2>5, ValuedImage
<1> HIDE DEF entity, term, claim, phrase, lexical
<1>9. Valued(UNION {asked(i) : i \in DOMAIN q.terms})
  <2> DEFINE h == [i \in DOMAIN q.terms |-> asked(i)]
  <2>1. ASSUME NEW i \in DOMAIN q.terms PROVE Valued(asked(i))
    <3> DEFINE t == q.terms[i]
    <3> HIDE DEF t
    <3>1. /\ 1200 \in Nat /\ 140 \in Nat /\ 800 \in Nat /\ 700 \in Nat
          /\ 1200 >= 350 /\ 140 >= 100 /\ 800 >= 350 /\ 700 >= 350
      OBVIOUS
    <3>2. Valued(entity(i, t, 1200, 140)) /\ Valued(term(i, t, 800)) /\ Valued(claim(i, t, 700))
      BY <1>4, <1>5, <1>6, <3>1
    <3>3. Valued(entity(i, t, 1200, 140) \cup term(i, t, 800) \cup claim(i, t, 700))
      BY <3>2, ValuedThree
    <3> QED BY <3>3 DEF t
  <2>2. IsFiniteSet(DOMAIN q.terms)
    <3> DEFINE n == Len(q.terms)
    <3>1. DOMAIN q.terms = 1 .. n /\ n \in Int /\ 1 \in Int
      BY QuestionIs
    <3> HIDE DEF n
    <3> QED BY <3>1, FS_Interval
  <2>3. \A i \in DOMAIN q.terms : Valued(h[i])
    BY <2>1
  <2>4. \A i \in DOMAIN q.terms : h[i] = asked(i)
    OBVIOUS
  <2> HIDE DEF asked, h
  <2>5. UNION {asked(i) : i \in DOMAIN q.terms} = UNION {h[i] : i \in DOMAIN q.terms}
    BY <2>4
  <2> QED BY <2>2, <2>3, <2>5, ValuedUnion
<1>10. Valued(UNION {expanded(t) : t \in q.expanded \ Elements(q.terms)})
  <2> DEFINE T == q.expanded \ Elements(q.terms)
             h == [t \in T |-> expanded(t)]
  <2>1. ASSUME NEW t PROVE Valued(expanded(t))
    <3>1. /\ 450 \in Nat /\ 120 \in Nat /\ 350 \in Nat /\ 420 \in Nat
          /\ 450 >= 350 /\ 120 >= 100 /\ 350 >= 350 /\ 420 >= 350
      OBVIOUS
    <3>2. Valued(entity(0, t, 450, 120)) /\ Valued(term(0, t, 350)) /\ Valued(claim(0, t, 420))
      BY <1>4, <1>5, <1>6, <3>1
    <3> DEFINE a == IF t \in Keys(ix.entities) THEN entity(0, t, 450, 120) ELSE {}
               b == IF t \in Keys(ix.terms) THEN term(0, t, 350) ELSE {}
               c == claim(0, t, 420)
    <3>3. Valued(a) /\ Valued(b) /\ Valued(c)
      BY <3>2, ValuedNone
    <3>4. expanded(t) = a \cup b \cup c
      OBVIOUS
    <3> HIDE DEF a, b, c, expanded
    <3> QED BY <3>3, <3>4, ValuedThree
  <2>2. T \in SUBSET q.expanded
    OBVIOUS
  <2>3. \A t \in T : Valued(h[t])
    BY <2>1
  <2>4. UNION {expanded(t) : t \in T} = UNION {h[t] : t \in T}
    OBVIOUS
  <2> HIDE DEF expanded, h, T
  <2>5. IsFiniteSet(T)
    BY <2>2, FS_Subset
  <2>6. Valued(UNION {expanded(t) : t \in T})
    BY <2>3, <2>4, <2>5, ValuedUnion
  <2> QED BY <2>6 DEF T
<1> HIDE DEF asked, expanded
<1> DEFINE a == UNION {asked(i) : i \in DOMAIN q.terms}
           b == UNION {expanded(t) : t \in q.expanded \ Elements(q.terms)}
<1>11. PostingRows(ix, q, order) = (lexical \cup phrase \cup a) \cup b
  BY <1>1
<1>12. Valued(a) /\ Valued(b)
  BY <1>9, <1>10
<1> HIDE DEF a, b
<1>13. Valued(lexical \cup phrase \cup a)
  BY <1>7, <1>8, <1>12, ValuedThree
<1> QED BY <1>11, <1>12, <1>13, ValuedBoth

\* A row of a query is about a document of the table.
LEMMA RowsAreOfTheTable ==
    ASSUME NEW ix, Usable(ix), NEW q, NEW order, NEW row \in PostingRows(ix, q, order)
    PROVE  row.doc \in ix.table
<1> DEFINE named == QueryEntities(ix, q)
           scaled(x, weight, share) == (weight * x.score * share) \div 1000000
           entityRow(i, t, weight, sure, f, x) ==
             Row("entity", x.at, i, t,
                 (scaled(x, weight, f.share) * (IF t \in named THEN sure ELSE 100)) \div 100)
           termRow(i, t, weight, f, x) == Row("term", x.at, i, t, scaled(x, weight, f.share))
           claimRow(i, t, weight, x) ==
             [Row("claim", x.at, i, t, (weight * x.score) \div 1000) EXCEPT !.of = {x.of}]
           entity(i, t, weight, sure) ==
             UNION {{entityRow(i, t, weight, sure, f, x) : x \in {y \in ix.entities : y.key = f.key}} :
                      f \in Found(ix.entities, t, order)}
           term(i, t, weight) ==
             UNION {{termRow(i, t, weight, f, x) : x \in {y \in ix.terms : y.key = f.key}} :
                      f \in Found(ix.terms, t, order)}
           claim(i, t, weight) ==
             {claimRow(i, t, weight, x) : x \in {y \in ix.claims : y.key = t /\ y.at \in ix.table}}
           asked(i) == LET t == q.terms[i]
                       IN  entity(i, t, 1200, 140) \cup term(i, t, 800) \cup claim(i, t, 700)
           expanded(t) ==
             (IF t \in Keys(ix.entities) THEN entity(0, t, 450, 120) ELSE {})
               \cup (IF t \in Keys(ix.terms) THEN term(0, t, 350) ELSE {})
               \cup claim(0, t, 420)
           phrase == IF q.phrase \notin Keys(ix.entities) THEN {}
                     ELSE {Row("entity", x.at, -1, q.phrase, (1500 * x.score * 125) \div 100000) :
                             x \in {y \in ix.entities : y.key = q.phrase}}
           lexical == {Row("lexical", d, 0, 0, LexicalScore(ix, q, d)) :
                         d \in {x \in ix.table \cap Present(ix.records) :
                                  LexicalScore(ix, q, x) > 0}}
<1>1. PostingRows(ix, q, order)
        = lexical \cup phrase \cup (UNION {asked(i) : i \in DOMAIN q.terms})
            \cup UNION {expanded(t) : t \in q.expanded \ Elements(q.terms)}
  BY SMT DEF PostingRows
<1>2. \A x \in ix.terms \cup ix.entities : x.at \in ix.table
  BY DEF Usable
<1>3. \A a, b, c, d, e : Row(a, b, c, d, e).doc = b
  BY DEF Row
<1> HIDE DEF scaled
<1>4. \A i, t, weight, sure : \A x \in entity(i, t, weight, sure) : x.doc \in ix.table
  BY <1>2, <1>3
<1>5. \A i, t, weight : \A x \in term(i, t, weight) : x.doc \in ix.table
  BY <1>2, <1>3
<1>6. \A i, t, weight : \A x \in claim(i, t, weight) : x.doc \in ix.table
  <2>1. \A a, b, c, d, e, g : [Row(a, b, c, d, e) EXCEPT !.of = g].doc = b
    BY DEF Row
  <2>2. \A i, t, weight, x : claimRow(i, t, weight, x).doc = x.at
    BY <2>1
  <2> HIDE DEF claimRow
  <2> QED BY <2>2
<1> HIDE DEF entity, term, claim
<1>7. \A x \in phrase : x.doc \in ix.table
  <2> DEFINE worth(x) == (1500 * x.score * 125) \div 100000
  <2>1. phrase = IF q.phrase \notin Keys(ix.entities) THEN {}
                 ELSE {Row("entity", x.at, -1, q.phrase, worth(x)) :
                         x \in {y \in ix.entities : y.key = q.phrase}}
    OBVIOUS
  <2> HIDE DEF worth, phrase
  <2> QED BY <1>2, <1>3, <2>1
<1>8. \A x \in lexical : x.doc \in ix.table
  BY <1>3
<1> HIDE DEF phrase, lexical
<1>9. \A i : \A x \in asked(i) : x.doc \in ix.table
  BY <1>4, <1>5, <1>6
<1>10. \A t : \A x \in expanded(t) : x.doc \in ix.table
  BY <1>4, <1>5, <1>6
<1> HIDE DEF asked, expanded
<1> QED BY <1>1, <1>7, <1>8, <1>9, <1>10
-----------------------------------------------------------------------------
(***************************************************************************)
(* Every pass of the scoring lists candidates and nothing else.            *)
(***************************************************************************)

Candidates(ix, rows) == {row.doc : row \in rows} \cap Present(ix.records)

LEMMA CandidatesAre ==
    ASSUME NEW ix, Usable(ix), NEW rows
    PROVE  /\ Candidates(ix, rows) \subseteq Docs /\ IsFiniteSet(Candidates(ix, rows))
           /\ \A d \in Candidates(ix, rows) : ix.records[d] \in Records
<1>1. Candidates(ix, rows) \in SUBSET Present(ix.records)
  BY DEF Candidates
<1>2. /\ Present(ix.records) \subseteq Docs /\ IsFiniteSet(Present(ix.records))
      /\ \A d \in Present(ix.records) : ix.records[d] \in Records
  BY PresentAre DEF Usable
<1> QED BY <1>1, <1>2, FS_Subset

LEMMA OrderedDocs ==
    ASSUME NEW order \in Orders, NEW S \in SUBSET Docs, NEW score \in [S -> Nat]
    PROVE  Places(S, score, order)
<1>1. \A x, y \in Docs : order[x] \in Nat /\ (order[x] = order[y] => x = y)
  BY OrdersAssumption
<1>2. \A x \in S : score[x] \in Nat
  OBVIOUS
<1> QED BY <1>1, <1>2 DEF Places

LEMMA ScoresType ==
    ASSUME NEW ix, Usable(ix), NEW q \in Questions, NEW rows, Valued(rows), NEW order \in Orders
    PROVE  Scores(ix, q, rows, order) \in [Candidates(ix, rows) -> Nat \ {0}]
<1> DEFINE docs == {row.doc : row \in rows} \cap Present(ix.records)
           sum(d) == Total([row \in {x \in rows : x.doc = d} |-> row.value])
           hybrid == [d \in docs |-> sum(d) + SeedScore(ix, q, d) + MetadataScore(ix, q, d)]
           ranking == Best(docs, hybrid, order)
           anchors == Elements(Take(ranking, 5))
           near == Elements(Take(ranking, GraphWindow))
           window == Elements(Take(ranking, AtMost(RerankWindow, FinalWindow)))
           follow == q.intent \notin {"count", "sum"}
           sequence == q.terms # <<>> /\ (q.intent = "none" \/ q.explicit)
           all(d) == hybrid[d] + Flag(follow, GraphScore(ix, hybrid, anchors, near, d))
                       + Flag(sequence /\ d \in window, TextScore(ix, q, d))
<1>1. Scores(ix, q, rows, order) = [d \in docs |-> all(d)]
  BY DEF Scores, Sum
<1>2. docs = Candidates(ix, rows)
  BY DEF Candidates
<1>3. docs \subseteq Docs /\ IsFiniteSet(docs) /\ \A d \in docs : ix.records[d] \in Records
  BY <1>2, CandidatesAre
<1> HIDE DEF docs
<1>4. ASSUME NEW d \in docs PROVE sum(d) \in Nat /\ sum(d) > 0
  <2> DEFINE S == {x \in rows : x.doc = d}
             f == [row \in S |-> row.value]
  <2>1. S \in SUBSET rows /\ S # {}
    BY DEF docs
  <2> HIDE DEF S
  <2>2. IsFiniteSet(S)
    BY <2>1, FS_Subset DEF Valued
  <2>3. f \in [S -> Nat] /\ \A row \in S : f[row] > 0
    BY <2>1 DEF Valued
  <2> HIDE DEF f
  <2>4. Total(f) \in Nat /\ \A row \in S : Total(f) >= f[row]
    BY <2>2, <2>3, TotalIsNat
  <2>5. PICK row \in S : TRUE
    BY <2>1
  <2>6. Total(f) > 0
    BY <2>3, <2>4, <2>5
  <2> QED BY <2>4, <2>6 DEF f, S
<1> HIDE DEF sum
<1>5. hybrid \in [docs -> Nat] /\ \A d \in docs : hybrid[d] > 0
  <2>1. ASSUME NEW d \in docs
        PROVE  LET h == sum(d) + SeedScore(ix, q, d) + MetadataScore(ix, q, d) IN h \in Nat /\ h > 0
    BY <1>3, <1>4, SeedType, MetadataType
  <2> QED BY <2>1
<1> HIDE DEF hybrid
<1>6. Places(docs, hybrid, order)
  BY <1>3, <1>5, OrderedDocs
<1>7. Lists(ranking, docs)
  BY <1>3, <1>6, BestLists
<1> HIDE DEF ranking
<1>8. anchors \in SUBSET docs
  <2>1. 5 \in Nat /\ ranking \in Seq(docs) /\ Elements(ranking) = docs
    BY <1>7 DEF Lists
  <2> QED BY <2>1, TakeIsHead
<1> HIDE DEF anchors, near, window, follow, sequence
<1>9. ASSUME NEW d \in docs PROVE all(d) \in Nat \ {0}
  <2>1. hybrid[d] \in Nat /\ hybrid[d] > 0
    BY <1>5
  <2>2. GraphScore(ix, hybrid, anchors, near, d) \in Nat
    BY <1>3, <1>5, <1>8, GraphType
  <2>3. TextScore(ix, q, d) \in Nat
    BY <1>3, TextType
  <2>4. /\ Flag(follow, GraphScore(ix, hybrid, anchors, near, d)) \in Nat
        /\ Flag(sequence /\ d \in window, TextScore(ix, q, d)) \in Nat
    BY <2>2, <2>3, FlagType
  <2> QED BY <2>1, <2>4
<1> HIDE DEF all
<1>10. [d \in docs |-> all(d)] \in [docs -> Nat \ {0}]
  BY <1>9
<1> QED BY <1>1, <1>2, <1>10

-----------------------------------------------------------------------------
(* Groups *)

\* items gives to every group a list of its own documents.
Groups(ix, items, S) ==
    /\ IsFiniteSet(DOMAIN items)
    /\ \A k \in DOMAIN items :
         /\ items[k] \in Seq(S) /\ items[k] # <<>>
         /\ \A d \in Elements(items[k]) : GroupKey(ix.records[d], d) = k

\* Every group of a document among them has all its own documents.
AllGrouped(ix, items, D) ==
    /\ DOMAIN items = {GroupKey(ix.records[d], d) : d \in D}
    /\ \A k \in DOMAIN items : Elements(items[k]) = {d \in D : GroupKey(ix.records[d], d) = k}

LEMMA GroupedAre ==
    ASSUME NEW ix, NEW S, NEW ranked \in Seq(S)
    PROVE  /\ Groups(ix, Grouped(ix, ranked), S)
           /\ AllGrouped(ix, Grouped(ix, ranked), Elements(ranked))
           /\ Once(ranked) => \A k \in DOMAIN Grouped(ix, ranked) : Once(Grouped(ix, ranked)[k])
<1> DEFINE key(d) == GroupKey(ix.records[d], d)
           D == Elements(ranked)
           K == {key(d) : d \in D}
           own(k) == {d \in D : key(d) = k}
           items == Grouped(ix, ranked)
<1>1. items = [k \in K |-> Within(ranked, own(k))]
  BY DEF Grouped
<1>2. IsFiniteSet(D)
  BY ElementsAreFinite
<1> HIDE DEF D, items
<1>3. IsFiniteSet(K)
  <2> DEFINE f == [d \in D |-> key(d)]
  <2>1. K = {f[d] : d \in D}
    OBVIOUS
  <2> HIDE DEF K, f
  <2> QED BY <1>2, <2>1, ImageIsFinite
<1>4. ASSUME NEW k \in K
      PROVE  /\ items[k] \in Seq(S) /\ items[k] # <<>>
             /\ Elements(items[k]) = own(k) /\ \A d \in Elements(items[k]) : key(d) = k
             /\ Once(ranked) => Once(items[k])
  <2> DEFINE w == Within(ranked, own(k))
  <2>1. items[k] = w
    BY <1>1
  <2>2. own(k) # {} /\ own(k) \subseteq D /\ \A d \in own(k) : key(d) = k
    OBVIOUS
  <2> HIDE DEF own, key
  <2>3. w \in Seq(S) /\ Elements(w) = Elements(ranked) \cap own(k)
         /\ (Once(ranked) => Once(w))
    BY WithinIsPart DEF Once
  <2> HIDE DEF w
  <2>4. Elements(w) = own(k)
    BY <2>2, <2>3 DEF D
  <2>5. w # <<>>
    BY <2>2, <2>4 DEF Elements
  <2> QED BY <2>1, <2>2, <2>3, <2>4, <2>5
<1>5. DOMAIN items = K
  BY <1>1
<1>7. AllGrouped(ix, items, D)
  BY <1>4, <1>5 DEF AllGrouped
<1> HIDE DEF K
<1>6. Groups(ix, items, S)
  BY <1>3, <1>4, <1>5 DEF Groups
<1> QED BY <1>4, <1>5, <1>6, <1>7 DEF items, D

\* The first of each group tells the groups apart.
LEMMA FirstsDiffer ==
    ASSUME NEW ix, NEW S, NEW items, Groups(ix, items, S)
    PROVE  \A k, l \in DOMAIN items :
             items[k][1] \in S /\ (items[k][1] = items[l][1] => k = l)
<1>1. ASSUME NEW k \in DOMAIN items
      PROVE  items[k][1] \in S /\ GroupKey(ix.records[items[k][1]], items[k][1]) = k
  <2>1. items[k] \in Seq(S) /\ items[k] # <<>>
    BY DEF Groups
  <2>2. 1 \in DOMAIN items[k] /\ items[k][1] \in S
    BY <2>1
  <2>3. items[k][1] \in Elements(items[k])
    BY <2>2 DEF Elements
  <2> QED BY <2>2, <2>3 DEF Groups
<1> QED BY <1>1

LEMMA SortedGroupsList ==
    ASSUME NEW ix, NEW S \in SUBSET Docs, NEW items, Groups(ix, items, S), NEW order \in Orders,
           NEW plain \in [DOMAIN items -> Nat], NEW worth \in [DOMAIN items -> Nat]
    PROVE  Lists(SortedGroups(order, items, plain, worth), DOMAIN items)
<1> DEFINE K == DOMAIN items
           place == [k \in K |-> order[items[k][1]]]
           sorted == Best(K, plain, place)
           again == [k \in K |-> CHOOSE i \in DOMAIN sorted : sorted[i] = k]
<1>1. SortedGroups(order, items, plain, worth) = Best(K, worth, again)
  BY DEF SortedGroups
<1>2. IsFiniteSet(K)
  BY DEF Groups
<1>3. \A k, l \in K : items[k][1] \in S /\ (items[k][1] = items[l][1] => k = l)
  BY FirstsDiffer
<1>4. \A d, e \in Docs : order[d] \in Nat /\ (order[d] = order[e] => d = e)
  BY OrdersAssumption
<1>5. \A k \in K : place[k] = order[items[k][1]]
  OBVIOUS
<1>6. (\A k \in K : plain[k] \in Nat) /\ \A k \in K : worth[k] \in Nat
  OBVIOUS
<1> HIDE DEF K, place
<1>7. Places(K, plain, place)
  BY <1>3, <1>4, <1>5, <1>6 DEF Places
<1>8. Lists(sorted, K)
  BY <1>2, <1>7, BestLists
<1> HIDE DEF sorted
<1>9. \A k \in K : again[k] \in DOMAIN sorted /\ sorted[again[k]] = k
  BY <1>8 DEF Lists, Elements
<1>10. \A i \in DOMAIN sorted : i \in Int
  BY <1>8 DEF Lists
<1> HIDE DEF again
<1>11. Places(K, worth, again)
  BY <1>6, <1>9, <1>10 DEF Places
<1>12. Lists(Best(K, worth, again), K)
  BY <1>2, <1>11, BestLists
<1> QED BY <1>1, <1>12 DEF K

LEMMA TakenAre ==
    ASSUME NEW ix, NEW S, NEW groups \in Seq(Seq(S)), NEW limit \in Nat
    PROVE  Taken(groups, limit, ix) \in Seq(S)
<1> DEFINE allowed(s) == IF ix.records[s[1]].group = 0 THEN s ELSE Take(s, GroupLimit)
           parts == [i \in DOMAIN groups |-> allowed(groups[i])]
<1>1. Taken(groups, limit, ix) = Take(Seqs!FlattenSeq(parts), limit)
  BY DEF Taken
<1>2. GroupLimit \in Nat
  BY ScoringAssumption
<1>3. ASSUME NEW i \in DOMAIN groups PROVE allowed(groups[i]) \in Seq(S)
  <2>1. groups[i] \in Seq(S)
    OBVIOUS
  <2> DEFINE s == groups[i]
  <2> HIDE DEF s
  <2>2. s \in Seq(S)
    BY <2>1 DEF s
  <2>3. Take(s, GroupLimit) \in Seq(S)
    BY <1>2, <2>2, TakeIsHead
  <2>4. allowed(s) \in Seq(S)
    BY <2>2, <2>3
  <2> QED BY <2>4 DEF s
<1> HIDE DEF allowed
<1>4. parts \in Seq(Seq(S))
  <2> DEFINE E == Seq(S)
  <2>1. groups \in Seq(E) /\ \A i \in DOMAIN groups : allowed(groups[i]) \in E
    BY <1>3
  <2> HIDE DEF E
  <2> DEFINE n == Len(groups)
             g(i) == allowed(groups[i])
  <2>3. n \in Nat /\ DOMAIN groups = 1 .. n
    BY <2>1
  <2>4. \A i \in 1 .. n : g(i) \in E
    BY <2>1, <2>3
  <2>5. parts = [i \in 1 .. n |-> g(i)]
    BY <2>3
  <2> HIDE DEF n, g, parts
  <2>2. parts \in Seq(E)
    BY <2>3, <2>4, <2>5
  <2> QED BY <2>2 DEF E
<1> HIDE DEF parts
<1>5. Seqs!FlattenSeq(parts) \in Seq(S)
  BY <1>4, FlattenIsExact
<1> QED BY <1>1, <1>5, TakeIsHead

Hits(S) == [doc : S, score : Nat]

LEMMA RerankedAre ==
    ASSUME NEW ix, Usable(ix), NEW q \in Questions, NEW topK \in Nat, NEW order \in Orders,
           NEW S \in SUBSET Docs, \A d \in S : ix.records[d] \in Records,
           NEW score \in [S -> Nat], NEW items, Groups(ix, items, S),
           NEW plain \in [DOMAIN items -> Nat]
    PROVE  Reranked(ix, q, topK, order, score, items, plain) \in Seq(Hits(S))
<1> DEFINE K == DOMAIN items
           worth == [k \in K |-> Weighed(ix, q, items[k], plain[k])]
           groups == SortedGroups(order, items, plain, worth)
           lists == [i \in DOMAIN groups |-> items[groups[i]]]
           limit == AtMost(topK, Cardinality(ix.table))
           taken == Taken(lists, limit, ix)
           hits == [i \in DOMAIN taken |-> [doc |-> taken[i], score |-> score[taken[i]]]]
<1>1. Reranked(ix, q, topK, order, score, items, plain) = hits
  BY DEF Reranked
<1>2. worth \in [K -> Nat]
  <2>1. ASSUME NEW k \in K PROVE Weighed(ix, q, items[k], plain[k]) \in Nat
    <3>1. items[k] \in Seq(S) /\ plain[k] \in Nat
      BY DEF Groups
    <3> QED BY <3>1, WeighedType
  <2> QED BY <2>1
<1> HIDE DEF worth
<1>3. Lists(groups, K)
  BY <1>2, SortedGroupsList
<1> HIDE DEF groups, K
<1>4. lists \in Seq(Seq(S))
  <2> DEFINE E == Seq(S)
             n == Len(groups)
             g(i) == items[groups[i]]
  <2>1. n \in Nat /\ DOMAIN groups = 1 .. n /\ \A i \in 1 .. n : groups[i] \in K
    BY <1>3 DEF Lists
  <2>2. \A k \in K : items[k] \in E
    BY DEF Groups, K
  <2>3. lists = [i \in 1 .. n |-> g(i)]
    BY <2>1
  <2>4. \A i \in 1 .. n : g(i) \in E
    BY <2>1, <2>2
  <2> HIDE DEF E, n, g, lists
  <2>5. lists \in Seq(E)
    BY <2>1, <2>3, <2>4
  <2> QED BY <2>5 DEF E
<1>5. limit \in Nat
  <2>1. Cardinality(ix.table) \in Nat
    BY PresentAre, FS_CardinalityType DEF Usable
  <2> QED BY <2>1, AtMostType
<1> HIDE DEF lists, limit
<1>6. taken \in Seq(S)
  BY <1>4, <1>5, TakenAre
<1> HIDE DEF taken
<1>7. hits \in Seq(Hits(S))
  <2> DEFINE n == Len(taken)
             g(i) == [doc |-> taken[i], score |-> score[taken[i]]]
             H == Hits(S)
  <2>1. n \in Nat /\ DOMAIN taken = 1 .. n /\ \A i \in 1 .. n : taken[i] \in S
    BY <1>6
  <2>2. \A i \in 1 .. n : g(i) \in H
    BY <2>1 DEF Hits
  <2>3. hits = [i \in 1 .. n |-> g(i)]
    BY <2>1
  <2> HIDE DEF n, g, hits, H
  <2>4. hits \in Seq(H)
    BY <2>1, <2>2, <2>3
  <2> QED BY <2>4 DEF H
<1> QED BY <1>1, <1>7

LEMMA AnswerFromIs ==
    ASSUME NEW ix, Usable(ix), NEW q \in Questions, NEW topK \in Nat, NEW order \in Orders,
           NEW rows, Valued(rows), NEW score \in [Candidates(ix, rows) -> Nat]
    PROVE  AnswerFrom(ix, q, topK, order, rows, score) \in Seq(Hits(Candidates(ix, rows)))
<1> DEFINE S == Candidates(ix, rows)
           found == {d \in DOMAIN score : score[d] > 0}
           ranking == Best(found, score, order)
           ranked == Take(ranking, AtMost(FinalWindow, Cardinality(ix.table)))
           items == Grouped(ix, ranked)
           plain == [k \in DOMAIN items |-> GroupScore(ix, q, rows, score, items[k])]
<1>1. AnswerFrom(ix, q, topK, order, rows, score) = Reranked(ix, q, topK, order, score, items, plain)
  BY DEF AnswerFrom
<1>2. S \in SUBSET Docs /\ IsFiniteSet(S) /\ \A d \in S : ix.records[d] \in Records
  BY CandidatesAre
<1>3. found \in SUBSET S
  OBVIOUS
<1>4. Places(found, score, order)
  <2>1. Places(S, score, order)
    <3> HIDE DEF S, found
    <3>1. score \in [S -> Nat]
      BY DEF S
    <3> QED BY <1>2, <3>1, OrderedDocs
  <2> HIDE DEF S, found
  <2> QED BY <1>3, <2>1 DEF Places
<1>5. IsFiniteSet(found)
  <2> HIDE DEF S, found
  <2> QED BY <1>2, <1>3, FS_Subset
<1>6. score \in [S -> Nat]
  OBVIOUS
<1> HIDE DEF S, found
<1>7. Lists(ranking, found)
  BY <1>4, <1>5, BestLists
<1> HIDE DEF ranking
<1>8. ranking \in Seq(S)
  <2>1. ranking \in Seq(found)
    BY <1>7 DEF Lists
  <2> QED BY <1>3, <2>1
<1>9. ranked \in Seq(S)
  <2>1. Cardinality(ix.table) \in Nat
    BY PresentAre, FS_CardinalityType DEF Usable
  <2>2. AtMost(FinalWindow, Cardinality(ix.table)) \in Nat
    BY <2>1, AtMostType, ScoringAssumption
  <2> QED BY <1>8, <2>2, TakeIsHead
<1> HIDE DEF ranked
<1>10. Groups(ix, items, S)
  BY <1>9, GroupedAre
<1> HIDE DEF items
<1>11. plain \in [DOMAIN items -> Nat]
  <2>1. ASSUME NEW k \in DOMAIN items PROVE GroupScore(ix, q, rows, score, items[k]) \in Nat
    <3>1. items[k] \in Seq(S) /\ items[k] # <<>>
      BY <1>10 DEF Groups
    <3>2. IsFiniteSet(rows)
      BY DEF Valued
    <3> QED BY <1>6, <3>1, <3>2, GroupScoreType
  <2> QED BY <2>1
<1> HIDE DEF plain
<1>12. Reranked(ix, q, topK, order, score, items, plain) \in Seq(Hits(S))
  BY <1>2, <1>6, <1>10, <1>11, RerankedAre
<1> QED BY <1>1, <1>12 DEF S

LEMMA AnswerIs ==
    ASSUME NEW ix, Usable(ix), NEW q \in Questions, IsFiniteSet(q.expanded),
           NEW topK \in Nat, NEW order \in Orders
    PROVE  Answer(ix, q, topK, order) \in Seq(Hits(Candidates(ix, Scoped(ix, q, order))))
<1> DEFINE rows == Scoped(ix, q, order)
<1>1. Answer(ix, q, topK, order) = AnswerFrom(ix, q, topK, order, rows, Scores(ix, q, rows, order))
  BY DEF Answer
<1>2. Valued(rows)
  <2>1. Valued(PostingRows(ix, q, order))
    BY PostingRowsAreValued
  <2>2. rows \in SUBSET PostingRows(ix, q, order)
    BY DEF Scoped
  <2> HIDE DEF rows
  <2> QED BY <2>1, <2>2, FS_Subset DEF Valued
<1> HIDE DEF rows
<1>3. Scores(ix, q, rows, order) \in [Candidates(ix, rows) -> Nat]
  BY <1>2, ScoresType
<1>4. AnswerFrom(ix, q, topK, order, rows, Scores(ix, q, rows, order)) \in Seq(Hits(Candidates(ix, rows)))
  BY <1>2, <1>3, AnswerFromIs
<1> QED BY <1>1, <1>4 DEF rows

-----------------------------------------------------------------------------
(* The temporal caller *)

LEMMA NearnessType ==
    ASSUME NEW days \in Nat, NEW window \in Nat \ {0}, NEW weight \in Nat
    PROVE  Nearness(days, window, weight) \in Nat
<1>1. NonNegative(window - days) \in Nat
  BY NonNegativeType
<1>2. weight * NonNegative(window - days) \in Nat
  BY <1>1, ProductIsNat
<1> QED BY <1>2, QuotientIsNat DEF Nearness

LEMMA TimeScoreType ==
    ASSUME NEW q \in Questions, NEW target \in Int, NEW date \in Nat
    PROVE  TimeScore(q, target, date) \in Nat
<1> DEFINE days == Distance(date, Today)
           room == Max({q.window, 1})
           away == Distance(date, target)
           asked == q.explicit /\ target = 0 /\ q.start = 0 /\ q.end = 0
           near == Nearness(away, room, 450)
           within == target > 0 /\ InWindow(q, target, date)
<1>1. TimeScore(q, target, date) = 0
        \/ TimeScore(q, target, date)
             = Flag(InRange(q, date), 150) + Flag(within, near) + Flag(asked, HintScore(q, date))
  BY DEF TimeScore
<1>2. days \in Nat /\ away \in Nat /\ room \in Nat \ {0}
  <2>1. room \in Nat \ {0}
    BY MaxOfTwo, QuestionIs
  <2>2. Today \in Int /\ date \in Int
    BY ScoringAssumption
  <2>3. days \in Nat /\ away \in Nat
    BY <2>2, DistanceType
  <2> QED BY <2>1, <2>3
<1>3. HintScore(q, date) \in {0, Flag(date <= Today, 30), Flag(days <= 30, Nearness(days, 30, 250)),
                              Flag(days <= 14, Nearness(days, 14, 300)),
                              Flag(days <= 30, Nearness(days, 30, 150))}
  <2> DEFINE a == Flag(date <= Today, 30)
             b == Flag(days <= 30, Nearness(days, 30, 250))
             c == Flag(days <= 14, Nearness(days, 14, 300))
             d == Flag(days <= 30, Nearness(days, 30, 150))
  <2>1. HintScore(q, date) = CASE q.hint = "past" -> a [] q.hint = "present" -> b
                               [] q.hint = "ongoing" -> c [] q.hint = "mixed" -> d [] OTHER -> 0
    BY DEF HintScore
  <2> HIDE DEF a, b, c, d
  <2>2. HintScore(q, date) \in {0, a, b, c, d}
    BY <2>1
  <2> QED BY <2>2 DEF a, b, c, d
<1> HIDE DEF days, away, room, asked, within
<1>4. near \in Nat
  BY <1>2, NearnessType
<1>5. /\ Nearness(days, 30, 250) \in Nat /\ Nearness(days, 14, 300) \in Nat
      /\ Nearness(days, 30, 150) \in Nat
  <2>1. /\ 30 \in Nat \ {0} /\ 14 \in Nat \ {0}
        /\ 250 \in Nat /\ 300 \in Nat /\ 150 \in Nat
    OBVIOUS
  <2>2. \A w \in Nat \ {0} : \A k \in Nat : Nearness(days, w, k) \in Nat
    BY <1>2, NearnessType
  <2> QED BY <2>1, <2>2
<1> HIDE DEF near
<1>6. HintScore(q, date) \in Nat
  BY <1>3, <1>5, FlagType
<1>7. Flag(InRange(q, date), 150) \in Nat /\ Flag(within, near) \in Nat /\ Flag(asked, HintScore(q, date)) \in Nat
  BY <1>4, <1>6, FlagType
<1> QED BY <1>1, <1>7

LEMMA InTimeKeeps ==
    ASSUME NEW ix, NEW S, \A d \in S : ix.records[d] \in Records, NEW q \in Questions,
           NEW target \in Int, NEW found \in Seq(Hits(S))
    PROVE  LET timed == InTime(ix, q, target, found) IN
           /\ timed \in Seq(Hits(S))
           /\ \A i \in DOMAIN timed : Kept(q, target, DateOf(ix.records[timed[i].doc]))
<1> DEFINE H == Hits(S)
           date(hit) == DateOf(ix.records[hit.doc])
           fit == {hit \in Elements(found) : Kept(q, target, date(hit))}
           kept == Within(found, fit)
           next(hit) == [hit EXCEPT !.score = @ + TimeScore(q, target, date(hit))]
           moved == [i \in DOMAIN kept |-> next(kept[i])]
           scores == [i \in DOMAIN moved |-> moved[i].score]
           turn == [i \in DOMAIN moved |-> i]
           places == Best(DOMAIN moved, scores, turn)
           timed == [i \in DOMAIN places |-> moved[places[i]]]
<1>1. InTime(ix, q, target, found) = timed
  BY DEF InTime
<1>2. kept \in Seq(H) /\ Elements(kept) = Elements(found) \cap fit
  <2> HIDE DEF fit, H
  <2>1. found \in Seq(H)
    BY DEF H
  <2> QED BY <2>1, WithinIsPart
<1>3. \A hit \in fit : Kept(q, target, date(hit))
  OBVIOUS
<1>4. ASSUME NEW hit \in H PROVE next(hit) \in H /\ next(hit).doc = hit.doc
  <2>1. hit.doc \in S /\ hit.score \in Nat
    BY DEF Hits
  <2>2. date(hit) \in Nat
    BY <2>1, DateType
  <2> DEFINE more == TimeScore(q, target, date(hit))
  <2>3. more \in Nat
    <3> HIDE DEF date
    <3> QED BY <2>2, TimeScoreType
  <2> HIDE DEF more, date
  <2>4. [hit EXCEPT !.score = @ + more] \in H /\ [hit EXCEPT !.score = @ + more].doc = hit.doc
    BY <2>1, <2>3 DEF Hits
  <2>5. next(hit) = [hit EXCEPT !.score = @ + more]
    BY DEF more
  <2> QED BY <2>4, <2>5
<1> HIDE DEF kept, fit, H, next
<1> DEFINE n == Len(kept)
<1>5. n \in Nat /\ DOMAIN kept = 1 .. n /\ \A i \in 1 .. n : kept[i] \in H /\ kept[i] \in fit
  BY <1>2 DEF Elements
<1>6. DOMAIN moved = 1 .. n /\ \A i \in 1 .. n : moved[i] = next(kept[i])
  BY <1>5
<1> HIDE DEF n, moved
<1>7. \A i \in 1 .. n : moved[i] \in H /\ moved[i].doc = kept[i].doc /\ moved[i].score \in Nat
  <2>1. \A hit \in H : hit.score \in Nat
    BY DEF H, Hits
  <2> QED BY <1>4, <1>5, <1>6, <2>1
<1>8. Lists(places, 1 .. n)
  <2>1. IsFiniteSet(1 .. n)
    BY <1>5, FS_Interval
  <2>2. \A i \in 1 .. n : scores[i] = moved[i].score /\ turn[i] = i
    BY <1>6
  <2> HIDE DEF scores, turn
  <2>3. Places(1 .. n, scores, turn)
    BY <1>5, <1>7, <2>2 DEF Places
  <2> QED BY <1>6, <2>1, <2>3, BestLists
<1> HIDE DEF places
<1> DEFINE m == Len(places)
<1>9. m \in Nat /\ DOMAIN places = 1 .. m /\ \A i \in 1 .. m : places[i] \in 1 .. n
  <2> DEFINE I == 1 .. n
  <2>1. places \in Seq(I)
    BY <1>8 DEF Lists
  <2> HIDE DEF I
  <2>2. m \in Nat /\ DOMAIN places = 1 .. m /\ \A i \in 1 .. m : places[i] \in I
    BY <2>1
  <2> QED BY <2>2 DEF I
<1>10. DOMAIN timed = 1 .. m /\ \A i \in 1 .. m : timed[i] = moved[places[i]]
  BY <1>9
<1>11. timed = [i \in 1 .. m |-> timed[i]]
  BY <1>9
<1> HIDE DEF m, timed
<1>12. timed \in Seq(H)
  BY <1>7, <1>9, <1>10, <1>11
<1>13. \A i \in DOMAIN timed : Kept(q, target, date(timed[i]))
  <2> SUFFICES ASSUME NEW i \in 1 .. m PROVE Kept(q, target, date(timed[i]))
    BY <1>10
  <2> DEFINE j == places[i]
  <2>1. j \in 1 .. n /\ timed[i] = moved[j]
    BY <1>9, <1>10
  <2>2. timed[i].doc = kept[j].doc /\ kept[j] \in fit
    BY <1>5, <1>7, <2>1
  <2> QED BY <1>3, <2>2
<1> QED BY <1>1, <1>12, <1>13 DEF H

LEMMA FixedAreExpressions ==
    ASSUME NEW i \in DOMAIN FixedPhrases
    PROVE  FixedPhrases[i] \in Expressions
<1>1. /\ \A n \in -1 .. 1 : Day(n) \in Expressions
      /\ \A unit \in Units \ {"day"}, n \in -1 .. 1 : Period(unit, n) \in Expressions
  BY DEF Expressions
<1>2. /\ -1 \in -1 .. 1 /\ 0 \in -1 .. 1 /\ 1 \in -1 .. 1
      /\ "week" \in Units \ {"day"} /\ "month" \in Units \ {"day"} /\ "year" \in Units \ {"day"}
  BY DEF Units
<1>3. /\ Day(0) \in Expressions /\ Day(-1) \in Expressions /\ Day(1) \in Expressions
      /\ \A unit \in {"week", "month", "year"} :
           Period(unit, -1) \in Expressions /\ Period(unit, 0) \in Expressions /\ Period(unit, 1) \in Expressions
  BY <1>1, <1>2
<1>4. /\ DOMAIN FixedPhrases = 1 .. 12
      /\ FixedPhrases[1] = Day(0) /\ FixedPhrases[2] = Day(-1) /\ FixedPhrases[3] = Day(1)
      /\ FixedPhrases[4] = Period("week", -1) /\ FixedPhrases[5] = Period("week", 0)
      /\ FixedPhrases[6] = Period("week", 1) /\ FixedPhrases[7] = Period("month", -1)
      /\ FixedPhrases[8] = Period("month", 0) /\ FixedPhrases[9] = Period("month", 1)
      /\ FixedPhrases[10] = Period("year", -1) /\ FixedPhrases[11] = Period("year", 0)
      /\ FixedPhrases[12] = Period("year", 1)
  BY DEF FixedPhrases
<1>5. i = 1 \/ i = 2 \/ i = 3 \/ i = 4 \/ i = 5 \/ i = 6 \/ i = 7 \/ i = 8 \/ i = 9 \/ i = 10
        \/ i = 11 \/ i = 12
  BY <1>4
<1> QED BY <1>3, <1>4, <1>5

LEMMA DayType ==
    ASSUME NEW e \in Expressions, NEW base \in Int
    PROVE  DayOf(e, base) \in Int
<1>1. e.n \in Int /\ e.unit \in Units
  BY ExpressionKinds
<1>2. CASE e.kind = "weekday"
  <2>1. e.weekday \in 0 .. 6 /\ e.n \in -1 .. 1
    BY <1>2, ExpressionKinds
  <2>2. ResolveWeekday(base, e.weekday, e.n) \in Int
    BY <2>1, WeekdayIsMet
  <2> QED BY <1>2, <2>2 DEF DayOf
<1>3. CASE e.kind = "other"
  BY <1>1, <1>3 DEF DayOf
<1>4. CASE e.kind # "weekday" /\ e.kind # "other"
  <2>1. Shift(base, e.unit, e.n) \in Int
    BY <1>1, ShiftedPlace
  <2> QED BY <1>4, <2>1 DEF DayOf
<1> QED BY <1>2, <1>3, <1>4

LEMMA TargetType ==
    ASSUME NEW phrases \in Seq(Expressions), NEW base \in Int
    PROVE  ResolveTarget(phrases, base).date \in Int
<1> DEFINE fixed == {i \in DOMAIN FixedPhrases : SaidIn(phrases, FixedPhrases[i])}
           kinds == {k \in DOMAIN LaterKinds : OfKind(phrases, LaterKinds[k]) # {}}
           later == OfKind(phrases, LaterKinds[Least(kinds)])
           p == IF fixed # {} THEN FixedPhrases[Least(fixed)] ELSE phrases[Least(later)]
<1>1. ResolveTarget(phrases, base)
        = IF fixed = {} /\ kinds = {} THEN [date |-> 0, window |-> 0]
          ELSE [date |-> DayOf(p, base), window |-> WindowDays(p.unit)]
  BY DEF ResolveTarget
<1>2. ASSUME fixed # {} PROVE p \in Expressions
  <2>1. fixed \in SUBSET Nat /\ fixed \subseteq DOMAIN FixedPhrases
    BY FixedPhrasesAre
  <2>2. p = FixedPhrases[Least(fixed)]
    BY <1>2
  <2> HIDE DEF fixed, p
  <2>3. Least(fixed) \in fixed
    BY <1>2, <2>1, LeastIsIn
  <2> QED BY <2>1, <2>2, <2>3, FixedAreExpressions
<1>3. ASSUME fixed = {}, kinds # {} PROVE p \in Expressions
  <2>1. kinds \in SUBSET Nat /\ \A k \in kinds : OfKind(phrases, LaterKinds[k]) # {}
    BY DEF LaterKinds
  <2>2. p = phrases[Least(later)]
    BY <1>3
  <2>3. \A kind : OfKind(phrases, kind) \in SUBSET Nat /\ OfKind(phrases, kind) \subseteq DOMAIN phrases
    BY DEF OfKind
  <2> HIDE DEF kinds, fixed, p
  <2>4. Least(kinds) \in kinds
    BY <1>3, <2>1, LeastIsIn
  <2>5. later # {} /\ later \in SUBSET Nat /\ later \subseteq DOMAIN phrases
    BY <2>1, <2>3, <2>4
  <2> HIDE DEF later
  <2>6. Least(later) \in later
    BY <2>5, LeastIsIn
  <2>7. \A i \in DOMAIN phrases : phrases[i] \in Expressions
    OBVIOUS
  <2> QED BY <2>2, <2>5, <2>6, <2>7
<1> HIDE DEF fixed, kinds, p
<1>4. p \in Expressions => DayOf(p, base) \in Int
  BY DayType
<1> QED BY <1>1, <1>2, <1>3, <1>4

-----------------------------------------------------------------------------
(***************************************************************************)
(* Answers stay in scope.                                                  *)
(***************************************************************************)

LEMMA MinOfTwo == ASSUME NEW a \in Int, NEW b \in Int PROVE Min({a, b}) = IF a <= b THEN a ELSE b
BY DEF Min

\* What the temporal caller adds to a query moves no row.
LEMMA SameRows ==
    ASSUME NEW ix, NEW q \in Questions, NEW order, NEW target
    PROVE  /\ IndexQuery(q, target) \in Questions
           /\ IndexQuery(q, target).expanded = q.expanded
           /\ Scoped(ix, IndexQuery(q, target), order) = Scoped(ix, q, order)
<1> DEFINE iq == IndexQuery(q, target)
<1>1. iq \in Questions
  BY DEF IndexQuery, Questions
<1>2. /\ iq.terms = q.terms /\ iq.expanded = q.expanded /\ iq.phrase = q.phrase
      /\ iq.pairs = q.pairs /\ iq.ids = q.ids
  BY DEF IndexQuery, Questions
<1> HIDE DEF iq
<1>3. \A d : InScope(ix, iq, d) = InScope(ix, q, d)
  BY <1>2 DEF InScope
<1>4. QueryEntities(ix, iq) = QueryEntities(ix, q)
  BY <1>2 DEF QueryEntities
<1>5. \A d : LexicalScore(ix, iq, d) = LexicalScore(ix, q, d)
  BY <1>2 DEF LexicalScore
<1>6. PostingRows(ix, iq, order) = PostingRows(ix, q, order)
  BY SMT, <1>2, <1>4, <1>5 DEF PostingRows
<1>7. Scoped(ix, iq, order) = Scoped(ix, q, order)
  BY <1>3, <1>6 DEF Scoped
<1> QED BY <1>1, <1>2, <1>7 DEF iq

LEMMA CandidateIsInScope ==
    ASSUME NEW ix, Usable(ix), NEW q, NEW order, NEW d \in Candidates(ix, Scoped(ix, q, order))
    PROVE  /\ \E row \in PostingRows(ix, q, order) : row.doc = d
           /\ q.pairs = {} /\ q.ids # Unscoped => d \in q.ids
           /\ (\A p \in q.pairs : \E e \in ix.table : p \in ix.records[e].filters)
                => q.pairs \subseteq ix.records[d].filters
<1>1. PICK row \in PostingRows(ix, q, order) : row.doc = d /\ InScope(ix, q, row.doc)
  BY DEF Candidates, Scoped
<1>2. ix.filters = UNION {{[pair |-> p, at |-> e] : p \in ix.records[e].filters} : e \in ix.table}
  BY DEF Usable
<1>3. ASSUME NEW p \in q.pairs, NEW e \in ix.table, p \in ix.records[e].filters
      PROVE  p \in ix.records[d].filters
  <2> DEFINE known == {x \in q.pairs : \E posting \in ix.filters : posting.pair = x}
  <2>1. [pair |-> p, at |-> e] \in ix.filters
    BY <1>2, <1>3
  <2>2. p \in known
    BY <2>1
  <2>3. d \in MatchingIds(ix, q.pairs)
    BY <1>1, <1>3 DEF InScope
  <2>4. [pair |-> p, at |-> d] \in ix.filters
    BY <2>2, <2>3 DEF MatchingIds
  <2>5. PICK f \in ix.table : [pair |-> p, at |-> d] \in {[pair |-> x, at |-> f] : x \in ix.records[f].filters}
    BY <1>2, <2>4
  <2> QED BY <2>5
<1>4. ASSUME q.pairs = {}, q.ids # Unscoped PROVE d \in q.ids
  BY <1>1, <1>4 DEF InScope
<1> QED BY <1>1, <1>3, <1>4

\* What a hard filter keeps lies between the bounds and in the window.
LEMMA KeptIs ==
    ASSUME NEW q \in Questions, NEW target \in Int, NEW date \in Nat, Kept(q, target, date), q.hard
    PROVE  /\ date > 0
           /\ q.start > 0 /\ q.end > 0 => date \in Min({q.start, q.end}) .. Max({q.start, q.end})
           /\ target > 0 => Distance(date, target) <= Max({q.window, 1})
<1>1. date > 0 /\ InRange(q, date) /\ InWindow(q, target, date)
  BY DEF Kept
<1>2. q.start \in Nat /\ q.end \in Nat
  BY QuestionIs
<1>3. ASSUME q.start > 0, q.end > 0 PROVE date \in Min({q.start, q.end}) .. Max({q.start, q.end})
  <2>1. /\ Min({q.start, q.end}) = IF q.start <= q.end THEN q.start ELSE q.end
        /\ Max({q.start, q.end}) = IF q.start >= q.end THEN q.start ELSE q.end
    BY <1>2, MinOfTwo, MaxOfTwo
  <2>2. CASE q.start > q.end
    <3>1. Bounds(q).start = q.end /\ Bounds(q).end = q.start
      BY <1>3, <2>2 DEF Bounds
    <3>2. date >= q.end /\ date <= q.start
      BY <1>1, <1>2, <1>3, <3>1 DEF InRange
    <3> QED BY <1>2, <2>1, <2>2, <3>2
  <2>3. CASE ~(q.start > q.end)
    <3>1. Bounds(q).start = q.start /\ Bounds(q).end = q.end
      BY <2>3 DEF Bounds
    <3>2. date >= q.start /\ date <= q.end
      BY <1>1, <1>2, <1>3, <3>1 DEF InRange
    <3> QED BY <1>2, <2>1, <2>3, <3>2
  <2> QED BY <2>2, <2>3
<1> QED BY <1>1, <1>3 DEF InWindow

LEMMA AnswerIsInScope ==
    ASSUME NEW ix, Usable(ix), NEW q \in Queries, NEW order \in Orders,
           NEW hit \in Elements(TemporalAnswer(ix, q, order))
    PROVE  IsInScope(ix, q, order, hit)
<1> DEFINE target == TargetOf(q)
           S == Candidates(ix, Scoped(ix, q, order))
           found == Answer(ix, IndexQuery(q, target), SearchDepth(q), order)
           timed == InTime(ix, q, target, found)
           given == IF Untimed(q, target) THEN found ELSE timed
<1>1. q \in Questions /\ IsFiniteSet(q.expanded)
  BY QueriesAssumption, ListsAssumption
<1>2. target \in Int
  <2>1. q.phrases \in Seq(Expressions) /\ {q.reference, q.start, q.end} \subseteq Nat
    BY <1>1 DEF Questions
  <2>2. RelativeAnchor(q) \in Int
    BY <2>1, ScoringAssumption DEF RelativeAnchor
  <2>3. ResolveTarget(q.phrases, RelativeAnchor(q)).date \in Int
    BY <2>1, <2>2, TargetType
  <2> QED BY <2>3 DEF TargetOf
<1>3. SearchDepth(q) \in Nat /\ q.topK \in Nat
  <2>1. q.topK \in Nat
    BY <1>1, QuestionIs
  <2> QED BY <2>1, MaxOfTwo DEF SearchDepth
<1>4. TemporalAnswer(ix, q, order) = Take(given, q.topK)
  BY DEF TemporalAnswer, TargetedAnswer
<1> HIDE DEF target
<1>5. found \in Seq(Hits(S))
  <2> DEFINE iq == IndexQuery(q, target)
  <2>1. iq \in Questions /\ IsFiniteSet(iq.expanded) /\ Scoped(ix, iq, order) = Scoped(ix, q, order)
    BY <1>1, SameRows
  <2> HIDE DEF iq
  <2>2. Answer(ix, iq, SearchDepth(q), order) \in Seq(Hits(Candidates(ix, Scoped(ix, iq, order))))
    BY <1>3, <2>1, AnswerIs
  <2> QED BY <2>1, <2>2 DEF iq
<1>6. \A d \in S : ix.records[d] \in Records
  BY CandidatesAre
<1> HIDE DEF found, S
<1>7. timed \in Seq(Hits(S)) /\ \A i \in DOMAIN timed : Kept(q, target, DateOf(ix.records[timed[i].doc]))
  BY <1>1, <1>2, <1>5, <1>6, InTimeKeeps
<1> HIDE DEF timed
<1>8. given \in Seq(Hits(S))
  BY <1>5, <1>7
<1>9. PICK i \in DOMAIN given : hit = given[i]
  <2> HIDE DEF given
  <2>1. Elements(Take(given, q.topK)) \subseteq Elements(given)
    BY <1>3, <1>8, TakeIsHead
  <2> QED BY <1>4, <2>1 DEF Elements
<1>10. hit.doc \in S
  <2>1. hit \in Hits(S)
    BY <1>8, <1>9
  <2> QED BY <2>1 DEF Hits
<1>11. /\ \E row \in PostingRows(ix, q, order) : row.doc = hit.doc
       /\ q.pairs = {} /\ q.ids # Unscoped => hit.doc \in q.ids
       /\ (\A p \in q.pairs : \E d \in ix.table : p \in ix.records[d].filters)
            => q.pairs \subseteq ix.records[hit.doc].filters
  BY <1>10, CandidateIsInScope DEF S
<1> DEFINE date == DateOf(ix.records[hit.doc])
<1>12. ASSUME q.hard, ~Untimed(q, target)
       PROVE  /\ date > 0
              /\ q.start > 0 /\ q.end > 0 => date \in Min({q.start, q.end}) .. Max({q.start, q.end})
              /\ target > 0 => Distance(date, target) <= Max({q.window, 1})
  <2>1. Kept(q, target, date)
    BY <1>7, <1>9, <1>12
  <2>2. date \in Nat
    BY <1>6, <1>10, DateType
  <2> HIDE DEF date
  <2> QED BY <1>1, <1>2, <1>12, <2>1, <2>2, KeptIs
<1> QED BY <1>11, <1>12 DEF IsInScope, target

(* Whatever the passes of the scoring add, a query is answered with           *)
(* documents it may see: those of its allow-list and, where each of its       *)
(* filter pairs is carried by some document, those that carry them all, found *)
(* by a posting or a word of their own, and of the time a hard filter asks    *)
(* for.                                                                       *)
THEOREM AnswerStaysInScopeHolds == Spec => AnswerStaysInScope
<1>1. IndexInv /\ BuiltInv /\ [Next]_vars
        => [answer' \notin {answer, NoIndex} =>
              \A hit \in Elements(answer'.hits) : IsInScope(index, answer'.query, answer'.order, hit)]_vars
  <2> SUFFICES ASSUME IndexInv, BuiltInv, [Next]_vars, answer' \notin {answer, NoIndex},
                      NEW hit \in Elements(answer'.hits)
               PROVE  IsInScope(index, answer'.query, answer'.order, hit)
    OBVIOUS
  <2>1. PICK q \in Queries, order \in Orders : Query(q, order)
    BY DEF Next, Upsert, RemoveDocument, Refresh, Reopen, vars
  <2>2. index # NoIndex
          /\ answer' = [query |-> q, order |-> order, hits |-> TemporalAnswer(index, q, order)]
    BY <2>1 DEF Query
  <2>3. Usable(index)
    BY <2>2, IndexIsUsable
  <2>4. hit \in Elements(TemporalAnswer(index, q, order))
    BY <2>2
  <2>5. IsInScope(index, q, order, hit)
    BY <2>3, <2>4, AnswerIsInScope
  <2> QED BY <2>2, <2>5
<1> QED BY <1>1, IndexInvHolds, BuiltInvHolds, PTL DEF AnswerStaysInScope, Spec
-----------------------------------------------------------------------------
(* A restart *)

\* Under options with nothing to lose a loaded index has them all.
LEMMA NothingIsLost ==
    ASSUME NEW o \in Options, ~o.claims, ~o.ngram, ~o.lcs
    PROVE  Loaded(o) = o
<1> DEFINE off == [o EXCEPT !.claims = FALSE]
           p == [off EXCEPT !.ngram = FALSE, !.lcs = FALSE]
<1>1. o \in [claims : BOOLEAN, ngram : BOOLEAN, lcs : BOOLEAN]
  BY MemoryIndexAssumption
<1>2. off = o
  BY <1>1
<1> HIDE DEF off
<1>3. p = o
  BY <1>1, <1>2
<1> QED BY <1>3 DEF Loaded, p, off

\* Two orders put the same index together, when no key lists too many documents.
LEMMA OrderIsIrrelevant ==
    ASSUME NEW R \in RecordMaps, NEW core, NEW k, IsOf(core, R, k), NEW o,
           NEW first \in Orders, NEW second \in Orders, Uncut(Assembled(R, core, o, second))
    PROVE  Assembled(R, core, o, first) = Assembled(R, core, o, second)
<1> DEFINE own == AggregateOf(R, k)
           ix == Assembled(R, core, o, second)
<1>1. ix.chunks = core.chunks /\ ix.chunkTerms = core.chunkTerms /\ ix.chunkEntities = core.chunkEntities
  BY AssembledKeeps
<1>2. ASSUME NEW f \in ChunkFields, NEW rows, rows = core[f]
      PROVE  DocPostings(rows, core.chunks, first) = DocPostings(rows, core.chunks, second)
  <2>1. /\ core.chunks = own.chunks
        /\ f \in {"chunkTerms", "chunkEntities"}
        /\ rows = own[f]
    BY <1>2 DEF IsOf, ChunkFields
  <2>2. Scored(own.chunkTerms) /\ Scored(own.chunkEntities)
    <3> HIDE DEF own
    <3> QED BY AggregateIsScored DEF own
  <2>3. Scored(rows)
    BY <2>1, <2>2
  <2>4. \A row \in rows : DocOf(core.chunks, row.at) \in Docs
    <3>1. \A row \in rows : DocOf(core.chunks, row.at) \in Present(R)
      BY <2>1, DocsOfRows
    <3> QED BY <3>1, PresentAre
  <2>5. rows \in {ix.chunkTerms, ix.chunkEntities}
    BY <1>1, <1>2, <2>1
  <2> HIDE DEF own, ix
  <2>6. \A key \in {row.key : row \in rows} : Cardinality(DocsOfKey(rows, core.chunks, key)) <= MaxPostings
    <3>1. Uncut(ix)
      BY DEF ix
    <3>2. \A key \in Keys(rows) :
            Cardinality({DocOf(ix.chunks, row.at) : row \in {x \in rows : x.key = key}}) <= MaxPostings
      BY <2>5, <3>1 DEF Uncut
    <3> QED BY <1>1, <3>2 DEF Keys, DocsOfKey
  <2> QED BY <2>3, <2>4, <2>6, UncutPostings
<1>3. /\ DocPostings(core.chunkTerms, core.chunks, first) = DocPostings(core.chunkTerms, core.chunks, second)
      /\ DocPostings(core.chunkEntities, core.chunks, first)
           = DocPostings(core.chunkEntities, core.chunks, second)
  BY <1>2 DEF ChunkFields
<1> QED BY <1>3 DEF Assembled

(* A restart does not change an answer: what the index saved answered, the    *)
(* index loaded answers too, where the options ask for nothing a loaded index *)
(* does without and no key is in more documents than the cap lists.           *)
THEOREM AnswerSurvivesReopenHolds == Spec => []AnswerSurvivesReopen
<1>1. Init => AnswerSurvivesReopen
  BY DEF Init, AnswerSurvivesReopen
<1>2. AnswerSurvivesReopen /\ IndexInv /\ BuiltInv /\ [Next]_vars => AnswerSurvivesReopen'
  <2> SUFFICES ASSUME AnswerSurvivesReopen, IndexInv, BuiltInv, [Next]_vars
               PROVE  AnswerSurvivesReopen'
    OBVIOUS
  <2>1. CASE answer' = NoIndex
    BY <2>1 DEF AnswerSurvivesReopen
  <2>2. CASE UNCHANGED <<options, index, answer>>
    BY <2>2 DEF AnswerSurvivesReopen, Uncut
  <2>3. ASSUME NEW q \in Queries, NEW order \in Orders, Query(q, order)
        PROVE  AnswerSurvivesReopen'
    <3>1. index' = index /\ answer'.hits = TemporalAnswer(index, q, order)
            /\ answer'.query = q /\ answer'.order = order
      BY <2>3 DEF Query
    <3> QED BY <3>1 DEF AnswerSurvivesReopen
  <2>4. ASSUME NEW order \in Orders, Reopen(order) PROVE AnswerSurvivesReopen'
    <3> SUFFICES ASSUME answer # NoIndex, ~options.claims, ~options.ngram, ~options.lcs, Uncut(index')
                 PROVE  answer.hits = TemporalAnswer(index', answer.query, answer.order)
      BY <2>4 DEF Reopen, AnswerSurvivesReopen, Uncut
    <3>1. Loaded(options) = options /\ saved # NoIndex
      BY <2>4, NothingIsLost DEF IndexInv, Reopen
    <3>2. PICK first \in Orders : index = Assembled(saved.records, saved.core, options, first)
      BY <3>1 DEF BuiltInv
    <3>3. index' = Assembled(saved.records, saved.core, options, order)
      BY <2>4, <3>1 DEF Reopen, LoadCore, Loaded
    <3>4. saved.records \in RecordMaps /\ IsOf(saved.core, saved.records, options.claims)
      BY <3>1 DEF IndexInv, SavedMatches
    <3>5. Uncut(Assembled(saved.records, saved.core, options, order))
      BY <3>3
    <3>6. index = index'
      BY <3>2, <3>3, <3>4, <3>5, OrderIsIrrelevant
    <3>7. Uncut(index)
      BY <3>6 DEF Uncut
    <3> QED BY <3>6, <3>7 DEF AnswerSurvivesReopen
  <2> QED BY <2>1, <2>2, <2>3, <2>4 DEF Next, Upsert, RemoveDocument, Refresh, vars
<1> QED BY <1>1, <1>2, IndexInvHolds, BuiltInvHolds, PTL DEF Spec
-----------------------------------------------------------------------------
(***************************************************************************)
(* An answer is as full as the groups allow.                               *)
(***************************************************************************)

\* A sequence in which nothing appears twice has as many elements as places.
LEMMA OnceIsCounted ==
    ASSUME NEW E, NEW s \in Seq(E), Once(s)
    PROVE  IsFiniteSet(Elements(s)) /\ Cardinality(Elements(s)) = Len(s)
<1> DEFINE n == Len(s)
           D == Elements(s)
           f == [i \in 1 .. n |-> s[i]]
<1>1. n \in Nat /\ DOMAIN s = 1 .. n /\ 1 \in Int /\ n \in Int
  OBVIOUS
<1>2. IsFiniteSet(1 .. n) /\ Cardinality(1 .. n) = n
  BY <1>1, FS_Interval
<1>3. \A i \in 1 .. n : f[i] = s[i]
  OBVIOUS
<1>4. f \in Bijection(1 .. n, D)
  <2>1. f \in [1 .. n -> D]
    BY <1>1 DEF Elements
  <2>2. \A i, j \in 1 .. n : f[i] = f[j] => i = j
    BY <1>1, <1>3 DEF Once
  <2>3. \A d \in D : \E i \in 1 .. n : f[i] = d
    BY <1>1, <1>3 DEF Elements
  <2> HIDE DEF f, D
  <2> QED BY <2>1, <2>2, <2>3 DEF Bijection, Injection, Surjection, IsInjective
<1> HIDE DEF f, D, n
<1>5. ExistsBijection(1 .. n, D)
  BY <1>4 DEF ExistsBijection
<1>6. IsFiniteSet(D) /\ Cardinality(D) = Cardinality(1 .. n)
  BY <1>2, <1>5, FS_Bijection
<1> QED BY <1>2, <1>6 DEF D, n

LEMMA TwoAreCounted ==
    ASSUME NEW A, NEW B, IsFiniteSet(A), IsFiniteSet(B), A \cap B = {}
    PROVE  IsFiniteSet(A \cup B) /\ Cardinality(A \cup B) = Cardinality(A) + Cardinality(B)
<1>1. Cardinality(A \cap B) = 0
  BY FS_EmptySet
<1>2. Cardinality(A) \in Nat /\ Cardinality(B) \in Nat
  BY FS_CardinalityType
<1>3. /\ IsFiniteSet(A \cup B)
      /\ Cardinality(A \cup B) = Cardinality(A) + Cardinality(B) - Cardinality(A \cap B)
  BY FS_Union
<1> DEFINE a == Cardinality(A)
           b == Cardinality(B)
<1> HIDE DEF a, b
<1>4. Cardinality(A \cup B) = a + b - 0 /\ a \in Nat /\ b \in Nat
  BY <1>1, <1>2, <1>3 DEF a, b
<1>5. Cardinality(A \cup B) = a + b
  BY <1>4
<1> QED BY <1>3, <1>5 DEF a, b

\* Every x has a part of so many elements, and no two parts have one in common.
Parted(c, s, f) ==
    /\ \A x \in s : IsFiniteSet(f[x]) /\ Cardinality(f[x]) = c[x]
    /\ \A x, y \in s : x # y => f[x] \cap f[y] = {}

CountsParts(c, s, v) ==
    \A f : Parted(c, s, f) =>
       IsFiniteSet(UNION {f[x] : x \in s}) /\ v = Cardinality(UNION {f[x] : x \in s})

CountingParts == INSTANCE FoldTheorems WITH Step <- AddStep, Choice <- AnyOf, Inv <- CountsParts

LEMMA PartsAreCounted ==
    ASSUME NEW S, IsFiniteSet(S), NEW c, DOMAIN c = S, NEW f, Parted(c, S, f)
    PROVE  /\ IsFiniteSet(UNION {f[x] : x \in S})
           /\ Total(c) = Cardinality(UNION {f[x] : x \in S})
<1>1. CountingParts!Chooses(S)
  BY DEF CountingParts!Chooses, AnyOf
<1>2. CountsParts(c, {}, 0)
  <2>1. \A g : UNION {g[x] : x \in {}} = {}
    OBVIOUS
  <2> QED BY <2>1, FS_EmptySet DEF CountsParts
<1>3. ASSUME NEW s \in SUBSET S, NEW v, s # {}, CountsParts(c, s \ {AnyOf(s)}, v)
      PROVE  CountsParts(c, s, AddStep(c, AnyOf(s), v))
  <2> DEFINE x == AnyOf(s)
             r == s \ {x}
  <2>1. x \in s /\ s = r \cup {x}
    BY <1>3 DEF AnyOf
  <2> SUFFICES ASSUME NEW g, Parted(c, s, g)
               PROVE  /\ IsFiniteSet(UNION {g[y] : y \in s})
                      /\ c[x] + v = Cardinality(UNION {g[y] : y \in s})
    BY DEF CountsParts, AddStep
  <2>2. CountsParts(c, r, v)
    BY <1>3
  <2> HIDE DEF x
  <2> DEFINE before == UNION {g[y] : y \in r}
  <2>3. Parted(c, r, g)
    BY DEF Parted
  <2>4. IsFiniteSet(before) /\ v = Cardinality(before)
    BY <2>2, <2>3 DEF CountsParts
  <2>5. IsFiniteSet(g[x]) /\ Cardinality(g[x]) = c[x]
    BY <2>1 DEF Parted
  <2>6. before \cap g[x] = {}
    BY <2>1 DEF Parted
  <2>7. UNION {g[y] : y \in s} = before \cup g[x]
    BY <2>1
  <2> HIDE DEF before
  <2>8. IsFiniteSet(before \cup g[x]) /\ Cardinality(before \cup g[x]) = Cardinality(before) + Cardinality(g[x])
    BY <2>4, <2>5, <2>6, TwoAreCounted
  <2>9. Cardinality(before) \in Nat /\ Cardinality(g[x]) \in Nat
    BY <2>4, <2>5, FS_CardinalityType
  <2> DEFINE n == c[x]
             m == Cardinality(before)
  <2> HIDE DEF n, m
  <2>10. m = v /\ m \in Nat /\ n \in Nat /\ Cardinality(before \cup g[x]) = m + n
    BY <2>4, <2>5, <2>8, <2>9 DEF n, m
  <2>11. Cardinality(before \cup g[x]) = n + v
    BY <2>10
  <2> QED BY <2>7, <2>8, <2>11 DEF n
<1>4. CountsParts(c, S, CountingParts!Fold(c, 0, S))
  BY <1>1, <1>2, <1>3, CountingParts!FoldInduction DEF CountingParts!IsFiniteSet, IsFiniteSet
<1>5. Total(c) = CountingParts!Fold(c, 0, S)
  BY DEF Total, Seqs!SumFunction, Seqs!SumFunctionOnSet, Seqs!FoldFunctionOnSet, Seqs!MapThenFoldSet,
     CountingParts!Fold, AddStep, AnyOf
<1> QED BY <1>4, <1>5 DEF CountsParts

\* The head of a sequence repeats nothing the sequence does not.
LEMMA HeadIsOnce ==
    ASSUME NEW E, NEW s \in Seq(E), Once(s), NEW n \in Nat
    PROVE  Once(Take(s, n))
BY TakeIsHead DEF Once

\* What the answer may take of a group, and of all groups.
Allowed(ix, s) == IF ix.records[s[1]].group = 0 THEN s ELSE Take(s, GroupLimit)

AllAllowed(ix, items) == UNION {Elements(Allowed(ix, items[k])) : k \in DOMAIN items}

LEMMA AllowedIs ==
    ASSUME NEW ix, NEW S, NEW s \in Seq(S), Once(s)
    PROVE  /\ Allowed(ix, s) \in Seq(S) /\ Once(Allowed(ix, s))
           /\ Elements(Allowed(ix, s)) \subseteq Elements(s)
<1>1. GroupLimit \in Nat
  BY ScoringAssumption
<1>2. /\ Take(s, GroupLimit) \in Seq(S) /\ Once(Take(s, GroupLimit))
      /\ Elements(Take(s, GroupLimit)) \subseteq Elements(s)
  BY <1>1, TakeIsHead, HeadIsOnce
<1> QED BY <1>2 DEF Allowed

LEMMA TakenIsFull ==
    ASSUME NEW ix, NEW S, NEW items, Groups(ix, items, S), \A k \in DOMAIN items : Once(items[k]),
           NEW groups, Lists(groups, DOMAIN items), NEW limit \in Nat
    PROVE  LET taken == Taken([i \in DOMAIN groups |-> items[groups[i]]], limit, ix)
               n == Cardinality(AllAllowed(ix, items))
           IN  /\ taken \in Seq(S) /\ Once(taken)
               /\ IsFiniteSet(AllAllowed(ix, items)) /\ Len(taken) = (IF limit <= n THEN limit ELSE n)
<1> DEFINE K == DOMAIN items
           lists == [i \in DOMAIN groups |-> items[groups[i]]]
           parts == [i \in DOMAIN groups |-> Allowed(ix, items[groups[i]])]
           flat == Seqs!FlattenSeq(parts)
           taken == Taken(lists, limit, ix)
           m == Len(groups)
<1>1. m \in Nat /\ DOMAIN groups = 1 .. m /\ Elements(groups) = K
        /\ (\A i \in 1 .. m : groups[i] \in K) /\ \A i, j \in 1 .. m : i # j => groups[i] # groups[j]
  BY DEF Lists
<1>2. taken = Take(flat, limit)
  <2>1. [i \in DOMAIN lists |-> Allowed(ix, lists[i])] = parts
    OBVIOUS
  <2> HIDE DEF lists, parts
  <2>2. Taken(lists, limit, ix) = Take(Seqs!FlattenSeq([i \in DOMAIN lists |-> Allowed(ix, lists[i])]), limit)
    BY DEF Taken, Allowed
  <2> QED BY <2>1, <2>2
<1>3. ASSUME NEW k \in K
      PROVE  /\ Allowed(ix, items[k]) \in Seq(S) /\ Once(Allowed(ix, items[k]))
             /\ Elements(Allowed(ix, items[k])) \subseteq Elements(items[k])
  <2>1. items[k] \in Seq(S) /\ Once(items[k])
    BY DEF Groups
  <2> QED BY <2>1, AllowedIs
<1>4. \A k \in K : \A d \in Elements(items[k]) : GroupKey(ix.records[d], d) = k
  BY DEF Groups
<1> HIDE DEF K
<1>5. DOMAIN parts = 1 .. m /\ \A i \in 1 .. m : parts[i] = Allowed(ix, items[groups[i]])
  BY <1>1
<1>6. parts \in Seq(Seq(S))
  <2> DEFINE E == Seq(S)
  <2>1. \A i \in 1 .. m : parts[i] \in E
    BY <1>1, <1>3, <1>5
  <2>2. parts = [i \in 1 .. m |-> parts[i]]
    BY <1>1
  <2> HIDE DEF E, parts
  <2>3. parts \in Seq(E)
    BY <1>1, <1>5, <2>1, <2>2
  <2> QED BY <2>3 DEF E
<1>7. Disjoint(parts)
  <2> HIDE DEF parts
  <2>1. \A i \in 1 .. m : Once(parts[i])
    BY <1>1, <1>3, <1>5
  <2>2. ASSUME NEW i \in 1 .. m, NEW j \in 1 .. m, i # j, NEW d \in Elements(parts[i]), d \in Elements(parts[j])
        PROVE  FALSE
    <3>1. d \in Elements(items[groups[i]]) /\ d \in Elements(items[groups[j]])
      BY <1>1, <1>3, <1>5, <2>2
    <3>2. groups[i] = groups[j]
      BY <1>1, <1>4, <3>1
    <3> QED BY <1>1, <2>2, <3>2
  <2> QED BY <1>5, <2>1, <2>2 DEF Disjoint
<1>8. /\ flat \in Seq(S) /\ Once(flat)
      /\ Elements(flat) = UNION {Elements(parts[i]) : i \in DOMAIN parts}
  <2> HIDE DEF parts
  <2> QED BY <1>6, <1>7, FlattenIsExact
<1>9. Elements(flat) = AllAllowed(ix, items)
  <2> HIDE DEF parts, flat
  <2>1. UNION {Elements(parts[i]) : i \in 1 .. m} = UNION {Elements(Allowed(ix, items[k])) : k \in K}
    <3>1. \A k \in K : \E i \in 1 .. m : groups[i] = k
      BY <1>1 DEF Elements
    <3> QED BY <1>1, <1>5, <3>1
  <2> QED BY <1>5, <1>8, <2>1 DEF AllAllowed, K
<1> HIDE DEF flat, taken
<1>10. IsFiniteSet(Elements(flat)) /\ Cardinality(Elements(flat)) = Len(flat)
  BY <1>8, OnceIsCounted
<1>11. Take(flat, limit) \in Seq(S) /\ Once(Take(flat, limit))
         /\ Len(Take(flat, limit)) = (IF limit <= Len(flat) THEN limit ELSE Len(flat))
  BY <1>8, TakeIsHead, HeadIsOnce
<1> QED BY <1>2, <1>9, <1>10, <1>11 DEF taken

\* A document without a group is one by itself.
LEMMA KeysTell ==
    ASSUME NEW ix, NEW d, NEW e
    PROVE  /\ ix.records[d].group = 0 /\ GroupKey(ix.records[e], e) = GroupKey(ix.records[d], d) => e = d
           /\ ix.records[d].group # 0
                => (GroupKey(ix.records[e], e) = GroupKey(ix.records[d], d)
                      <=> ix.records[e].group = ix.records[d].group)
<1> DEFINE g == ix.records[d].group
           h == ix.records[e].group
<1>1. /\ GroupKey(ix.records[d], d) = IF g = 0 THEN <<"doc", d>> ELSE <<"group", g>>
      /\ GroupKey(ix.records[e], e) = IF h = 0 THEN <<"doc", e>> ELSE <<"group", h>>
  BY DEF GroupKey
<1> HIDE DEF g, h
<1>2. "doc" # "group"
  OBVIOUS
<1>3. \A x, y, a, b : <<x, a>> = <<y, b>> => x = y /\ a = b
  OBVIOUS
<1> QED BY <1>1, <1>2, <1>3 DEF g, h

\* What is allowed of all groups is as much as the room there is.
LEMMA RoomIsAllowed ==
    ASSUME NEW ix, NEW C, IsFiniteSet(C), NEW items, Groups(ix, items, C), AllGrouped(ix, items, C),
           \A k \in DOMAIN items : Once(items[k])
    PROVE  LET group(g) == {d \in C : ix.records[d].group = g}
               G == {ix.records[d].group : d \in C} \ {0}
           IN  Cardinality(group(0)) + Total([g \in G |-> AtMost(Cardinality(group(g)), GroupLimit)])
                 = Cardinality(AllAllowed(ix, items))
<1> DEFINE group(g) == {d \in C : ix.records[d].group = g}
           G == {ix.records[d].group : d \in C} \ {0}
           K == DOMAIN items
           key(d) == GroupKey(ix.records[d], d)
           shared(g) == items[<<"group", g>>]
           f == [g \in G |-> Elements(Take(shared(g), GroupLimit))]
           c == [g \in G |-> AtMost(Cardinality(group(g)), GroupLimit)]
<1>1. K = {key(d) : d \in C} /\ \A k \in K : Elements(items[k]) = {d \in C : key(d) = k}
  BY DEF AllGrouped
<1>2. \A k \in K : items[k] \in Seq(C) /\ items[k] # <<>> /\ Once(items[k])
  BY DEF Groups
<1> HIDE DEF K
<1>3. GroupLimit \in Nat
  BY ScoringAssumption
<1>4. ASSUME NEW g \in G
      PROVE  <<"group", g>> \in K /\ Elements(shared(g)) = group(g)
  <2>1. PICK d \in C : ix.records[d].group = g /\ g # 0
    OBVIOUS
  <2>2. key(d) = <<"group", g>>
    BY <2>1 DEF GroupKey
  <2>3. key(d) \in K
    BY <1>1
  <2>4. Elements(items[key(d)]) = {e \in C : key(e) = key(d)}
    BY <1>1, <2>3
  <2>5. \A e \in C : key(e) = key(d) <=> ix.records[e].group = g
    BY <2>1, KeysTell
  <2> HIDE DEF key
  <2>6. {e \in C : key(e) = key(d)} = group(g)
    BY <2>5
  <2> QED BY <2>2, <2>3, <2>4, <2>6
<1>5. ASSUME NEW g \in G
      PROVE  /\ IsFiniteSet(f[g]) /\ Cardinality(f[g]) = c[g] /\ f[g] \subseteq group(g)
  <2> DEFINE s == shared(g)
             h == Take(s, GroupLimit)
             n == Len(s)
  <2>1. s \in Seq(C) /\ Once(s) /\ Elements(s) = group(g)
    BY <1>2, <1>4
  <2>2. f[g] = Elements(h) /\ c[g] = AtMost(Cardinality(group(g)), GroupLimit)
    OBVIOUS
  <2> HIDE DEF s, f, c, group
  <2>3. Cardinality(group(g)) = n /\ n \in Nat
    BY <2>1, OnceIsCounted
  <2>4. /\ h \in Seq(C) /\ Once(h) /\ Elements(h) \subseteq group(g)
        /\ Len(h) = IF GroupLimit <= n THEN GroupLimit ELSE n
    <3>1. s \in Seq(C) /\ Once(s)
      BY <2>1
    <3>2. h \in Seq(C) /\ Elements(h) \subseteq Elements(s) /\ Len(h) = IF GroupLimit <= n THEN GroupLimit ELSE n
      BY <1>3, <3>1, TakeIsHead
    <3>3. Once(h)
      BY <1>3, <3>1, HeadIsOnce
    <3> QED BY <2>1, <3>2, <3>3
  <2> HIDE DEF h
  <2>5. IsFiniteSet(Elements(h)) /\ Cardinality(Elements(h)) = Len(h)
    BY <2>4, OnceIsCounted
  <2>6. AtMost(n, GroupLimit) = IF n <= GroupLimit THEN n ELSE GroupLimit
    BY <1>3, <2>3, MinOfTwo DEF AtMost
  <2> HIDE DEF n
  <2>7. Len(h) = AtMost(n, GroupLimit)
    BY <1>3, <2>3, <2>4, <2>6
  <2> QED BY <2>2, <2>3, <2>4, <2>5, <2>7
<1>6. IsFiniteSet(G)
  <2> DEFINE of == [d \in C |-> ix.records[d].group]
  <2>1. {ix.records[d].group : d \in C} = {of[d] : d \in C}
    OBVIOUS
  <2> HIDE DEF of
  <2>2. IsFiniteSet({of[d] : d \in C})
    BY ImageIsFinite
  <2>3. G \in SUBSET {of[d] : d \in C}
    BY <2>1
  <2> HIDE DEF G
  <2> QED BY <2>2, <2>3, FS_Subset
<1>7. DOMAIN c = G
  OBVIOUS
<1>8. \A g, h : g # h => group(g) \cap group(h) = {}
  OBVIOUS
<1> DEFINE U == UNION {f[g] : g \in G}
<1>9. AllAllowed(ix, items) = group(0) \cup U
  <2>1. \A g \in G : f[g] = Elements(Take(shared(g), GroupLimit))
    OBVIOUS
  <2> HIDE DEF f, c
  <2>2. ASSUME NEW d \in C, ix.records[d].group = 0
        PROVE  Elements(Allowed(ix, items[key(d)])) = {d}
    <3> DEFINE s == items[key(d)]
    <3>1. key(d) \in K /\ s \in Seq(C) /\ s # <<>> /\ Elements(s) = {e \in C : key(e) = key(d)}
      BY <1>1, <1>2
    <3>2. \A e \in C : key(e) = key(d) => e = d
      BY <2>2, KeysTell
    <3> HIDE DEF key, s
    <3>3. Elements(s) = {d}
      BY <3>1, <3>2
    <3>4. s[1] = d
      BY <3>1, <3>3 DEF Elements
    <3> QED BY <2>2, <3>3, <3>4 DEF Allowed, s
  <2>3. ASSUME NEW d \in C, ix.records[d].group # 0
        PROVE  LET g == ix.records[d].group IN
               g \in G /\ key(d) = <<"group", g>> /\ Elements(Allowed(ix, items[key(d)])) = f[g]
    <3> DEFINE g == ix.records[d].group
               s == shared(g)
    <3>1. g \in G /\ key(d) = <<"group", g>>
      BY <2>3 DEF GroupKey
    <3>2. s \in Seq(C) /\ s # <<>> /\ Elements(s) = group(g)
      BY <1>2, <1>4, <3>1
    <3>3. s[1] \in Elements(s)
      <4> HIDE DEF s
      <4> QED BY <3>2 DEF Elements
    <3>4. ix.records[s[1]].group = g
      BY <3>2, <3>3
    <3>5. Allowed(ix, s) = Take(s, GroupLimit)
      <4> HIDE DEF s
      <4> QED BY <2>3, <3>4 DEF Allowed
    <3> QED BY <2>1, <3>1, <3>5
  <2> HIDE DEF key, shared
  <2>4. AllAllowed(ix, items) = UNION {Elements(Allowed(ix, items[key(d)])) : d \in C}
    BY <1>1 DEF AllAllowed, K
  <2> DEFINE part(d) == Elements(Allowed(ix, items[key(d)]))
  <2>5. \A d \in C : IF ix.records[d].group = 0 THEN part(d) = {d}
                     ELSE ix.records[d].group \in G /\ part(d) = f[ix.records[d].group]
    BY <2>2, <2>3
  <2>6. \A g \in G : \E d \in C : ix.records[d].group = g /\ g # 0
    OBVIOUS
  <2> HIDE DEF part, G
  <2>7. UNION {part(d) : d \in C} \subseteq group(0) \cup U
    BY <2>5
  <2>8. group(0) \subseteq UNION {part(d) : d \in C}
    BY <2>5
  <2>9. U \subseteq UNION {part(d) : d \in C}
    BY <2>5, <2>6
  <2> QED BY <2>4, <2>7, <2>8, <2>9 DEF part
<1>10. group(0) \in SUBSET C /\ group(0) \cap U = {}
  <2>1. \A g \in G : g # 0 /\ f[g] \subseteq group(g)
    BY <1>5
  <2> HIDE DEF f, c
  <2> QED BY <1>8, <2>1
<1> HIDE DEF f, c, G, group
<1>11. Parted(c, G, f)
  BY <1>5, <1>8 DEF Parted
<1>12. IsFiniteSet(U) /\ Total(c) = Cardinality(U)
  BY <1>6, <1>7, <1>11, PartsAreCounted
<1> HIDE DEF U
<1>13. IsFiniteSet(group(0))
  BY <1>10, FS_Subset
<1>14. Cardinality(group(0)) + Total(c) = Cardinality(AllAllowed(ix, items))
  BY <1>9, <1>10, <1>12, <1>13, TwoAreCounted
<1> QED BY <1>14 DEF c, G, group

LEMMA RerankedIsFull ==
    ASSUME NEW ix, Usable(ix), NEW q \in Questions, NEW topK \in Nat, NEW order \in Orders,
           NEW S \in SUBSET Docs, \A d \in S : ix.records[d] \in Records,
           NEW score \in [S -> Nat], NEW items, Groups(ix, items, S),
           \A k \in DOMAIN items : Once(items[k]), NEW plain \in [DOMAIN items -> Nat]
    PROVE  LET hits == Reranked(ix, q, topK, order, score, items, plain)
               limit == AtMost(topK, Cardinality(ix.table))
               n == Cardinality(AllAllowed(ix, items))
           IN  /\ Once(hits) /\ IsFiniteSet(AllAllowed(ix, items))
               /\ Len(hits) = (IF limit <= n THEN limit ELSE n)
<1> DEFINE K == DOMAIN items
           worth == [k \in K |-> Weighed(ix, q, items[k], plain[k])]
           groups == SortedGroups(order, items, plain, worth)
           lists == [i \in DOMAIN groups |-> items[groups[i]]]
           limit == AtMost(topK, Cardinality(ix.table))
           taken == Taken(lists, limit, ix)
           hits == [i \in DOMAIN taken |-> [doc |-> taken[i], score |-> score[taken[i]]]]
           n == Cardinality(AllAllowed(ix, items))
<1>1. Reranked(ix, q, topK, order, score, items, plain) = hits
  BY DEF Reranked
<1>2. worth \in [K -> Nat]
  <2>1. ASSUME NEW k \in K PROVE Weighed(ix, q, items[k], plain[k]) \in Nat
    <3>1. items[k] \in Seq(S) /\ plain[k] \in Nat
      BY DEF Groups
    <3> QED BY <3>1, WeighedType
  <2> QED BY <2>1
<1> HIDE DEF worth
<1>3. Lists(groups, K)
  BY <1>2, SortedGroupsList
<1> HIDE DEF groups
<1>4. limit \in Nat
  <2>1. Cardinality(ix.table) \in Nat
    BY PresentAre, FS_CardinalityType DEF Usable
  <2> QED BY <2>1, AtMostType
<1> HIDE DEF limit
<1>5. /\ taken \in Seq(S) /\ Once(taken) /\ IsFiniteSet(AllAllowed(ix, items))
      /\ Len(taken) = IF limit <= n THEN limit ELSE n
  BY <1>3, <1>4, TakenIsFull
<1> HIDE DEF taken, n
<1>6. Once(hits) /\ Len(hits) = Len(taken)
  <2>1. DOMAIN taken = 1 .. Len(taken) /\ Len(taken) \in Nat
    BY <1>5
  <2>2. DOMAIN hits = DOMAIN taken /\ \A i \in DOMAIN taken : hits[i].doc = taken[i]
    OBVIOUS
  <2>3. hits \in Seq(Hits(S)) /\ Len(hits) \in Nat /\ DOMAIN hits = 1 .. Len(hits)
    <3>1. hits \in Seq(Hits(S))
      <4> HIDE DEF hits
      <4> QED BY <1>1, RerankedAre
    <3> HIDE DEF hits
    <3> QED BY <3>1
  <2> HIDE DEF hits
  <2>4. Once(hits)
    BY <1>5, <2>2 DEF Once
  <2> QED BY <2>1, <2>2, <2>3, <2>4
<1> QED BY <1>1, <1>5, <1>6 DEF limit, n

\* What a set of candidates has room for.
RoomOf(ix, C) ==
    LET group(g) == {d \in C : ix.records[d].group = g}
        G == {ix.records[d].group : d \in C} \ {0}
    IN  Cardinality(group(0)) + Total([g \in G |-> AtMost(Cardinality(group(g)), GroupLimit)])

LEMMA RoomIsOfCandidates ==
    ASSUME NEW ix, Usable(ix), NEW q, NEW order
    PROVE  /\ Room(ix, q, order) = RoomOf(ix, Candidates(ix, Scoped(ix, q, order)))
           /\ Candidates(ix, Scoped(ix, q, order)) \subseteq ix.table
<1> DEFINE C == {row.doc : row \in Scoped(ix, q, order)}
<1>1. C \subseteq ix.table
  BY RowsAreOfTheTable DEF Scoped
<1>2. C = Candidates(ix, Scoped(ix, q, order)) /\ C \subseteq ix.table
  BY <1>1 DEF Candidates, Usable
<1> HIDE DEF C
<1>3. Room(ix, q, order) = RoomOf(ix, C)
  BY DEF Room, RoomOf, Sum, C
<1> QED BY <1>2, <1>3

LEMMA AnswerFromIsFull ==
    ASSUME NEW ix, Usable(ix), Cardinality(ix.table) <= FinalWindow,
           NEW q \in Questions, NEW topK \in Nat, NEW order \in Orders,
           NEW rows, Valued(rows), NEW score \in [Candidates(ix, rows) -> Nat \ {0}]
    PROVE  LET hits == AnswerFrom(ix, q, topK, order, rows, score)
               room == RoomOf(ix, Candidates(ix, rows))
           IN  Once(hits) /\ room \in Nat /\ Len(hits) = (IF topK <= room THEN topK ELSE room)
<1> DEFINE C == Candidates(ix, rows)
           found == {d \in DOMAIN score : score[d] > 0}
           ranking == Best(found, score, order)
           m == Cardinality(ix.table)
           ranked == Take(ranking, AtMost(FinalWindow, m))
           items == Grouped(ix, ranked)
           plain == [k \in DOMAIN items |-> GroupScore(ix, q, rows, score, items[k])]
<1>1. AnswerFrom(ix, q, topK, order, rows, score) = Reranked(ix, q, topK, order, score, items, plain)
  BY DEF AnswerFrom
<1>2. C \in SUBSET Docs /\ IsFiniteSet(C) /\ \A d \in C : ix.records[d] \in Records
  BY CandidatesAre
<1>3. found = C /\ score \in [C -> Nat]
  <2> HIDE DEF C
  <2>1. score \in [C -> Nat \ {0}]
    BY DEF C
  <2> QED BY <2>1
<1>4. C \in SUBSET ix.table /\ IsFiniteSet(ix.table)
  BY PresentAre DEF Candidates, Usable
<1> HIDE DEF C, found
<1>5. Lists(ranking, C)
  <2>1. Places(C, score, order)
    BY <1>2, <1>3, OrderedDocs
  <2> QED BY <1>2, <1>3, <2>1, BestLists
<1> HIDE DEF ranking
<1>6. m \in Nat /\ Cardinality(C) \in Nat /\ Cardinality(C) <= m
  BY <1>2, <1>4, FS_Subset, FS_CardinalityType
<1> HIDE DEF m
<1>7. AtMost(FinalWindow, m) = m
  <2>1. FinalWindow \in Nat /\ m <= FinalWindow
    BY ScoringAssumption DEF m
  <2> QED BY <1>6, <2>1, MinOfTwo DEF AtMost
<1>8. ranked \in Seq(C) /\ Once(ranked) /\ Elements(ranked) = C
  <2>1. ranking \in Seq(C) /\ Once(ranking) /\ Len(ranking) = Cardinality(C) /\ Elements(ranking) = C
    BY <1>5 DEF Lists, Once
  <2> HIDE DEF ranked
  <2>2. /\ ranked \in Seq(C) /\ Len(ranked) = (IF m <= Len(ranking) THEN m ELSE Len(ranking))
        /\ DOMAIN ranked = 1 .. Len(ranked)
        /\ \A i \in DOMAIN ranked : ranked[i] = ranking[i]
    BY <1>6, <1>7, <2>1, TakeIsHead DEF ranked
  <2>3. Len(ranked) = Len(ranking) /\ DOMAIN ranking = 1 .. Len(ranking)
    BY <1>6, <2>1, <2>2
  <2> QED BY <2>1, <2>2, <2>3 DEF Elements, Once
<1> HIDE DEF ranked
<1>9. /\ Groups(ix, items, C) /\ AllGrouped(ix, items, C)
      /\ \A k \in DOMAIN items : Once(items[k])
  BY <1>8, GroupedAre
<1> HIDE DEF items
<1>10. plain \in [DOMAIN items -> Nat]
  <2>1. ASSUME NEW k \in DOMAIN items PROVE GroupScore(ix, q, rows, score, items[k]) \in Nat
    <3>1. items[k] \in Seq(C) /\ items[k] # <<>>
      BY <1>9 DEF Groups
    <3>2. IsFiniteSet(rows)
      BY DEF Valued
    <3> QED BY <1>3, <3>1, <3>2, GroupScoreType
  <2> QED BY <2>1
<1> HIDE DEF plain
<1> DEFINE hits == Reranked(ix, q, topK, order, score, items, plain)
           limit == AtMost(topK, m)
           n == Cardinality(AllAllowed(ix, items))
<1>11. Once(hits) /\ IsFiniteSet(AllAllowed(ix, items)) /\ Len(hits) = IF limit <= n THEN limit ELSE n
  BY <1>2, <1>3, <1>9, <1>10, RerankedIsFull DEF m
<1> HIDE DEF hits
<1>12. RoomOf(ix, C) = n
  BY <1>2, <1>9, RoomIsAllowed DEF RoomOf
<1>13. AllAllowed(ix, items) \in SUBSET C
  <2>1. ASSUME NEW k \in DOMAIN items PROVE Elements(Allowed(ix, items[k])) \subseteq C
    <3>1. items[k] \in Seq(C) /\ Once(items[k])
      BY <1>9 DEF Groups
    <3>2. Elements(Allowed(ix, items[k])) \subseteq Elements(items[k])
      BY <3>1, AllowedIs
    <3>3. Elements(items[k]) \subseteq C
      BY <3>1, ElementsAreFinite
    <3> QED BY <3>2, <3>3
  <2> QED BY <2>1 DEF AllAllowed
<1>14. n \in Nat /\ n <= Cardinality(C)
  BY <1>2, <1>11, <1>13, FS_Subset, FS_CardinalityType
<1> HIDE DEF n
<1>15. limit = IF topK <= m THEN topK ELSE m
  BY <1>6, MinOfTwo DEF AtMost
<1>16. Len(hits) = IF topK <= n THEN topK ELSE n
  BY <1>6, <1>11, <1>14, <1>15
<1> QED BY <1>1, <1>11, <1>12, <1>14, <1>16 DEF hits, C

\* The index is asked for no fewer hits than the caller gives.
LEMMA DepthIsEnough ==
    ASSUME NEW q \in Questions
    PROVE  q.topK \in Nat /\ SearchDepth(q) \in Nat /\ SearchDepth(q) >= q.topK
<1>1. q.topK \in Nat
  BY QuestionIs
<1> DEFINE n == q.topK
<1>2. SearchDepth(q) = IF q.intent = "none" THEN Max({5 * n, 20}) ELSE Max({10 * n, 25})
  BY DEF SearchDepth
<1> HIDE DEF n
<1>3. /\ Max({5 * n, 20}) = IF 5 * n >= 20 THEN 5 * n ELSE 20
      /\ Max({10 * n, 25}) = IF 10 * n >= 25 THEN 10 * n ELSE 25
  <2>1. 5 * n \in Int /\ 20 \in Int /\ 10 * n \in Int /\ 25 \in Int
    BY <1>1 DEF n
  <2> QED BY <2>1, MaxOfTwo
<1>4. n \in Nat
  BY <1>1 DEF n
<1>5. SearchDepth(q) \in Nat /\ SearchDepth(q) >= n
  BY <1>2, <1>3, <1>4
<1> QED BY <1>1, <1>5 DEF n

LEMMA UntimedIsFull ==
    ASSUME NEW ix, Usable(ix), Cardinality(ix.table) <= FinalWindow,
           NEW q \in Queries, NEW order \in Orders, Untimed(q, TargetOf(q))
    PROVE  Cardinality(Elements(TemporalAnswer(ix, q, order))) = AtMost(Room(ix, q, order), q.topK)
<1> DEFINE target == TargetOf(q)
           iq == IndexQuery(q, target)
           depth == SearchDepth(q)
           rows == Scoped(ix, iq, order)
           C == Candidates(ix, rows)
           found == Answer(ix, iq, depth, order)
           n == Room(ix, q, order)
           m == q.topK
           hits == Take(found, m)
<1>1. q \in Questions /\ IsFiniteSet(q.expanded)
  BY QueriesAssumption, ListsAssumption
<1>2. m \in Nat /\ depth \in Nat /\ depth >= m
  BY <1>1, DepthIsEnough
<1>3. TemporalAnswer(ix, q, order) = hits
  BY DEF TemporalAnswer, TargetedAnswer
<1>4. iq \in Questions /\ IsFiniteSet(iq.expanded) /\ rows = Scoped(ix, q, order)
  BY <1>1, SameRows
<1> HIDE DEF iq, depth, m
<1>5. n = RoomOf(ix, C)
  BY <1>4, RoomIsOfCandidates
<1>6. found = AnswerFrom(ix, iq, depth, order, rows, Scores(ix, iq, rows, order))
  BY DEF Answer
<1>7. found \in Seq(Hits(C))
  BY <1>2, <1>4, AnswerIs
<1>8. Valued(rows)
  <2>1. Valued(PostingRows(ix, iq, order))
    BY <1>4, PostingRowsAreValued
  <2>2. rows \in SUBSET PostingRows(ix, iq, order)
    BY DEF Scoped
  <2> HIDE DEF rows
  <2> QED BY <2>1, <2>2, FS_Subset DEF Valued
<1> HIDE DEF rows, n
<1>9. Scores(ix, iq, rows, order) \in [C -> Nat \ {0}]
  BY <1>4, <1>8, ScoresType
<1>10. Once(found) /\ n \in Nat /\ Len(found) = IF depth <= n THEN depth ELSE n
  BY <1>2, <1>4, <1>5, <1>6, <1>8, <1>9, AnswerFromIsFull
<1> HIDE DEF found, C
<1>11. /\ hits \in Seq(Hits(C)) /\ Once(hits)
       /\ Len(hits) = IF m <= Len(found) THEN m ELSE Len(found)
  BY <1>2, <1>7, <1>10, TakeIsHead, HeadIsOnce
<1> HIDE DEF hits
<1>12. Cardinality(Elements(hits)) = Len(hits)
  BY <1>11, OnceIsCounted
<1>13. AtMost(n, m) = IF n <= m THEN n ELSE m
  BY <1>2, <1>10, MinOfTwo DEF AtMost
<1>14. Len(hits) = AtMost(n, m)
  BY <1>2, <1>10, <1>11, <1>13
<1> QED BY <1>3, <1>12, <1>14 DEF n, m

(* An untimed answer of an index no larger than the final window has as many  *)
(* hits as were asked for, or every candidate its groups have room for: a     *)
(* group at its limit costs no other group its place.                         *)
THEOREM AnswerIsFullHolds == Spec => AnswerIsFull
<1>1. IndexInv /\ BuiltInv /\ [Next]_vars
        => [answer' \notin {answer, NoIndex} =>
              LET q == answer'.query IN
              Untimed(q, TargetOf(q)) /\ Cardinality(index.table) <= FinalWindow =>
                Cardinality(Elements(answer'.hits)) = AtMost(Room(index, q, answer'.order), q.topK)]_vars
  <2> SUFFICES ASSUME IndexInv, BuiltInv, [Next]_vars, answer' \notin {answer, NoIndex},
                      Untimed(answer'.query, TargetOf(answer'.query)),
                      Cardinality(index.table) <= FinalWindow
               PROVE  Cardinality(Elements(answer'.hits))
                        = AtMost(Room(index, answer'.query, answer'.order), answer'.query.topK)
    OBVIOUS
  <2>1. PICK q \in Queries, order \in Orders : Query(q, order)
    BY DEF Next, Upsert, RemoveDocument, Refresh, Reopen, vars
  <2>2. index # NoIndex
          /\ answer' = [query |-> q, order |-> order, hits |-> TemporalAnswer(index, q, order)]
    BY <2>1 DEF Query
  <2>3. Usable(index)
    BY <2>2, IndexIsUsable
  <2>4. /\ answer'.query = q /\ answer'.order = order
        /\ answer'.hits = TemporalAnswer(index, q, order)
    BY <2>2
  <2>5. Cardinality(Elements(TemporalAnswer(index, q, order))) = AtMost(Room(index, q, order), q.topK)
    BY <2>3, <2>4, UntimedIsFull
  <2> QED BY <2>4, <2>5
<1> QED BY <1>1, IndexInvHolds, BuiltInvHolds, PTL DEF AnswerIsFull, Spec
===============================================================================
