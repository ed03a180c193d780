------------------------- MODULE HistorySearchProofs -------------------------
(***************************************************************************)
(* Proofs about HistorySearch for any files, sizes, rooms and limits, and  *)
(* any number of entries, pages and moves.                                 *)
(***************************************************************************)
EXTENDS HistorySearch, FiniteSetTheorems, WellFoundedInduction, TLAPS

----------------------------------------------------------------------------
(* The first and the last of a set of positions. *)

LEMMA Least ==
  ASSUME NEW T \in SUBSET Nat, NEW n \in T
  PROVE  \E x \in T : \A y \in T : x <= y
<1> DEFINE Below == OpToRel(<, Nat)
<1>1. Below = {ss \in Nat \X Nat : ss[1] < ss[2]}
  BY DEF OpToRel
<1>2. IsWellFoundedOn(Below, Nat)
  BY NatLessThanWellFounded
<1> HIDE DEF Below
<1>3. \A x, y \in Nat : y < x => <<y, x>> \in Below
  BY <1>1
<1>4. PICK x \in T : \A y \in T : ~ (<<y, x>> \in Below)
  BY <1>2, WFMin
<1>5. \A y \in T : ~ (y < x)
  BY <1>3, <1>4
<1>6. \A y \in T : x <= y
  BY <1>5
<1> QED BY <1>6

\* Only what the fold over a sequence takes the maximum of.
LEMMA MaxIs ==
  ASSUME NEW n \in Nat, NEW S \in SUBSET (1..n), NEW m \in S, \A i \in S : i <= m
  PROVE  Max(S) = m
<1>1. \A x \in S : (\A y \in S : x >= y) => x = m
  <2> SUFFICES ASSUME NEW x \in S, \A y \in S : x >= y PROVE x = m
    OBVIOUS
  <2>1. x >= m /\ x <= m /\ x \in Int /\ m \in Int
    OBVIOUS
  <2> QED BY <2>1
<1>2. \A y \in S : m >= y
  OBVIOUS
<1> QED BY <1>1, <1>2 DEF Max

----------------------------------------------------------------------------
(* A set of positions from the newest. *)

Above(S, i) == {j \in S : j > i}

LEMMA FiniteAbove ==
  ASSUME NEW n \in Nat, NEW S \in SUBSET (1..n), NEW i
  PROVE  /\ IsFiniteSet(S) /\ IsFiniteSet(Above(S, i))
         /\ Cardinality(S) \in Nat /\ Cardinality(Above(S, i)) \in Nat
         /\ Cardinality(Above(S, i)) <= Cardinality(S)
<1>1. IsFiniteSet(1..n)
  BY FS_Interval
<1>2. IsFiniteSet(S)
  BY <1>1, FS_Subset
<1>3. Above(S, i) \in SUBSET S
  BY DEF Above
<1>4. IsFiniteSet(Above(S, i)) /\ Cardinality(Above(S, i)) <= Cardinality(S)
  BY <1>2, <1>3, FS_Subset
<1> QED BY <1>2, <1>4, FS_CardinalityType

\* The lower of two members has more above it, itself not counted.
LEMMA MoreAbove ==
  ASSUME NEW n \in Nat, NEW S \in SUBSET (1..n), NEW i \in S, NEW m \in Int, m < i
  PROVE  Cardinality(Above(S, i)) < Cardinality(Above(S, m))
<1>1. IsFiniteSet(Above(S, m)) /\ Cardinality(Above(S, m)) \in Nat /\ Cardinality(Above(S, i)) \in Nat
  BY FiniteAbove
<1>2. i \in Above(S, m)
  BY DEF Above
<1>3. /\ IsFiniteSet(Above(S, m) \ {i})
      /\ Cardinality(Above(S, m) \ {i}) = Cardinality(Above(S, m)) - 1
  BY <1>1, <1>2, FS_RemoveElement
<1>4. Above(S, i) \in SUBSET (Above(S, m) \ {i})
  <2>1. \A j \in S : j > i => j > m /\ j # i
    OBVIOUS
  <2> QED BY <2>1 DEF Above
<1>5. Cardinality(Above(S, i)) <= Cardinality(Above(S, m) \ {i})
  BY <1>3, <1>4, FS_Subset
<1> QED BY <1>1, <1>3, <1>5

LEMMA RankExists ==
  ASSUME NEW n \in Nat, NEW S \in SUBSET (1..n)
  PROVE  /\ \A k \in 1..Cardinality(S) : \E i \in S : Cardinality(Above(S, i)) = k - 1
         /\ \A i \in S : Cardinality(Above(S, i)) + 1 \in 1..Cardinality(S)
         /\ \A i, j \in S : Cardinality(Above(S, i)) = Cardinality(Above(S, j)) => i = j
<1> DEFINE N == Cardinality(S)
           rank == [i \in S |-> Cardinality(Above(S, i)) + 1]
<1>1. IsFiniteSet(S) /\ N \in Nat
  BY FiniteAbove
<1>2. \A i \in S : Cardinality(Above(S, i)) \in Nat
  BY FiniteAbove
<1>3. ASSUME NEW i \in S PROVE Cardinality(Above(S, i)) + 1 \in 1..N
  <2>1. Above(S, i) \in SUBSET (S \ {i})
    <3>1. \A j \in S : j > i => j # i
      OBVIOUS
    <3> QED BY <3>1 DEF Above
  <2>2. IsFiniteSet(S \ {i}) /\ Cardinality(S \ {i}) = N - 1
    BY <1>1, FS_RemoveElement
  <2>3. Cardinality(Above(S, i)) <= N - 1
    BY <2>1, <2>2, FS_Subset
  <2> QED BY <1>1, <1>2, <2>3
<1>4. rank \in [S -> 1..N]
  BY <1>3
<1>5. ASSUME NEW i \in S, NEW j \in S, Cardinality(Above(S, i)) = Cardinality(Above(S, j)) PROVE i = j
  <2>1. ~(i < j) /\ ~(j < i)
    BY <1>2, <1>5, MoreAbove
  <2> QED BY <2>1
<1>6. \A i, j \in S : rank[i] = rank[j] => i = j
  BY <1>2, <1>5
<1>7. rank \in Injection(S, 1..N)
  BY <1>4, <1>6, Zenon DEF Injection, IsInjective
<1>8. IsFiniteSet(1..N) /\ Cardinality(1..N) = N
  BY <1>1, FS_Interval
<1>9. rank \in Surjection(S, 1..N)
  <2> HIDE DEF rank
  <2> QED BY <1>7, <1>8, FS_Injection
<1>10. ASSUME NEW k \in 1..N PROVE \E i \in S : Cardinality(Above(S, i)) = k - 1
  <2>1. PICK i \in S : rank[i] = k
    <3> HIDE DEF rank, N
    <3> QED BY <1>9, <1>10 DEF Surjection
  <2>2. Cardinality(Above(S, i)) + 1 = k
    BY <2>1
  <2> QED BY <1>2, <2>2
<1> QED BY <1>3, <1>5, <1>10

LEMMA NewestFirstIs ==
  ASSUME NEW f, NEW n \in Nat, NEW S \in SUBSET (1..n)
  PROVE  /\ Cardinality(S) \in Nat /\ DOMAIN NewestFirst(f, S) = 1..Cardinality(S)
         /\ \A k \in 1..Cardinality(S) : \E i \in S : NewestFirst(f, S)[k] = At(f, i)
         /\ \A i \in S : \E k \in 1..Cardinality(S) : NewestFirst(f, S)[k] = At(f, i)
         /\ \A k, l \in 1..Cardinality(S) :
              k < l => NewestFirst(f, S)[l].pos < NewestFirst(f, S)[k].pos
<1> DEFINE N == Cardinality(S)
           Place(k) == CHOOSE i \in S : Cardinality({j \in S : j > i}) = k - 1
<1>0. \A i \in S : i \in Int
  OBVIOUS
<1>1. N \in Nat /\ \A i \in S : Cardinality(Above(S, i)) \in Nat
  BY FiniteAbove
<1>2. DOMAIN NewestFirst(f, S) = 1..N /\ \A k \in 1..N : NewestFirst(f, S)[k] = At(f, Place(k))
  BY DEF NewestFirst
<1>3. ASSUME NEW k \in 1..N
      PROVE  Place(k) \in S /\ Cardinality(Above(S, Place(k))) = k - 1
  <2>1. \E i \in S : Cardinality({j \in S : j > i}) = k - 1
    BY RankExists DEF Above
  <2> QED BY <2>1 DEF Above
<1> HIDE DEF Place
<1>4. ASSUME NEW i \in S
      PROVE  \E k \in 1..N : NewestFirst(f, S)[k] = At(f, i)
  <2>1. PICK k \in 1..N : k = Cardinality(Above(S, i)) + 1
    BY RankExists
  <2>2. Cardinality(Above(S, Place(k))) = Cardinality(Above(S, i))
    BY <1>1, <1>3, <2>1
  <2>3. Place(k) = i
    BY <1>3, <2>2, RankExists
  <2> QED BY <1>2, <2>3
<1>5. ASSUME NEW k \in 1..N, NEW l \in 1..N, k < l
      PROVE  Place(l) < Place(k)
  <2>1. Place(k) \in Int /\ Place(l) \in Int
    BY <1>0, <1>3, <1>5
  <2>2. Place(k) # Place(l)
    BY <1>3, <1>5, <1>1
  <2>3. ASSUME Place(k) < Place(l) PROVE FALSE
    <3>1. Cardinality(Above(S, Place(l))) < Cardinality(Above(S, Place(k)))
      BY <1>3, <2>1, <2>3, MoreAbove
    <3> QED BY <1>1, <1>3, <1>5, <3>1
  <2> QED BY <2>1, <2>2, <2>3
<1>6. \A k \in 1..N : NewestFirst(f, S)[k].pos = Place(k)
  BY <1>2 DEF At
<1> QED BY <1>1, <1>2, <1>3, <1>4, <1>5, <1>6

\* What is left out is older than all that is kept, and then enough is kept.
LEMMA LatestIs ==
  ASSUME NEW n \in Nat, NEW S \in SUBSET (1..n), NEW m \in Nat
  PROVE  /\ Latest(S, m) \in SUBSET S
         /\ \A i \in S \ Latest(S, m) : \A j \in Latest(S, m) : i < j
         /\ S # Latest(S, m) => Cardinality(Latest(S, m)) >= m
         /\ \A i \in S : m > 0 /\ (\A j \in S : j <= i) => i \in Latest(S, m)
<1> DEFINE L == Latest(S, m)
<1>0. \A i \in S : i \in Int
  OBVIOUS
<1>1. L \in SUBSET S /\ \A i \in S : i \in L <=> Cardinality(Above(S, i)) < m
  BY DEF Latest, Above
<1>2. \A i \in S : Cardinality(Above(S, i)) \in Nat /\ Cardinality(Above(S, i)) <= Cardinality(S)
  BY FiniteAbove
<1>7. Cardinality(S) \in Nat
  BY FiniteAbove
<1>3. ASSUME NEW i \in S \ L, NEW j \in L
      PROVE  i < j
  <2>1. j \in S /\ i \in Int /\ j \in Int
    BY <1>0, <1>1
  <2>2. ~(i = j) /\ Cardinality(Above(S, j)) < Cardinality(Above(S, i))
    BY <1>1, <1>2, <1>3, <2>1
  <2>3. ~(j < i)
    <3>1. ASSUME j < i PROVE Cardinality(Above(S, i)) < Cardinality(Above(S, j))
      BY <2>1, <3>1, MoreAbove
    <3> QED BY <1>2, <2>1, <2>2, <3>1
  <2> QED BY <2>1, <2>2, <2>3
<1>4. ASSUME NEW i \in S, i \notin L
      PROVE  Cardinality(L) >= m
  <2>1. m \in 1..Cardinality(S) \/ m = 0
    <3>1. Cardinality(Above(S, i)) >= m /\ Cardinality(Above(S, i)) <= Cardinality(S) /\ Cardinality(S) \in Nat
      BY <1>1, <1>2, <1>4, <1>7
    <3> QED BY <3>1, <1>2
  <2>2. IsFiniteSet(L) /\ Cardinality(L) \in Nat
    BY <1>1, FiniteAbove
  <2>3. CASE m \in 1..Cardinality(S)
    <3> DEFINE At2 == [k \in 1..m |-> CHOOSE j \in S : Cardinality(Above(S, j)) = k - 1]
    <3>1. ASSUME NEW k \in 1..m
          PROVE  At2[k] \in L /\ Cardinality(Above(S, At2[k])) = k - 1
      <4>1. k \in 1..Cardinality(S)
        BY <1>7, <2>3
      <4>2. \E j \in S : Cardinality(Above(S, j)) = k - 1
        BY <4>1, RankExists
      <4>3. At2[k] \in S /\ Cardinality(Above(S, At2[k])) = k - 1
        BY <4>2
      <4>4. k - 1 < m
        OBVIOUS
      <4> QED BY <1>1, <4>3, <4>4
    <3>2. At2 \in [1..m -> L]
      BY <3>1
    <3>3. \A k, l \in 1..m : At2[k] = At2[l] => k = l
      <4> HIDE DEF At2
      <4>1. ASSUME NEW k \in 1..m, NEW l \in 1..m, At2[k] = At2[l] PROVE k = l
        <5>1. k - 1 = l - 1
          BY <3>1, <4>1
        <5> QED BY <5>1
      <4> QED BY <4>1
    <3>4. At2 \in Injection(1..m, L)
      BY <3>2, <3>3, Zenon DEF Injection, IsInjective
    <3>5. Cardinality(1..m) <= Cardinality(L) /\ Cardinality(1..m) = m
      <4> HIDE DEF At2
      <4> QED BY <2>2, <3>4, FS_Injection, FS_Interval
    <3> QED BY <2>2, <3>5
  <2> QED BY <2>1, <2>2, <2>3
<1>5. S # L => \E i \in S : i \notin L
  BY <1>1
<1>6. ASSUME NEW i \in S, m > 0, \A j \in S : j <= i
      PROVE  i \in L
  <2>1. Above(S, i) = {}
    <3>1. \A j \in S : ~(j > i)
      BY <1>6
    <3> QED BY <3>1 DEF Above
  <2>2. Cardinality(Above(S, i)) = 0
    BY <2>1, FS_EmptySet
  <2> QED BY <1>1, <1>6, <2>2
<1> QED BY <1>1, <1>3, <1>4, <1>5, <1>6

----------------------------------------------------------------------------
(* Induction along the three folds. *)

LEMMA PrefixInduction ==
  ASSUME NEW n \in Nat, NEW G, NEW T, G[{}] \in T[0],
         \A k \in 1..n : G[1..(k - 1)] \in T[k - 1] => G[1..k] \in T[k]
  PROVE  G[1..n] \in T[n]
<1> DEFINE Bad == {m \in 0..n : G[1..m] \notin T[m]}
<1>0. n \in 0..n
  OBVIOUS
<1>1. SUFFICES ASSUME G[1..n] \notin T[n] PROVE FALSE
  OBVIOUS
<1>2. PICK m \in Bad : \A j \in Bad : m <= j
  <2>1. Bad \in SUBSET Nat
    OBVIOUS
  <2>2. n \in Bad
    BY <1>0, <1>1
  <2> HIDE DEF Bad
  <2> QED BY <2>1, <2>2, Least
<1>3. m \in 0..n /\ G[1..m] \notin T[m]
  BY <1>2
<1>4. m # 0
  <2>1. 1..0 = {}
    OBVIOUS
  <2> QED BY <1>3, <2>1
<1>5. m - 1 \in 0..n /\ ~(m <= m - 1) /\ m \in 1..n
  BY <1>3, <1>4
<1>6. G[1..(m - 1)] \in T[m - 1]
  BY <1>2, <1>5
<1> QED BY <1>3, <1>5, <1>6

IsFoldAdd(b, hits, n, g) ==
  g = [S \in SUBSET (1..n) |->
         IF S = {} THEN b ELSE Add(g[S \ {Max(S)}], hits[Max(S)])]
FoldAdd(b, hits, n) == CHOOSE g : IsFoldAdd(b, hits, n, g)

LEMMA AddInduction ==
  ASSUME NEW b, NEW hits, NEW n \in Nat, DOMAIN hits = 1..n, NEW T, b \in T[0],
         \A k \in 1..n : \A s \in T[k - 1] : Add(s, hits[k]) \in T[k]
  PROVE  FoldLeft(Add, b, hits) \in T[n]
<1> DEFINE G == FoldAdd(b, hits, n)
<1>1. FoldLeft(Add, b, hits) = G[1..n]
  BY DEF FoldLeft, MapThenFoldSet, FoldAdd, IsFoldAdd
<1>2. \E g : IsFoldAdd(b, hits, n, g)
  <2> DEFINE Bad == {m \in 0..n : ~ \E g : IsFoldAdd(b, hits, m, g)}
  <2>1. SUFFICES ASSUME n \in Bad PROVE FALSE
    OBVIOUS
  <2>2. PICK m \in Bad : \A j \in Bad : m <= j
    <3>1. Bad \in SUBSET Nat
      OBVIOUS
    <3> HIDE DEF Bad
    <3> QED BY <2>1, <3>1, Least
  <2>3. m \in 0..n /\ ~ \E g : IsFoldAdd(b, hits, m, g)
    BY <2>2
  <2>4. m # 0
    <3>1. IsFoldAdd(b, hits, 0, [S \in SUBSET (1..0) |-> b])
      <4>1. \A S \in SUBSET (1..0) : S = {}
        BY SMT
      <4> QED BY <4>1 DEF IsFoldAdd
    <3> QED BY <2>3, <3>1
  <2>5. PICK g : IsFoldAdd(b, hits, m - 1, g)
    <3>1. m - 1 \in 0..n /\ ~(m <= m - 1)
      BY <2>3, <2>4
    <3> QED BY <2>2, <3>1
  <2> DEFINE h == [S \in SUBSET (1..m) |-> IF m \in S THEN Add(g[S \ {m}], hits[m]) ELSE g[S]]
  <2>6. \A S \in SUBSET (1..m) : /\ m \notin S => S \in SUBSET (1..(m - 1))
                                /\ S \ {m} \in SUBSET (1..(m - 1)) /\ S \ {m} \in SUBSET (1..m)
    BY <2>3
  <2>7. ASSUME NEW S \in SUBSET (1..m)
        PROVE  h[S] = IF S = {} THEN b ELSE Add(h[S \ {Max(S)}], hits[Max(S)])
    <3>1. CASE m \in S
      <4>1. Max(S) = m
        <5>1. \A i \in S : i <= m
          BY <2>3
        <5>2. m \in Nat
          BY <2>3
        <5> QED BY <3>1, <5>1, <5>2, MaxIs
      <4>2. h[S \ {m}] = g[S \ {m}]
        BY <2>6
      <4> QED BY <3>1, <4>1, <4>2
    <3>2. CASE m \notin S
      <4>1. S \in SUBSET (1..(m - 1)) /\ h[S] = g[S]
        BY <2>6, <3>2
      <4>2. S \ {Max(S)} \in SUBSET (1..m) /\ m \notin S \ {Max(S)}
        BY <3>2
      <4>3. h[S \ {Max(S)}] = g[S \ {Max(S)}]
        BY <4>2
      <4>4. g[S] = IF S = {} THEN b ELSE Add(g[S \ {Max(S)}], hits[Max(S)])
        <5> HIDE DEF h
        <5> QED BY <2>5, <4>1 DEF IsFoldAdd
      <4> HIDE DEF h
      <4> QED BY <4>1, <4>3, <4>4
    <3> QED BY <3>1, <3>2
  <2>8. IsFoldAdd(b, hits, m, h)
    <3>1. h = [S \in SUBSET (1..m) |-> h[S]]
      OBVIOUS
    <3> HIDE DEF h
    <3> QED BY <2>7, <3>1 DEF IsFoldAdd
  <2> HIDE DEF h
  <2> QED BY <2>3, <2>8
<1>3. IsFoldAdd(b, hits, n, G)
  BY <1>2 DEF FoldAdd
<1> HIDE DEF G
<1>4. \A S \in SUBSET (1..n) :
        G[S] = IF S = {} THEN b ELSE Add(G[S \ {Max(S)}], hits[Max(S)])
  BY <1>3 DEF IsFoldAdd
<1>5. G[{}] \in T[0]
  BY <1>4
<1>6. ASSUME NEW k \in 1..n, G[1..(k - 1)] \in T[k - 1]
      PROVE  G[1..k] \in T[k]
  <2>1. Max(1..k) = k
    <3>1. k \in 1..k /\ \A i \in 1..k : i <= k
      OBVIOUS
    <3>2. k \in Nat /\ 1..k \in SUBSET (1..k)
      OBVIOUS
    <3> QED BY <3>1, <3>2, MaxIs
  <2>2. (1..k) \ {k} = 1..(k - 1) /\ 1..k \in SUBSET (1..n) /\ k \in 1..k
    OBVIOUS
  <2>3. G[1..k] = Add(G[1..(k - 1)], hits[k])
    BY <1>4, <2>1, <2>2
  <2> QED BY <1>6, <2>3
<1>7. \A k \in 1..n : G[1..(k - 1)] \in T[k - 1] => G[1..k] \in T[k]
  BY <1>6
<1>8. G[1..n] \in T[n]
  BY <1>5, <1>7, PrefixInduction
<1> QED BY <1>1, <1>8

IsFoldAddUnlessEnough(b, hits, n, g) ==
  g = [S \in SUBSET (1..n) |->
         IF S = {} THEN b ELSE AddUnlessEnough(g[S \ {Max(S)}], hits[Max(S)])]
FoldAddUnlessEnough(b, hits, n) == CHOOSE g : IsFoldAddUnlessEnough(b, hits, n, g)

LEMMA BranchInduction ==
  ASSUME NEW b, NEW hits, NEW n \in Nat, DOMAIN hits = 1..n, NEW T, b \in T[0],
         \A k \in 1..n : \A s \in T[k - 1] : AddUnlessEnough(s, hits[k]) \in T[k]
  PROVE  FoldLeft(AddUnlessEnough, b, hits) \in T[n]
<1> DEFINE G == FoldAddUnlessEnough(b, hits, n)
<1>1. FoldLeft(AddUnlessEnough, b, hits) = G[1..n]
  BY DEF FoldLeft, MapThenFoldSet, FoldAddUnlessEnough, IsFoldAddUnlessEnough
<1>2. \E g : IsFoldAddUnlessEnough(b, hits, n, g)
  <2> DEFINE Bad == {m \in 0..n : ~ \E g : IsFoldAddUnlessEnough(b, hits, m, g)}
  <2>1. SUFFICES ASSUME n \in Bad PROVE FALSE
    OBVIOUS
  <2>2. PICK m \in Bad : \A j \in Bad : m <= j
    <3>1. Bad \in SUBSET Nat
      OBVIOUS
    <3> HIDE DEF Bad
    <3> QED BY <2>1, <3>1, Least
  <2>3. m \in 0..n /\ ~ \E g : IsFoldAddUnlessEnough(b, hits, m, g)
    BY <2>2
  <2>4. m # 0
    <3>1. IsFoldAddUnlessEnough(b, hits, 0, [S \in SUBSET (1..0) |-> b])
      <4>1. \A S \in SUBSET (1..0) : S = {}
        BY SMT
      <4> QED BY <4>1 DEF IsFoldAddUnlessEnough
    <3> QED BY <2>3, <3>1
  <2>5. PICK g : IsFoldAddUnlessEnough(b, hits, m - 1, g)
    <3>1. m - 1 \in 0..n /\ ~(m <= m - 1)
      BY <2>3, <2>4
    <3> QED BY <2>2, <3>1
  <2> DEFINE h == [S \in SUBSET (1..m) |-> IF m \in S THEN AddUnlessEnough(g[S \ {m}], hits[m]) ELSE g[S]]
  <2>6. \A S \in SUBSET (1..m) : /\ m \notin S => S \in SUBSET (1..(m - 1))
                                /\ S \ {m} \in SUBSET (1..(m - 1)) /\ S \ {m} \in SUBSET (1..m)
    BY <2>3
  <2>7. ASSUME NEW S \in SUBSET (1..m)
        PROVE  h[S] = IF S = {} THEN b ELSE AddUnlessEnough(h[S \ {Max(S)}], hits[Max(S)])
    <3>1. CASE m \in S
      <4>1. Max(S) = m
        <5>1. \A i \in S : i <= m
          BY <2>3
        <5>2. m \in Nat
          BY <2>3
        <5> QED BY <3>1, <5>1, <5>2, MaxIs
      <4>2. h[S \ {m}] = g[S \ {m}]
        BY <2>6
      <4> QED BY <3>1, <4>1, <4>2
    <3>2. CASE m \notin S
      <4>1. S \in SUBSET (1..(m - 1)) /\ h[S] = g[S]
        BY <2>6, <3>2
      <4>2. S \ {Max(S)} \in SUBSET (1..m) /\ m \notin S \ {Max(S)}
        BY <3>2
      <4>3. h[S \ {Max(S)}] = g[S \ {Max(S)}]
        BY <4>2
      <4>4. g[S] = IF S = {} THEN b ELSE AddUnlessEnough(g[S \ {Max(S)}], hits[Max(S)])
        <5> HIDE DEF h
        <5> QED BY <2>5, <4>1 DEF IsFoldAddUnlessEnough
      <4> HIDE DEF h
      <4> QED BY <4>1, <4>3, <4>4
    <3> QED BY <3>1, <3>2
  <2>8. IsFoldAddUnlessEnough(b, hits, m, h)
    <3>1. h = [S \in SUBSET (1..m) |-> h[S]]
      OBVIOUS
    <3> HIDE DEF h
    <3> QED BY <2>7, <3>1 DEF IsFoldAddUnlessEnough
  <2> HIDE DEF h
  <2> QED BY <2>3, <2>8
<1>3. IsFoldAddUnlessEnough(b, hits, n, G)
  BY <1>2 DEF FoldAddUnlessEnough
<1> HIDE DEF G
<1>4. \A S \in SUBSET (1..n) :
        G[S] = IF S = {} THEN b ELSE AddUnlessEnough(G[S \ {Max(S)}], hits[Max(S)])
  BY <1>3 DEF IsFoldAddUnlessEnough
<1>5. G[{}] \in T[0]
  BY <1>4
<1>6. ASSUME NEW k \in 1..n, G[1..(k - 1)] \in T[k - 1]
      PROVE  G[1..k] \in T[k]
  <2>1. Max(1..k) = k
    <3>1. k \in 1..k /\ \A i \in 1..k : i <= k
      OBVIOUS
    <3>2. k \in Nat /\ 1..k \in SUBSET (1..k)
      OBVIOUS
    <3> QED BY <3>1, <3>2, MaxIs
  <2>2. (1..k) \ {k} = 1..(k - 1) /\ 1..k \in SUBSET (1..n) /\ k \in 1..k
    OBVIOUS
  <2>3. G[1..k] = AddUnlessEnough(G[1..(k - 1)], hits[k])
    BY <1>4, <2>1, <2>2
  <2> QED BY <1>6, <2>3
<1>7. \A k \in 1..n : G[1..(k - 1)] \in T[k - 1] => G[1..k] \in T[k]
  BY <1>6
<1>8. G[1..n] \in T[n]
  BY <1>5, <1>7, PrefixInduction
<1> QED BY <1>1, <1>8

IsFoldAddPart(b, hits, n, g) ==
  g = [S \in SUBSET (1..n) |->
         IF S = {} THEN b ELSE AddPart(g[S \ {Max(S)}], hits[Max(S)])]
FoldAddPart(b, hits, n) == CHOOSE g : IsFoldAddPart(b, hits, n, g)

LEMMA PartInduction ==
  ASSUME NEW b, NEW hits, NEW n \in Nat, DOMAIN hits = 1..n, NEW T, b \in T[0],
         \A k \in 1..n : \A s \in T[k - 1] : AddPart(s, hits[k]) \in T[k]
  PROVE  FoldLeft(AddPart, b, hits) \in T[n]
<1> DEFINE G == FoldAddPart(b, hits, n)
<1>1. FoldLeft(AddPart, b, hits) = G[1..n]
  BY DEF FoldLeft, MapThenFoldSet, FoldAddPart, IsFoldAddPart
<1>2. \E g : IsFoldAddPart(b, hits, n, g)
  <2> DEFINE Bad == {m \in 0..n : ~ \E g : IsFoldAddPart(b, hits, m, g)}
  <2>1. SUFFICES ASSUME n \in Bad PROVE FALSE
    OBVIOUS
  <2>2. PICK m \in Bad : \A j \in Bad : m <= j
    <3>1. Bad \in SUBSET Nat
      OBVIOUS
    <3> HIDE DEF Bad
    <3> QED BY <2>1, <3>1, Least
  <2>3. m \in 0..n /\ ~ \E g : IsFoldAddPart(b, hits, m, g)
    BY <2>2
  <2>4. m # 0
    <3>1. IsFoldAddPart(b, hits, 0, [S \in SUBSET (1..0) |-> b])
      <4>1. \A S \in SUBSET (1..0) : S = {}
        BY SMT
      <4> QED BY <4>1 DEF IsFoldAddPart
    <3> QED BY <2>3, <3>1
  <2>5. PICK g : IsFoldAddPart(b, hits, m - 1, g)
    <3>1. m - 1 \in 0..n /\ ~(m <= m - 1)
      BY <2>3, <2>4
    <3> QED BY <2>2, <3>1
  <2> DEFINE h == [S \in SUBSET (1..m) |-> IF m \in S THEN AddPart(g[S \ {m}], hits[m]) ELSE g[S]]
  <2>6. \A S \in SUBSET (1..m) : /\ m \notin S => S \in SUBSET (1..(m - 1))
                                /\ S \ {m} \in SUBSET (1..(m - 1)) /\ S \ {m} \in SUBSET (1..m)
    BY <2>3
  <2>7. ASSUME NEW S \in SUBSET (1..m)
        PROVE  h[S] = IF S = {} THEN b ELSE AddPart(h[S \ {Max(S)}], hits[Max(S)])
    <3>1. CASE m \in S
      <4>1. Max(S) = m
        <5>1. \A i \in S : i <= m
          BY <2>3
        <5>2. m \in Nat
          BY <2>3
        <5> QED BY <3>1, <5>1, <5>2, MaxIs
      <4>2. h[S \ {m}] = g[S \ {m}]
        BY <2>6
      <4> QED BY <3>1, <4>1, <4>2
    <3>2. CASE m \notin S
      <4>1. S \in SUBSET (1..(m - 1)) /\ h[S] = g[S]
        BY <2>6, <3>2
      <4>2. S \ {Max(S)} \in SUBSET (1..m) /\ m \notin S \ {Max(S)}
        BY <3>2
      <4>3. h[S \ {Max(S)}] = g[S \ {Max(S)}]
        BY <4>2
      <4>4. g[S] = IF S = {} THEN b ELSE AddPart(g[S \ {Max(S)}], hits[Max(S)])
        <5> HIDE DEF h
        <5> QED BY <2>5, <4>1 DEF IsFoldAddPart
      <4> HIDE DEF h
      <4> QED BY <4>1, <4>3, <4>4
    <3> QED BY <3>1, <3>2
  <2>8. IsFoldAddPart(b, hits, m, h)
    <3>1. h = [S \in SUBSET (1..m) |-> h[S]]
      OBVIOUS
    <3> HIDE DEF h
    <3> QED BY <2>7, <3>1 DEF IsFoldAddPart
  <2> HIDE DEF h
  <2> QED BY <2>3, <2>8
<1>3. IsFoldAddPart(b, hits, n, G)
  BY <1>2 DEF FoldAddPart
<1> HIDE DEF G
<1>4. \A S \in SUBSET (1..n) :
        G[S] = IF S = {} THEN b ELSE AddPart(G[S \ {Max(S)}], hits[Max(S)])
  BY <1>3 DEF IsFoldAddPart
<1>5. G[{}] \in T[0]
  BY <1>4
<1>6. ASSUME NEW k \in 1..n, G[1..(k - 1)] \in T[k - 1]
      PROVE  G[1..k] \in T[k]
  <2>1. Max(1..k) = k
    <3>1. k \in 1..k /\ \A i \in 1..k : i <= k
      OBVIOUS
    <3>2. k \in Nat /\ 1..k \in SUBSET (1..k)
      OBVIOUS
    <3> QED BY <3>1, <3>2, MaxIs
  <2>2. (1..k) \ {k} = 1..(k - 1) /\ 1..k \in SUBSET (1..n) /\ k \in 1..k
    OBVIOUS
  <2>3. G[1..k] = AddPart(G[1..(k - 1)], hits[k])
    BY <1>4, <2>1, <2>2
  <2> QED BY <1>6, <2>3
<1>7. \A k \in 1..n : G[1..(k - 1)] \in T[k - 1] => G[1..k] \in T[k]
  BY <1>6
<1>8. G[1..n] \in T[n]
  BY <1>5, <1>7, PrefixInduction
<1> QED BY <1>1, <1>8

----------------------------------------------------------------------------
(* One hit more: what Add does to a search. *)

Scans == [left : Seq(Files), hidden : SUBSET Nat, limit : Nat, seeking : BOOLEAN,
          groups : [Priorities -> Seq(Hit)]]

\* r has collected h, if it had room for it.
Collects(s, h, r) ==
  \A p \in Priorities :
    r.groups[p] = IF p = PriorityOf(h) /\ Len(s.groups[p]) <= s.limit
                  THEN Append(s.groups[p], h) ELSE s.groups[p]

\* The rest of a search is as before.
SameSearch(s, r) == r.left = s.left /\ r.hidden = s.hidden /\ r.limit = s.limit

LEMMA CollectIs ==
  ASSUME NEW s \in Scans, NEW h \in Hit, PriorityOf(h) \in Priorities
  PROVE  /\ Collect(s, h) \in Scans /\ SameSearch(s, Collect(s, h))
         /\ Collect(s, h).seeking = s.seeking /\ Collects(s, h, Collect(s, h))
<1> DEFINE p == PriorityOf(h)
           r == [s EXCEPT !.groups[p] = Append(@, h)]
<1>1. s.groups \in [Priorities -> Seq(Hit)]
  BY DEF Scans
<1>2. CASE Len(s.groups[p]) <= s.limit
  <2>1. Collect(s, h) = r
    BY <1>2 DEF Collect
  <2>2. Append(s.groups[p], h) \in Seq(Hit)
    BY <1>1
  <2>3. r \in Scans /\ SameSearch(s, r) /\ r.seeking = s.seeking
    BY <1>1, <2>2 DEF Scans, SameSearch
  <2>4. r.groups = [s.groups EXCEPT ![p] = Append(s.groups[p], h)]
    BY DEF Scans
  <2>5. Collects(s, h, r)
    BY <1>1, <1>2, <2>4 DEF Collects
  <2> QED BY <2>1, <2>3, <2>5
<1>3. CASE ~(Len(s.groups[p]) <= s.limit)
  BY <1>3 DEF Collect, SameSearch, Collects
<1> QED BY <1>2, <1>3

\* Add passes a hit by, collects it, or has found the entry of the cursor.
LEMMA AddIs ==
  ASSUME NEW s \in Scans, NEW h \in Hit, PriorityOf(h) \in Priorities
  PROVE  LET r == Add(s, h)
             p == PriorityOf(h)
         IN  /\ r \in Scans /\ SameSearch(s, r)
             /\ \/ /\ r = s
                   /\ Behind(p) \/ (~Behind(p) /\ SeekingIn(s, p) /\ ~Anchor(h))
                \/ /\ ~Behind(p) /\ ~SeekingIn(s, p)
                   /\ r.seeking = s.seeking /\ Collects(s, h, r)
                \/ /\ ~Behind(p) /\ SeekingIn(s, p) /\ Anchor(h) /\ r.seeking = FALSE
                   /\ Finished(h) => r.groups = s.groups
                   /\ ~Finished(h) => Collects(s, h, r)
<1> DEFINE r == Add(s, h)
           p == PriorityOf(h)
           found == [s EXCEPT !.seeking = FALSE]
<1>1. found \in Scans /\ SameSearch(s, found) /\ found.seeking = FALSE /\ found.groups = s.groups
  BY DEF Scans, SameSearch
<1>2. CASE Behind(p) \/ (~Behind(p) /\ SeekingIn(s, p) /\ ~Anchor(h))
  <2>1. r = s
    BY <1>2 DEF Add
  <2> QED BY <1>2, <2>1 DEF SameSearch
<1>3. CASE ~Behind(p) /\ ~SeekingIn(s, p)
  <2>1. r = Collect(s, h)
    BY <1>3 DEF Add
  <2> QED BY <1>3, <2>1, CollectIs
<1>4. CASE ~Behind(p) /\ SeekingIn(s, p) /\ Anchor(h)
  <2>1. r = IF Finished(h) THEN found ELSE Collect(found, h)
    BY <1>4 DEF Add
  <2>2. CASE Finished(h)
    BY <1>1, <1>4, <2>1, <2>2
  <2>3. CASE ~Finished(h)
    <3> HIDE DEF found
    <3>1. /\ r \in Scans /\ SameSearch(found, r) /\ r.seeking = FALSE /\ Collects(found, h, r)
      BY <1>1, <2>1, <2>3, CollectIs
    <3>2. Collects(s, h, r) /\ SameSearch(s, r)
      BY <1>1, <3>1 DEF Collects, SameSearch
    <3> QED BY <1>4, <2>3, <3>1, <3>2
  <2> QED BY <2>2, <2>3
<1> HIDE DEF r, p
<1>5. \/ Behind(p) \/ (~Behind(p) /\ SeekingIn(s, p) /\ ~Anchor(h))
      \/ ~Behind(p) /\ ~SeekingIn(s, p)
      \/ ~Behind(p) /\ SeekingIn(s, p) /\ Anchor(h)
  OBVIOUS
<1> QED BY <1>2, <1>3, <1>4, <1>5 DEF r, p

----------------------------------------------------------------------------
(* What a search has collected, whatever the order. *)

GroupOK(s, p) ==
  /\ Len(s.groups[p]) <= s.limit + 1
  /\ \A i \in DOMAIN s.groups[p] :
       /\ s.groups[p][i] \in Matches /\ PriorityOf(s.groups[p][i]) = p
       /\ Anchor(s.groups[p][i]) => ~Finished(s.groups[p][i])
       /\ ~all => s.groups[p][i].file = Current
  /\ Behind(p) \/ SeekingIn(s, p) => s.groups[p] = <<>>

\* A search seeks until it comes upon the cursor's entry.
Seeks(b, hits, k, s) ==
  /\ s.seeking => b.seeking /\ \A i \in 1..k : Found(b, hits[i]) => hits[i] # cursor.hit
  /\ ~s.seeking /\ b.seeking => \E i \in 1..k : Found(b, hits[i]) /\ hits[i] = cursor.hit

\* After k of the hits.
Collected(b, hits, k, s) ==
  /\ s \in Scans /\ SameSearch(b, s) /\ Seeks(b, hits, k, s)
  /\ \A p \in Priorities : GroupOK(s, p)

\* The hits of a file, or of the branch, are read once.
ReadOnce(b, hits, n) ==
  /\ n \in Nat /\ DOMAIN hits = 1..n
  /\ \A i \in 1..n : hits[i] \in Matches /\ (~all => hits[i].file = Current)
  /\ \A i, j \in 1..n : hits[i] = hits[j] => i = j
  /\ ~b.seeking /\ cursor # NoCursor => \A i \in 1..n : hits[i] # cursor.hit
  /\ b.seeking => cursor # NoCursor

LogOK ==
  /\ log \in [Files -> Seq([priority : Priorities, size : Sizes])]
  /\ writes \in 0..MaxWrites
  /\ \A f \in Files : Len(log[f]) <= MaxStart + writes

LEMMA MatchIs ==
  ASSUME LogOK
  PROVE  /\ \A h \in Matches : /\ h \in Hit /\ PriorityOf(h) \in Priorities /\ SizeOf(h) \in Nat \ {0}
                               /\ h.file \in Files /\ h.pos \in Positions(h.file)
         /\ \A f \in Files : \A i \in Positions(f) : At(f, i) \in Matches /\ At(f, i).file = f /\ At(f, i).pos = i
         /\ \A h, g \in Hit : h = g <=> h.file = g.file /\ h.pos = g.pos
         /\ NoHit \notin Hit
<1>1. \A h \in Hit : h.file \in Files /\ h.pos \in 1..(MaxStart + MaxWrites)
  BY DEF Hit
<1>2. ASSUME NEW f \in Files
      PROVE  /\ log[f] \in Seq([priority : Priorities, size : Sizes])
             /\ Len(log[f]) \in Nat /\ Positions(f) \in SUBSET (1..(MaxStart + MaxWrites))
  <2>1. log[f] \in Seq([priority : Priorities, size : Sizes]) /\ Len(log[f]) <= MaxStart + writes
    BY DEF LogOK
  <2>2. writes \in 0..MaxWrites /\ MaxStart \in Nat /\ MaxWrites \in Nat
    BY BoundsAssumption DEF LogOK
  <2>3. Len(log[f]) \in Nat /\ Len(log[f]) <= MaxStart + MaxWrites
    BY <2>1, <2>2
  <2> QED BY <2>1, <2>2, <2>3 DEF Positions
<1>3. ASSUME NEW h \in Matches
      PROVE  /\ h \in Hit /\ PriorityOf(h) \in Priorities /\ SizeOf(h) \in Nat \ {0}
             /\ h.file \in Files /\ h.pos \in Positions(h.file)
  <2>1. h \in Hit /\ h.pos \in Positions(h.file) /\ h.file \in Files
    BY <1>1 DEF Matches
  <2>2. log[h.file][h.pos] \in [priority : Priorities, size : Sizes]
    <3> DEFINE Shape == [priority : Priorities, size : Sizes]
    <3>1. log[h.file] \in Seq(Shape) /\ h.pos \in 1..Len(log[h.file])
      BY <1>2, <2>1 DEF Positions
    <3> HIDE DEF Shape
    <3>2. log[h.file][h.pos] \in Shape
      BY <3>1
    <3> QED BY <3>2 DEF Shape
  <2>3. Sizes \subseteq Nat \ {0}
    BY SizesAssumption
  <2> QED BY <2>1, <2>2, <2>3 DEF PriorityOf, SizeOf
<1>4. ASSUME NEW f \in Files, NEW i \in Positions(f)
      PROVE  At(f, i) \in Matches /\ At(f, i).file = f /\ At(f, i).pos = i
  BY <1>2 DEF At, Matches, Hit
<1>5. \A h, g \in Hit : h = g <=> h.file = g.file /\ h.pos = g.pos
  BY DEF Hit
<1>6. NoHit \notin Hit
  BY <1>1 DEF NoHit
<1> QED BY <1>3, <1>4, <1>5, <1>6

\* A longer group is the shorter one, and one hit more.
LEMMA AppendIs ==
  ASSUME NEW g \in Seq(Hit), NEW h \in Hit
  PROVE  /\ Append(g, h) \in Seq(Hit) /\ Len(Append(g, h)) = Len(g) + 1 /\ Len(g) \in Nat
         /\ DOMAIN g = 1..Len(g) /\ DOMAIN Append(g, h) = 1..(Len(g) + 1)
         /\ \A i \in 1..Len(g) : Append(g, h)[i] = g[i]
         /\ Append(g, h)[Len(g) + 1] = h
OBVIOUS

LEMMA CollectKeepsGroup ==
  ASSUME LogOK, NEW s \in Scans, NEW r \in Scans, NEW h \in Matches, NEW p \in Priorities,
         SameSearch(s, r), Collects(s, h, r), GroupOK(s, p),
         Anchor(h) => ~Finished(h), ~all => h.file = Current,
         p = PriorityOf(h) => ~Behind(p) /\ ~SeekingIn(r, p),
         p # PriorityOf(h) => (SeekingIn(r, p) => SeekingIn(s, p))
  PROVE  GroupOK(r, p)
<1>1. /\ h \in Hit /\ PriorityOf(h) \in Priorities
      /\ s.groups \in [Priorities -> Seq(Hit)] /\ s.limit \in Nat /\ r.limit = s.limit
  BY MatchIs DEF Scans, SameSearch
<1>2. CASE p = PriorityOf(h) /\ Len(s.groups[p]) <= s.limit
  <2>1. r.groups[p] = Append(s.groups[p], h)
    BY <1>2 DEF Collects
  <2>2. PICK g \in Seq(Hit) : g = s.groups[p]
    BY <1>1
  <2>3. /\ Len(r.groups[p]) = Len(g) + 1 /\ Len(g) \in Nat /\ DOMAIN g = 1..Len(g)
        /\ DOMAIN r.groups[p] = 1..(Len(g) + 1)
        /\ \A i \in 1..Len(g) : r.groups[p][i] = g[i]
        /\ r.groups[p][Len(g) + 1] = h
    BY <1>1, <2>1, <2>2, AppendIs
  <2>4. \A i \in 1..(Len(g) + 1) : i \in 1..Len(g) \/ i = Len(g) + 1
    BY <2>3
  <2>5. ASSUME NEW i \in DOMAIN r.groups[p]
        PROVE  /\ r.groups[p][i] \in Matches /\ PriorityOf(r.groups[p][i]) = p
               /\ Anchor(r.groups[p][i]) => ~Finished(r.groups[p][i])
               /\ ~all => r.groups[p][i].file = Current
    <3>1. CASE i \in 1..Len(g)
      BY <2>2, <2>3, <3>1 DEF GroupOK
    <3>2. CASE i = Len(g) + 1
      BY <1>2, <2>3, <3>2
    <3> QED BY <2>3, <2>4, <3>1, <3>2
  <2>6. Len(r.groups[p]) <= r.limit + 1
    BY <1>1, <1>2, <2>2, <2>3
  <2> QED BY <1>2, <2>5, <2>6 DEF GroupOK
<1>3. CASE ~(p = PriorityOf(h) /\ Len(s.groups[p]) <= s.limit)
  <2>1. r.groups[p] = s.groups[p]
    BY <1>3 DEF Collects
  <2>2. Behind(p) \/ SeekingIn(r, p) => r.groups[p] = <<>>
    BY <2>1 DEF GroupOK
  <2> QED BY <1>1, <2>1, <2>2 DEF GroupOK
<1> QED BY <1>2, <1>3

\* Add, of the next of the hits.
LEMMA AddKeeps ==
  ASSUME LogOK, NEW b \in Scans, NEW n, NEW hits, ReadOnce(b, hits, n), NEW k \in 1..n,
         NEW s, Collected(b, hits, k - 1, s), Found(b, hits[k])
  PROVE  Collected(b, hits, k, Add(s, hits[k]))
<1> DEFINE h == hits[k]
           p == PriorityOf(h)
           r == Add(s, h)
<1>1. n \in Nat /\ s \in Scans /\ SameSearch(b, s) /\ Seeks(b, hits, k - 1, s) /\ \A q \in Priorities : GroupOK(s, q)
  BY DEF Collected, ReadOnce
<1>2. h \in Matches /\ h \in Hit /\ p \in Priorities /\ (~all => h.file = Current)
  BY MatchIs DEF ReadOnce
<1>3. /\ r \in Scans /\ SameSearch(s, r)
      /\ \/ /\ r = s
            /\ Behind(p) \/ (~Behind(p) /\ SeekingIn(s, p) /\ ~Anchor(h))
         \/ /\ ~Behind(p) /\ ~SeekingIn(s, p)
            /\ r.seeking = s.seeking /\ Collects(s, h, r)
         \/ /\ ~Behind(p) /\ SeekingIn(s, p) /\ Anchor(h) /\ r.seeking = FALSE
            /\ Finished(h) => r.groups = s.groups
            /\ ~Finished(h) => Collects(s, h, r)
  BY <1>1, <1>2, AddIs
<1>4. \A i \in 1..k : i \in 1..(k - 1) \/ i = k
  BY <1>1
<1>5. \A i \in 1..(k - 1) : i \in 1..k /\ i \in 1..n /\ i # k
  BY <1>1
<1>6. k \in 1..k /\ SameSearch(b, r)
  BY <1>1, <1>3 DEF SameSearch
<1> HIDE DEF h, p, r
<1>7. s.seeking => cursor # NoCursor
  BY <1>1 DEF Seeks, ReadOnce
\* The cursor's entry is not read twice, nor at all if it was found before.
<1>8. ~s.seeking /\ cursor # NoCursor => h # cursor.hit
  <2>1. CASE b.seeking
    <3>1. SUFFICES ASSUME ~s.seeking, h = cursor.hit PROVE FALSE
      OBVIOUS
    <3>2. PICK i \in 1..(k - 1) : hits[i] = cursor.hit
      BY <1>1, <2>1, <3>1 DEF Seeks
    <3> QED BY <1>5, <3>1, <3>2 DEF ReadOnce, h
  <2>2. CASE ~b.seeking
    BY <2>2 DEF ReadOnce, h
  <2> QED BY <2>1, <2>2
<1>9. CASE r = s /\ (Behind(p) \/ (~Behind(p) /\ SeekingIn(s, p) /\ ~Anchor(h)))
  <2>1. s.seeking => h # cursor.hit
    <3>1. SUFFICES ASSUME s.seeking, h = cursor.hit PROVE FALSE
      OBVIOUS
    <3>2. p = PriorityOf(cursor.hit) /\ cursor # NoCursor /\ Anchor(h)
      BY <1>7, <3>1 DEF Anchor, p
    <3>3. ~Behind(p)
      BY <1>2, <3>2 DEF Behind, Priorities
    <3> QED BY <1>9, <3>2, <3>3
  <2>2. Seeks(b, hits, k, r)
    BY <1>1, <1>4, <1>5, <1>9, <2>1 DEF Seeks, h
  <2> QED BY <1>1, <1>9, <2>2 DEF Collected, r, h
<1>10. CASE ~Behind(p) /\ ~SeekingIn(s, p) /\ r.seeking = s.seeking /\ Collects(s, h, r)
  <2>1. h # cursor.hit \/ cursor = NoCursor
    BY <1>7, <1>8, <1>10 DEF SeekingIn, p
  <2>2. Seeks(b, hits, k, r)
    BY <1>1, <1>4, <1>5, <1>7, <1>10, <2>1 DEF Seeks, h
  <2>3. ASSUME NEW q \in Priorities PROVE GroupOK(r, q)
    <3>1. ~Anchor(h)
      BY <2>1 DEF Anchor
    <3>2. SeekingIn(r, q) <=> SeekingIn(s, q)
      BY <1>10 DEF SeekingIn
    <3> QED BY <1>1, <1>2, <1>3, <1>10, <3>1, <3>2, CollectKeepsGroup DEF p
  <2> QED BY <1>3, <1>6, <2>2, <2>3 DEF Collected, r, h
<1>11. CASE /\ ~Behind(p) /\ SeekingIn(s, p) /\ Anchor(h) /\ r.seeking = FALSE
            /\ Finished(h) => r.groups = s.groups
            /\ ~Finished(h) => Collects(s, h, r)
  <2>1. Found(b, hits[k]) /\ hits[k] = cursor.hit
    BY <1>11 DEF Anchor, h
  <2>2. Seeks(b, hits, k, r)
    BY <1>6, <1>11, <2>1 DEF Seeks
  <2>3. \A q \in Priorities : ~SeekingIn(r, q)
    BY <1>11 DEF SeekingIn
  <2>4. ASSUME NEW q \in Priorities PROVE GroupOK(r, q)
    <3>1. CASE Finished(h)
      <4>1. r.groups[q] = s.groups[q] /\ r.limit = s.limit
        BY <1>3, <1>11, <3>1 DEF SameSearch
      <4> QED BY <1>1, <2>3, <4>1 DEF GroupOK
    <3>2. CASE ~Finished(h)
      BY <1>1, <1>2, <1>3, <1>11, <2>3, <3>2, CollectKeepsGroup DEF p
    <3> QED BY <3>1, <3>2
  <2> QED BY <1>3, <1>6, <2>2, <2>4 DEF Collected, r, h
<1> QED BY <1>3, <1>9, <1>10, <1>11 DEF r, h

CursorOK == cursor # NoCursor => cursor.hit \in Matches /\ cursor.offset \in 1..SizeOf(cursor.hit)

\* As long as a search seeks, it has not enough.
LEMMA SeeksForMore ==
  ASSUME LogOK, CursorOK, cursor # NoCursor, NEW s \in Scans, s.seeking,
         \A p \in Priorities : GroupOK(s, p)
  PROVE  ~Enough(s)
<1>1. s.groups[0] = <<>>
  <2>1. PriorityOf(cursor.hit) \in {0, 1}
    BY MatchIs DEF CursorOK, Priorities
  <2>2. Behind(0) \/ SeekingIn(s, 0)
    BY <2>1 DEF Behind, SeekingIn
  <2> QED BY <2>2 DEF GroupOK, Priorities
<1>2. s.limit \in Nat /\ Len(<<>>) = 0
  BY DEF Scans
<1> QED BY <1>1, <1>2 DEF Enough

LEMMA BranchKeeps ==
  ASSUME LogOK, CursorOK, NEW b \in Scans, NEW n, NEW hits, ReadOnce(b, hits, n), NEW k \in 1..n,
         NEW s, Collected(b, hits, k - 1, s)
  PROVE  Collected(b, hits, k, AddUnlessEnough(s, hits[k]))
<1>1. /\ n \in Nat /\ s \in Scans /\ SameSearch(b, s) /\ Seeks(b, hits, k - 1, s)
      /\ \A p \in Priorities : GroupOK(s, p)
  BY DEF Collected, ReadOnce
<1>2. Found(s, hits[k]) <=> Found(b, hits[k])
  BY <1>1 DEF Found, SameSearch
<1>3. CASE ~Enough(s) /\ Found(s, hits[k])
  <2>1. AddUnlessEnough(s, hits[k]) = Add(s, hits[k])
    BY <1>3 DEF AddUnlessEnough
  <2> QED BY <1>2, <1>3, <2>1, AddKeeps
<1>4. CASE Enough(s) \/ ~Found(s, hits[k])
  <2>1. AddUnlessEnough(s, hits[k]) = s
    BY <1>4 DEF AddUnlessEnough
  <2>2. s.seeking => cursor # NoCursor
    BY <1>1 DEF Seeks, ReadOnce
  <2>3. s.seeking => ~Found(b, hits[k])
    BY <1>1, <1>2, <1>4, <2>2, SeeksForMore
  <2>4. \A i \in 1..k : i \in 1..(k - 1) \/ i = k
    BY <1>1
  <2>5. \A i \in 1..(k - 1) : i \in 1..k
    BY <1>1
  <2>6. Seeks(b, hits, k, s)
    BY <1>1, <2>3, <2>4, <2>5 DEF Seeks
  <2> QED BY <1>1, <2>1, <2>6 DEF Collected
<1> QED BY <1>3, <1>4

LEMMA FileCollected ==
  ASSUME LogOK, CursorOK, NEW b \in Scans, NEW n, NEW hits, ReadOnce(b, hits, n),
         \A i \in 1..n : Found(b, hits[i]), \A p \in Priorities : GroupOK(b, p)
  PROVE  Collected(b, hits, n, FoldLeft(Add, b, hits))
<1> DEFINE T == [k \in 0..n |-> {s \in Scans : Collected(b, hits, k, s)}]
<1>1. n \in Nat /\ DOMAIN hits = 1..n
  BY DEF ReadOnce
<1>2. b \in T[0]
  BY <1>1 DEF Collected, SameSearch, Seeks
<1>3. ASSUME NEW k \in 1..n, NEW s \in T[k - 1] PROVE Add(s, hits[k]) \in T[k]
  <2>1. k - 1 \in 0..n /\ k \in 0..n
    BY <1>1
  <2>2. Collected(b, hits, k - 1, s)
    BY <2>1
  <2>3. Collected(b, hits, k, Add(s, hits[k]))
    BY <2>2, AddKeeps
  <2> QED BY <2>1, <2>3 DEF Collected
<1>4. FoldLeft(Add, b, hits) \in T[n]
  <2> HIDE DEF T
  <2> QED BY <1>1, <1>2, <1>3, AddInduction
<1> QED BY <1>1, <1>4

LEMMA BranchCollected ==
  ASSUME LogOK, CursorOK, NEW b \in Scans, NEW n, NEW hits, ReadOnce(b, hits, n),
         \A p \in Priorities : GroupOK(b, p)
  PROVE  Collected(b, hits, n, FoldLeft(AddUnlessEnough, b, hits))
<1> DEFINE T == [k \in 0..n |-> {s \in Scans : Collected(b, hits, k, s)}]
<1>1. n \in Nat /\ DOMAIN hits = 1..n
  BY DEF ReadOnce
<1>2. b \in T[0]
  BY <1>1 DEF Collected, SameSearch, Seeks
<1>3. ASSUME NEW k \in 1..n, NEW s \in T[k - 1] PROVE AddUnlessEnough(s, hits[k]) \in T[k]
  <2>1. k - 1 \in 0..n /\ k \in 0..n
    BY <1>1
  <2>2. Collected(b, hits, k - 1, s)
    BY <2>1
  <2>3. Collected(b, hits, k, AddUnlessEnough(s, hits[k]))
    BY <2>2, BranchKeeps
  <2> QED BY <2>1, <2>3 DEF Collected
<1>4. FoldLeft(AddUnlessEnough, b, hits) \in T[n]
  <2> HIDE DEF T
  <2> QED BY <1>1, <1>2, <1>3, BranchInduction
<1> QED BY <1>1, <1>4

----------------------------------------------------------------------------
(* The hits of a file. *)

\* Hits of one file, newest first.
Falling(f, hits, n) ==
  /\ n \in Nat /\ hits \in Seq(Hit) /\ Len(hits) = n
  /\ \A i \in 1..n : hits[i] \in Matches /\ hits[i].file = f
  /\ \A i, j \in 1..n : i < j => hits[j].pos < hits[i].pos

LEMMA NewestFalls ==
  ASSUME LogOK, NEW f \in Files, NEW S \in SUBSET Positions(f)
  PROVE  /\ Falling(f, NewestFirst(f, S), Cardinality(S))
         /\ \A i \in 1..Cardinality(S) : \E q \in S : NewestFirst(f, S)[i] = At(f, q)
         /\ \A q \in S : \E i \in 1..Cardinality(S) : NewestFirst(f, S)[i] = At(f, q)
<1> DEFINE n == Len(log[f])
           N == NewestFirst(f, S)
           C == Cardinality(S)
<1>1. n \in Nat /\ S \in SUBSET (1..n)
  BY DEF LogOK, Positions
<1>2. /\ C \in Nat /\ DOMAIN N = 1..C
      /\ \A k \in 1..C : \E i \in S : N[k] = At(f, i)
      /\ \A i \in S : \E k \in 1..C : N[k] = At(f, i)
      /\ \A k, l \in 1..C : k < l => N[l].pos < N[k].pos
  BY <1>1, NewestFirstIs
<1>3. N = [k \in 1..C |-> N[k]]
  BY DEF NewestFirst
<1> HIDE DEF N, C, n
<1>4. \A k \in 1..C : N[k] \in Matches /\ N[k].file = f /\ N[k] \in Hit
  BY <1>2, MatchIs
<1>5. N \in Seq(Hit) /\ Len(N) = C
  BY <1>2, <1>3, <1>4
<1>6. Falling(f, N, C)
  BY <1>2, <1>4, <1>5 DEF Falling
<1> QED BY <1>2, <1>6 DEF N, C

\* Those of the file of priority p, up to the cursor's entry if it is still to be found.
UpTo(f, p) ==
  IF ~SeekingIn(scan, p) THEN HitsOf(f, p)
  ELSE {i \in HitsOf(f, p) : cursor.hit.file = f /\ cursor.hit.pos \in HitsOf(f, p) /\ i <= cursor.hit.pos}

RecentLen(f, p) == Cardinality(Latest(UpTo(f, p), Kept))

LEMMA RecentIs ==
  ASSUME LogOK, NEW f \in Files, NEW p \in Priorities, scan.limit \in Nat
  PROVE  /\ Falling(f, Recent(f, p), RecentLen(f, p))
         /\ \A i \in 1..RecentLen(f, p) :
              /\ PriorityOf(Recent(f, p)[i]) = p /\ Found(scan, Recent(f, p)[i])
              /\ Recent(f, p)[i].pos \in UpTo(f, p)
         /\ \A q \in UpTo(f, p) :
              \/ \E i \in 1..RecentLen(f, p) : Recent(f, p)[i] = At(f, q)
              \/ /\ RecentLen(f, p) >= scan.limit + 2
                 /\ \A i \in 1..RecentLen(f, p) : q < Recent(f, p)[i].pos
         /\ \A q \in UpTo(f, p) : (\A j \in UpTo(f, p) : j <= q) =>
              \E i \in 1..RecentLen(f, p) : Recent(f, p)[i] = At(f, q)
<1> DEFINE L == Latest(UpTo(f, p), Kept)
           m == Cardinality(L)
           R == Recent(f, p)
<1>1. R = NewestFirst(f, L)
  BY DEF Recent, UpTo
<1>2. /\ Len(log[f]) \in Nat /\ UpTo(f, p) \in SUBSET (1..Len(log[f])) /\ UpTo(f, p) \in SUBSET HitsOf(f, p)
      /\ Kept \in Nat /\ Kept > 0 /\ Kept = scan.limit + 2
  BY DEF LogOK, UpTo, HitsOf, Positions, Kept
<1>3. /\ L \in SUBSET UpTo(f, p)
      /\ \A i \in UpTo(f, p) \ L : \A j \in L : i < j
      /\ UpTo(f, p) # L => m >= Kept
      /\ \A i \in UpTo(f, p) : Kept > 0 /\ (\A j \in UpTo(f, p) : j <= i) => i \in L
  <2>1. PICK n \in Nat : UpTo(f, p) \in SUBSET (1..n)
    BY <1>2
  <2>2. PICK k \in Nat : k = Kept
    BY <1>2
  <2>3. PICK S \in SUBSET (1..n) : S = UpTo(f, p)
    BY <2>1
  <2>4. /\ Latest(S, k) \in SUBSET S
        /\ \A i \in S \ Latest(S, k) : \A j \in Latest(S, k) : i < j
        /\ S # Latest(S, k) => Cardinality(Latest(S, k)) >= k
        /\ \A i \in S : k > 0 /\ (\A j \in S : j <= i) => i \in Latest(S, k)
    BY LatestIs
  <2> QED BY <2>2, <2>3, <2>4
<1>4. L \in SUBSET Positions(f)
  BY <1>2, <1>3 DEF HitsOf
<1>5. /\ Falling(f, R, m)
      /\ \A i \in 1..m : \E q \in L : R[i] = At(f, q)
      /\ \A q \in L : \E i \in 1..m : R[i] = At(f, q)
  BY <1>1, <1>4, NewestFalls
<1> HIDE DEF L, m, R
<1>6. ASSUME NEW i \in 1..m
      PROVE  PriorityOf(R[i]) = p /\ Found(scan, R[i]) /\ R[i].pos \in L
  <2>1. PICK q \in L : R[i] = At(f, q)
    BY <1>5
  <2>2. q \in HitsOf(f, p)
    BY <1>2, <1>3
  <2>3. R[i].pos = q
    BY <2>1 DEF At
  <2> QED BY <2>1, <2>2, <2>3 DEF HitsOf
<1>7. ASSUME NEW q \in UpTo(f, p)
      PROVE  \/ \E i \in 1..m : R[i] = At(f, q)
             \/ m >= scan.limit + 2 /\ \A i \in 1..m : q < R[i].pos
  BY <1>2, <1>3, <1>5, <1>6
<1>8. ASSUME NEW q \in UpTo(f, p), \A j \in UpTo(f, p) : j <= q
      PROVE  \E i \in 1..m : R[i] = At(f, q)
  BY <1>2, <1>3, <1>5, <1>8
<1>9. m = RecentLen(f, p)
  BY DEF m, L, RecentLen
<1> QED BY <1>3, <1>5, <1>6, <1>7, <1>8, <1>9 DEF R

\* What a scan of a file reads: its originals, then its echoes.
Both(f) == Recent(f, 0) \o Recent(f, 1)
BothLen(f) == RecentLen(f, 0) + RecentLen(f, 1)

LEMMA BothIs ==
  ASSUME LogOK, NEW f \in Files, scan.limit \in Nat
  PROVE  /\ BothLen(f) \in Nat /\ Both(f) \in Seq(Hit) /\ DOMAIN Both(f) = 1..BothLen(f)
         /\ \A i \in 1..BothLen(f) :
              /\ Both(f)[i] \in Matches /\ Both(f)[i].file = f /\ Found(scan, Both(f)[i])
              /\ Both(f)[i].pos \in UpTo(f, PriorityOf(Both(f)[i]))
         /\ \A i, j \in 1..BothLen(f) : i < j =>
              \/ PriorityOf(Both(f)[i]) < PriorityOf(Both(f)[j])
              \/ PriorityOf(Both(f)[i]) = PriorityOf(Both(f)[j]) /\ Both(f)[j].pos < Both(f)[i].pos
         /\ \A p \in Priorities : \A i \in 1..RecentLen(f, p) :
              \E j \in 1..BothLen(f) : Both(f)[j] = Recent(f, p)[i]
         /\ \A j \in 1..BothLen(f) : \E i \in 1..RecentLen(f, PriorityOf(Both(f)[j])) :
              Both(f)[j] = Recent(f, PriorityOf(Both(f)[j]))[i]
<1> DEFINE a == Recent(f, 0)
           c == Recent(f, 1)
           m == RecentLen(f, 0)
           n == RecentLen(f, 1)
<1>1. /\ Falling(f, a, m)
      /\ \A i \in 1..m : PriorityOf(a[i]) = 0 /\ Found(scan, a[i]) /\ a[i].pos \in UpTo(f, 0)
  BY RecentIs DEF Priorities
<1>2. /\ Falling(f, c, n)
      /\ \A i \in 1..n : PriorityOf(c[i]) = 1 /\ Found(scan, c[i]) /\ c[i].pos \in UpTo(f, 1)
  BY RecentIs DEF Priorities
<1>3. Both(f) = a \o c /\ BothLen(f) = m + n
  BY DEF Both, BothLen
<1> HIDE DEF a, c, m, n
<1>4. /\ m \in Nat /\ n \in Nat /\ m + n \in Nat
      /\ a \in Seq(Hit) /\ Len(a) = m /\ c \in Seq(Hit) /\ Len(c) = n
  BY <1>1, <1>2 DEF Falling
<1> DEFINE ac == a \o c
<1>5. /\ ac \in Seq(Hit) /\ DOMAIN ac = 1..(m + n)
      /\ \A i \in 1..m : ac[i] = a[i]
      /\ \A i \in 1..n : ac[m + i] = c[i]
  BY <1>4
<1> HIDE DEF ac
<1>6. \A i \in 1..(m + n) : i \in 1..m \/ (i > m /\ i - m \in 1..n /\ i = m + (i - m))
  BY <1>4
<1>7. ASSUME NEW i \in 1..(m + n)
      PROVE  /\ ac[i] \in Matches /\ ac[i].file = f /\ Found(scan, ac[i])
             /\ ac[i].pos \in UpTo(f, PriorityOf(ac[i]))
             /\ IF i \in 1..m THEN PriorityOf(ac[i]) = 0 ELSE PriorityOf(ac[i]) = 1
  <2>1. CASE i \in 1..m
    BY <1>1, <1>5, <2>1 DEF Falling
  <2>2. CASE i \notin 1..m
    <3>1. PICK j \in 1..n : i = m + j
      BY <1>6, <2>2
    <3>2. ac[i] = c[j]
      BY <1>5, <3>1
    <3> QED BY <1>2, <2>2, <3>2 DEF Falling
  <2> QED BY <2>1, <2>2
<1>8. ASSUME NEW i \in 1..(m + n), NEW j \in 1..(m + n), i < j
      PROVE  \/ PriorityOf(ac[i]) < PriorityOf(ac[j])
             \/ PriorityOf(ac[i]) = PriorityOf(ac[j]) /\ ac[j].pos < ac[i].pos
  <2>1. CASE j \in 1..m
    <3>1. i \in 1..m
      BY <1>4, <1>8, <2>1
    <3> QED BY <1>1, <1>5, <1>7, <1>8, <2>1, <3>1 DEF Falling
  <2>2. CASE i \in 1..m /\ j \notin 1..m
    BY <1>7, <2>2
  <2>3. CASE i \notin 1..m
    <3>1. j \notin 1..m
      BY <1>4, <1>8, <2>3
    <3>2. PICK k \in 1..n : i = m + k
      BY <1>6, <2>3
    <3>3. PICK l \in 1..n : j = m + l
      BY <1>6, <3>1
    <3>4. k < l /\ ac[i] = c[k] /\ ac[j] = c[l]
      BY <1>4, <1>5, <1>8, <3>2, <3>3
    <3>5. c[l].pos < c[k].pos
      BY <1>2, <3>4 DEF Falling
    <3> QED BY <1>7, <2>3, <3>1, <3>4, <3>5
  <2> QED BY <2>1, <2>2, <2>3
<1>9. ASSUME NEW p \in Priorities, NEW i \in 1..RecentLen(f, p)
      PROVE  \E j \in 1..(m + n) : ac[j] = Recent(f, p)[i]
  <2>1. CASE p = 0
    <3>1. i \in 1..m /\ Recent(f, p)[i] = a[i]
      BY <2>1 DEF a, m
    <3>2. i \in 1..(m + n)
      BY <1>4, <3>1
    <3> QED BY <1>5, <3>1, <3>2
  <2>2. CASE p = 1
    <3>1. i \in 1..n /\ Recent(f, p)[i] = c[i]
      BY <2>2 DEF c, n
    <3>2. m + i \in 1..(m + n)
      BY <1>4, <3>1
    <3> QED BY <1>5, <3>1, <3>2
  <2> QED BY <2>1, <2>2 DEF Priorities
<1>10. ASSUME NEW j \in 1..(m + n)
       PROVE  \E i \in 1..RecentLen(f, PriorityOf(ac[j])) : ac[j] = Recent(f, PriorityOf(ac[j]))[i]
  <2>1. CASE j \in 1..m
    <3>1. PriorityOf(ac[j]) = 0 /\ ac[j] = a[j]
      BY <1>5, <1>7, <2>1
    <3> QED BY <2>1, <3>1 DEF a, m
  <2>2. CASE j \notin 1..m
    <3>1. PICK i \in 1..n : j = m + i
      BY <1>6, <2>2
    <3>2. PriorityOf(ac[j]) = 1 /\ ac[j] = c[i]
      BY <1>5, <1>7, <2>2, <3>1
    <3> QED BY <3>2 DEF c, n
  <2> QED BY <2>1, <2>2
<1>11. Both(f) = ac /\ BothLen(f) = m + n
  BY <1>3 DEF ac
<1> QED BY <1>4, <1>5, <1>7, <1>8, <1>9, <1>10, <1>11

----------------------------------------------------------------------------
(* A walk, whatever the order. *)

OrderOK ==
  /\ order \in [1..Cardinality(Files) -> Files]
  /\ \A i, j \in 1..Cardinality(Files) : order[i] = order[j] => i = j
  /\ \A f \in Files : \E i \in 1..Cardinality(Files) : order[i] = f

SessionOK ==
  /\ LogOK /\ OrderOK
  /\ branch \subseteq Positions(Current) /\ active \subseteq branch /\ moves \in 0..MaxMoves

\* A search that seeks has the file of the cursor's entry before it, unless the entry is hidden.
AnchorOK(s) ==
  cursor # NoCursor =>
    /\ s.seeking => (Found(s, cursor.hit) => cursor.hit.file \in ToSet(s.left))
    /\ ~s.seeking => Found(s, cursor.hit) /\ cursor.hit.file \notin ToSet(s.left)

SearchOK(s) ==
  /\ s \in Scans /\ s.limit \in Limits /\ \A p \in Priorities : GroupOK(s, p)
  /\ s.seeking => cursor # NoCursor
  /\ \A i, j \in DOMAIN s.left : s.left[i] = s.left[j] => i = j
  /\ ~all => s.left = <<>>
  /\ AnchorOK(s)

ScanOK == IF walk = "scanning" THEN SearchOK(scan) ELSE scan = NoScan

Going == walk \in {"ready", "scanning"}

WalkOK ==
  /\ walk \in {"ready", "scanning", "done", "failed"} /\ all \in BOOLEAN /\ calm \in BOOLEAN
  /\ CursorOK /\ (cursor # NoCursor /\ ~all => cursor.hit.file = Current)
  /\ Going => (page = <<>> <=> cursor = NoCursor)

ShownOK ==
  /\ due \subseteq Matches
  /\ shown \in [Hit -> Nat]
  /\ \A h \in Hit : shown[h] > 0 => h \in Matches /\ shown[h] <= SizeOf(h)
  /\ Going /\ cursor = NoCursor => \A h \in Hit : shown[h] = 0

Sound == SessionOK /\ ScanOK /\ WalkOK /\ ShownOK

LEMMA FilesFinite == IsFiniteSet(Files) /\ Cardinality(Files) \in Nat /\ Current \in Files
<1>1. IsFiniteSet(Others \cup {Current})
  BY FilesAssumption, FS_AddElement
<1> QED BY <1>1, FS_CardinalityType DEF Files

LEMMA TypesFollow == Sound => TypeOK
<1> SUFFICES ASSUME Sound PROVE TypeOK
  OBVIOUS
<1> USE DEF Sound
<1>1. \A f \in Files : log[f] \in Seq([priority : Priorities, size : Sizes])
  BY DEF SessionOK, LogOK
<1>2. ToSet(order) = Files /\ Len(order) = Cardinality(Files)
  <2>1. DOMAIN order = 1..Cardinality(Files) /\ order \in Seq(Files)
    BY FilesFinite DEF SessionOK, OrderOK
  <2>2. Len(order) = Cardinality(Files)
    BY <2>1, FilesFinite
  <2> QED BY <2>1, <2>2 DEF SessionOK, OrderOK, ToSet
<1>3. CASE walk = "scanning"
  <2>1. SearchOK(scan)
    BY <1>3 DEF ScanOK
  <2>2. ToSet(scan.left) \subseteq Files /\ scan.limit \in Limits \cup {0} /\ scan.seeking \in BOOLEAN
    BY <2>1 DEF SearchOK, Scans, ToSet
  <2>3. ASSUME NEW p \in Priorities
        PROVE  /\ ToSet(scan.groups[p]) \subseteq {h \in Matches : PriorityOf(h) = p}
               /\ Len(scan.groups[p]) <= scan.limit + 1
    BY <2>1 DEF SearchOK, GroupOK, ToSet
  <2> QED BY <1>1, <1>2, <2>2, <2>3 DEF TypeOK, SessionOK, WalkOK, ShownOK, CursorOK, LogOK
<1>4. CASE walk # "scanning"
  <2>1. scan = NoScan
    BY <1>4 DEF ScanOK
  <2>2. ToSet(scan.left) \subseteq Files /\ scan.limit \in Limits \cup {0} /\ scan.seeking \in BOOLEAN
    BY <2>1 DEF NoScan, ToSet
  <2>3. ASSUME NEW p \in Priorities
        PROVE  /\ ToSet(scan.groups[p]) \subseteq {h \in Matches : PriorityOf(h) = p}
               /\ Len(scan.groups[p]) <= scan.limit + 1
    <3>1. scan.groups[p] = <<>> /\ scan.limit = 0
      BY <2>1 DEF NoScan
    <3> QED BY <3>1 DEF ToSet
  <2> QED BY <1>1, <1>2, <2>2, <2>3 DEF TypeOK, SessionOK, WalkOK, ShownOK, CursorOK, LogOK
<1> QED BY <1>3, <1>4

LEMMA BeginIs ==
  ASSUME NEW limit \in Nat, NEW hidden \in SUBSET Nat, NEW left \in Seq(Files)
  PROVE  LET b == Begin(limit, hidden, left)
         IN  /\ b \in Scans /\ b.limit = limit /\ b.hidden = hidden /\ b.left = left
             /\ b.seeking <=> cursor # NoCursor
             /\ \A p \in Priorities : GroupOK(b, p) /\ b.groups[p] = <<>>
<1> DEFINE b == Begin(limit, hidden, left)
<1>1. /\ b.limit = limit /\ b.hidden = hidden /\ b.left = left
      /\ b.seeking = (cursor # NoCursor)
      /\ b.groups = [p \in Priorities |-> <<>>]
  BY DEF Begin, NoScan
<1>2. NoScan \in Scans
  <2>1. <<>> \in Seq(Hit) /\ <<>> \in Seq(Files)
    OBVIOUS
  <2> QED BY <2>1 DEF NoScan, Scans
<1>3. PICK s \in Scans : s = NoScan
  BY <1>2
<1>4. b \in Scans
  <2>1. [s EXCEPT !.limit = limit, !.hidden = hidden, !.left = left, !.seeking = (cursor # NoCursor)] \in Scans
    BY DEF Scans
  <2> QED BY <1>3, <2>1 DEF Begin
<1>5. ASSUME NEW p \in Priorities PROVE GroupOK(b, p) /\ b.groups[p] = <<>>
  <2>1. b.groups[p] = <<>>
    BY <1>1
  <2>2. Len(<<>>) = 0 /\ DOMAIN <<>> = {}
    OBVIOUS
  <2> HIDE DEF b
  <2> QED BY <1>1, <2>1, <2>2 DEF GroupOK
<1> QED BY <1>1, <1>4, <1>5

LEMMA ArchiveBegins ==
  ASSUME Sound, walk = "ready", all, NEW limit \in Limits
  PROVE  SearchOK(Begin(limit, active, order))
<1> DEFINE b == Begin(limit, active, order)
<1>1. limit \in Nat /\ active \in SUBSET Nat
  BY SizesAssumption DEF Sound, SessionOK, Positions
<1>2. order \in Seq(Files) /\ DOMAIN order = 1..Cardinality(Files)
  BY FilesFinite DEF Sound, SessionOK, OrderOK
<1>3. /\ b \in Scans /\ b.limit = limit /\ b.left = order
      /\ b.seeking <=> cursor # NoCursor
      /\ \A p \in Priorities : GroupOK(b, p)
  <2>1. b.limit = limit /\ b.left = order /\ b.seeking = (cursor # NoCursor)
    BY DEF Begin, NoScan
  <2>2. b \in Scans /\ \A p \in Priorities : GroupOK(b, p)
    BY <1>1, <1>2, BeginIs
  <2> HIDE DEF b
  <2> QED BY <2>1, <2>2
<1> HIDE DEF b
<1>4. cursor # NoCursor => cursor.hit.file \in ToSet(b.left)
  BY <1>2, <1>3, MatchIs DEF Sound, SessionOK, OrderOK, WalkOK, CursorOK, ToSet
<1>5. \A i, j \in DOMAIN b.left : b.left[i] = b.left[j] => i = j
  BY <1>2, <1>3 DEF Sound, SessionOK, OrderOK
<1>6. SearchOK(b)
  BY <1>3, <1>4, <1>5 DEF SearchOK, AnchorOK
<1> QED BY <1>6 DEF b

\* What a search of the branch reads.
OnBranch == NewestFirst(Current, Positions(Current))
BranchLen == Cardinality(Positions(Current))
OffBranch == active \cup (Positions(Current) \ branch)

LEMMA BranchRead ==
  ASSUME Sound, walk = "ready", ~all, NEW limit \in Limits
  PROVE  /\ Falling(Current, OnBranch, BranchLen)
         /\ \A h \in Matches : h.file = Current => \E i \in 1..BranchLen : OnBranch[i] = h
         /\ Begin(limit, OffBranch, <<>>) \in Scans
         /\ Begin(limit, OffBranch, <<>>).hidden = OffBranch
         /\ Begin(limit, OffBranch, <<>>).limit = limit /\ Begin(limit, OffBranch, <<>>).left = <<>>
         /\ Begin(limit, OffBranch, <<>>).seeking <=> cursor # NoCursor
         /\ \A p \in Priorities : /\ GroupOK(Begin(limit, OffBranch, <<>>), p)
                                  /\ Begin(limit, OffBranch, <<>>).groups[p] = <<>>
         /\ ReadOnce(Begin(limit, OffBranch, <<>>), OnBranch, BranchLen)
<1> DEFINE b == Begin(limit, OffBranch, <<>>)
<1>0. LogOK /\ Current \in Files
  BY FilesFinite DEF Sound, SessionOK
<1>1. limit \in Nat /\ OffBranch \in SUBSET Nat /\ <<>> \in Seq(Files)
  <2>1. Positions(Current) \in SUBSET Nat /\ active \in SUBSET Positions(Current)
    BY DEF Sound, SessionOK, Positions
  <2>2. OffBranch \in SUBSET Nat
    BY <2>1 DEF OffBranch
  <2>3. limit \in Nat /\ <<>> \in Seq(Files)
    BY SizesAssumption
  <2> QED BY <2>2, <2>3
<1>2. /\ b \in Scans /\ b.limit = limit /\ b.left = <<>> /\ b.hidden = OffBranch
      /\ b.seeking <=> cursor # NoCursor
      /\ \A p \in Priorities : GroupOK(b, p) /\ b.groups[p] = <<>>
  <2>1. PICK c : c = b
    OBVIOUS
  <2>2. c.limit = limit /\ c.left = <<>> /\ c.hidden = OffBranch
    BY <2>1 DEF Begin, NoScan
  <2>3. c \in Scans /\ (c.seeking <=> cursor # NoCursor)
    BY <1>1, <2>1, BeginIs
  <2>4. \A p \in Priorities : GroupOK(c, p)
    BY <1>1, <2>1, BeginIs
  <2>5. \A p \in Priorities : c.groups[p] = <<>>
    BY <2>1 DEF Begin, NoScan
  <2> HIDE DEF b
  <2> QED BY <2>1, <2>2, <2>3, <2>4, <2>5
<1>3. /\ Falling(Current, OnBranch, BranchLen)
      /\ \A q \in Positions(Current) : \E i \in 1..BranchLen : OnBranch[i] = At(Current, q)
  BY <1>0, NewestFalls DEF OnBranch, BranchLen
<1> HIDE DEF b
<1>4. ASSUME NEW h \in Matches, h.file = Current PROVE \E i \in 1..BranchLen : OnBranch[i] = h
  <2>1. h \in Hit /\ h.pos \in Positions(Current)
    BY <1>0, <1>4, MatchIs
  <2>2. /\ At(Current, h.pos) \in Hit /\ At(Current, h.pos).file = Current /\ At(Current, h.pos).pos = h.pos
    BY <1>0, <2>1, MatchIs
  <2>3. h = At(Current, h.pos)
    BY <1>0, <1>4, <2>1, <2>2, MatchIs
  <2> QED BY <1>3, <2>1, <2>3
<1>5. ReadOnce(b, OnBranch, BranchLen)
  <2>1. /\ BranchLen \in Nat /\ OnBranch \in Seq(Hit) /\ Len(OnBranch) = BranchLen
        /\ \A i \in 1..BranchLen : OnBranch[i] \in Matches /\ OnBranch[i].file = Current
        /\ \A i, j \in 1..BranchLen : i < j => OnBranch[j].pos < OnBranch[i].pos
    BY <1>3 DEF Falling
  <2>2. DOMAIN OnBranch = 1..BranchLen
    BY <2>1
  <2>3. ASSUME NEW i \in 1..BranchLen, NEW j \in 1..BranchLen, OnBranch[i] = OnBranch[j] PROVE i = j
    <3>1. OnBranch[i].pos \in Int /\ OnBranch[j].pos \in Int
      BY <1>0, <2>1, MatchIs DEF Positions
    <3>2. ~(i < j) /\ ~(j < i)
      BY <2>1, <2>3, <3>1
    <3> QED BY <2>1, <3>2
  <2> QED BY <1>2, <2>1, <2>2, <2>3 DEF ReadOnce
<1> QED BY <1>2, <1>3, <1>4, <1>5 DEF b

LEMMA BranchSearched ==
  ASSUME Sound, walk = "ready", ~all, NEW limit \in Limits
  PROVE  SearchOK(FoldLeft(AddUnlessEnough, Begin(limit, OffBranch, <<>>), OnBranch))
<1>1. PICK b \in Scans : b = Begin(limit, OffBranch, <<>>)
  BY BranchRead
<1>2. /\ b.limit = limit /\ b.left = <<>> /\ b.hidden = OffBranch
      /\ b.seeking <=> cursor # NoCursor
      /\ \A p \in Priorities : GroupOK(b, p)
      /\ ReadOnce(b, OnBranch, BranchLen)
  BY <1>1, BranchRead
<1>3. LogOK /\ CursorOK /\ (cursor # NoCursor => cursor.hit.file = Current)
  BY DEF Sound, SessionOK, WalkOK
<1>4. PICK r : r = FoldLeft(AddUnlessEnough, b, OnBranch)
  OBVIOUS
<1>5. Collected(b, OnBranch, BranchLen, r)
  BY <1>2, <1>3, <1>4, BranchCollected
<1>6. /\ r \in Scans /\ r.left = <<>> /\ r.hidden = OffBranch /\ r.limit = limit
      /\ \A p \in Priorities : GroupOK(r, p)
      /\ Seeks(b, OnBranch, BranchLen, r)
  BY <1>2, <1>5 DEF Collected, SameSearch
<1>7. \A h : Found(r, h) <=> Found(b, h)
  BY <1>2, <1>6 DEF Found
<1>8. AnchorOK(r)
  <2>1. SUFFICES ASSUME cursor # NoCursor
                 PROVE  /\ r.seeking => (Found(r, cursor.hit) => cursor.hit.file \in ToSet(r.left))
                        /\ ~r.seeking => Found(r, cursor.hit) /\ cursor.hit.file \notin ToSet(r.left)
    BY DEF AnchorOK
  <2>2. PICK i \in 1..BranchLen : OnBranch[i] = cursor.hit
    BY <1>3, <2>1, BranchRead DEF CursorOK
  <2>3. CASE r.seeking
    <3>1. ~Found(b, cursor.hit)
      BY <1>6, <2>2, <2>3 DEF Seeks
    <3> QED BY <1>7, <2>3, <3>1
  <2>4. CASE ~r.seeking
    <3>1. Found(b, cursor.hit)
      BY <1>2, <1>6, <2>1, <2>4 DEF Seeks
    <3>2. ToSet(r.left) = {}
      BY <1>6 DEF ToSet
    <3> QED BY <1>7, <2>4, <3>1, <3>2
  <2> QED BY <2>3, <2>4
<1>9. DOMAIN r.left = {}
  BY <1>6
<1>10. r.seeking => cursor # NoCursor
  BY <1>2, <1>6 DEF Seeks
<1>11. SearchOK(r)
  BY <1>6, <1>8, <1>9, <1>10 DEF SearchOK
<1> QED BY <1>1, <1>4, <1>11

\* The search, when its next file is taken.
Rest == [scan EXCEPT !.left = Tail(@)]
NextFile == Head(scan.left)
AfterFile == FoldLeft(Add, Rest, Both(NextFile))

LEMMA RestIs ==
  ASSUME Sound, walk = "scanning", scan.left # <<>>
  PROVE  /\ scan \in Scans /\ Rest \in Scans /\ Rest.limit = scan.limit /\ Rest.hidden = scan.hidden
         /\ Rest.seeking = scan.seeking /\ Rest.groups = scan.groups /\ Rest.left = Tail(scan.left)
         /\ scan.limit \in Nat /\ NextFile \in Files /\ NextFile \in ToSet(scan.left) /\ all
         /\ ToSet(scan.left) = ToSet(Rest.left) \cup {NextFile} /\ NextFile \notin ToSet(Rest.left)
         /\ \A i, j \in DOMAIN Rest.left : /\ i < j => \E k, l \in DOMAIN scan.left :
                                                 k < l /\ scan.left[k] = Rest.left[i] /\ scan.left[l] = Rest.left[j]
                                           /\ Rest.left[i] = Rest.left[j] => i = j
         /\ \A i \in DOMAIN Rest.left : \E k \in DOMAIN scan.left :
              k > 1 /\ scan.left[k] = Rest.left[i]
         /\ 1 \in DOMAIN scan.left /\ NextFile = scan.left[1]
<1>1. SearchOK(scan)
  BY DEF Sound, ScanOK
<1>2. scan \in Scans /\ scan.limit \in Nat /\ scan.left \in Seq(Files) /\ all
  BY <1>1 DEF SearchOK, Scans
<1>3. PICK left \in Seq(Files) : left = scan.left
  BY <1>2
<1>4. /\ Tail(left) \in Seq(Files) /\ Len(left) \in Nat /\ Len(left) > 0
      /\ DOMAIN left = 1..Len(left) /\ DOMAIN Tail(left) = 1..(Len(left) - 1)
      /\ \A i \in 1..(Len(left) - 1) : Tail(left)[i] = left[i + 1]
      /\ Head(left) = left[1] /\ Head(left) \in Files
  BY <1>3
<1>5. /\ Rest.limit = scan.limit /\ Rest.hidden = scan.hidden /\ Rest.left = Tail(left)
      /\ Rest.seeking = scan.seeking /\ Rest.groups = scan.groups /\ Rest \in Scans
  BY <1>2, <1>3, <1>4 DEF Rest, Scans
<1>6. NextFile = left[1] /\ NextFile \in Files
  BY <1>3, <1>4 DEF NextFile
<1>7. \A i, j \in 1..Len(left) : left[i] = left[j] => i = j
  BY <1>1, <1>3, <1>4 DEF SearchOK
<1>8. \A i \in 1..(Len(left) - 1) : i + 1 \in 1..Len(left) /\ i + 1 > 1
  BY <1>4
<1>9. \A i \in 1..Len(left) : i = 1 \/ (i - 1 \in 1..(Len(left) - 1) /\ (i - 1) + 1 = i)
  BY <1>4
<1>10. 1 \in 1..Len(left)
  BY <1>4
<1> DEFINE rest == Tail(left)
           n == Len(left) - 1
<1>11. /\ DOMAIN rest = 1..n /\ \A i \in 1..n : rest[i] = left[i + 1]
  BY <1>4
<1> HIDE DEF rest, n
<1>12. n = Len(left) - 1
  BY DEF n
<1>13. ToSet(left) = ToSet(rest) \cup {left[1]}
  <2>1. ASSUME NEW f \in ToSet(left) PROVE f \in ToSet(rest) \cup {left[1]}
    <3>1. PICK i \in 1..Len(left) : f = left[i]
      BY <1>4, <2>1 DEF ToSet
    <3>2. CASE i # 1
      <4>1. i - 1 \in 1..n /\ rest[i - 1] = left[i]
        BY <1>9, <1>11, <1>12, <3>2
      <4> QED BY <1>11, <3>1, <4>1 DEF ToSet
    <3> QED BY <3>1, <3>2
  <2>2. ASSUME NEW f \in ToSet(rest) PROVE f \in ToSet(left)
    <3>1. PICK i \in 1..n : f = rest[i]
      BY <1>11, <2>2 DEF ToSet
    <3>2. f = left[i + 1] /\ i + 1 \in 1..Len(left)
      BY <1>8, <1>11, <1>12, <3>1
    <3> QED BY <1>4, <3>2 DEF ToSet
  <2>3. left[1] \in ToSet(left)
    BY <1>4, <1>10 DEF ToSet
  <2> QED BY <2>1, <2>2, <2>3
<1>14. left[1] \notin ToSet(rest)
  <2>1. SUFFICES ASSUME NEW i \in 1..n, left[1] = rest[i] PROVE FALSE
    BY <1>11 DEF ToSet
  <2>2. left[i + 1] = left[1] /\ i + 1 \in 1..Len(left) /\ i + 1 # 1
    BY <1>8, <1>11, <1>12, <2>1
  <2> QED BY <1>7, <1>10, <2>2
<1>15. ASSUME NEW i \in 1..n, NEW j \in 1..n
       PROVE  /\ i < j => \E k, l \in 1..Len(left) : k < l /\ left[k] = rest[i] /\ left[l] = rest[j]
              /\ rest[i] = rest[j] => i = j
  <2>1. /\ i + 1 \in 1..Len(left) /\ j + 1 \in 1..Len(left) /\ rest[i] = left[i + 1] /\ rest[j] = left[j + 1]
        /\ (i < j => i + 1 < j + 1) /\ (i + 1 = j + 1 => i = j)
    BY <1>8, <1>11, <1>12
  <2> QED BY <1>7, <2>1
<1>16. \A i \in 1..n : \E k \in 1..Len(left) : k > 1 /\ left[k] = rest[i]
  BY <1>8, <1>11, <1>12
<1>17. Rest.left = rest /\ Rest.left = Tail(scan.left)
  BY <1>3, <1>5 DEF rest
<1>18. NextFile \in ToSet(scan.left)
  BY <1>3, <1>6, <1>13
<1>19. ToSet(scan.left) = ToSet(Rest.left) \cup {NextFile} /\ NextFile \notin ToSet(Rest.left)
  BY <1>3, <1>6, <1>13, <1>14, <1>17
<1>20. \A i, j \in DOMAIN Rest.left :
         /\ i < j => \E k, l \in DOMAIN scan.left : k < l /\ scan.left[k] = Rest.left[i] /\ scan.left[l] = Rest.left[j]
         /\ Rest.left[i] = Rest.left[j] => i = j
  <2>1. DOMAIN Rest.left = 1..n /\ DOMAIN scan.left = 1..Len(left) /\ Rest.left = rest /\ scan.left = left
    BY <1>3, <1>4, <1>11, <1>17
  <2> QED BY <1>15, <2>1
<1>21. \A i \in DOMAIN Rest.left : \E k \in DOMAIN scan.left : k > 1 /\ scan.left[k] = Rest.left[i]
  BY <1>3, <1>4, <1>11, <1>16, <1>17
<1>22. 1 \in DOMAIN scan.left /\ NextFile = scan.left[1]
  BY <1>3, <1>4, <1>6, <1>10
<1> QED BY <1>2, <1>5, <1>6, <1>17, <1>18, <1>19, <1>20, <1>21, <1>22

LEMMA FileRead ==
  ASSUME Sound, walk = "scanning", scan.left # <<>>
  PROVE  /\ ReadOnce(Rest, Both(NextFile), BothLen(NextFile))
         /\ \A i \in 1..BothLen(NextFile) : Found(Rest, Both(NextFile)[i])
         /\ \A p \in Priorities : GroupOK(Rest, p)
         /\ Collected(Rest, Both(NextFile), BothLen(NextFile), AfterFile)
<1>1. SearchOK(scan) /\ LogOK /\ CursorOK
  BY DEF Sound, ScanOK, SessionOK, WalkOK
<1>2. /\ scan \in Scans /\ Rest \in Scans /\ Rest.limit = scan.limit /\ Rest.hidden = scan.hidden
      /\ Rest.seeking = scan.seeking /\ Rest.groups = scan.groups
      /\ scan.limit \in Nat /\ NextFile \in Files /\ NextFile \in ToSet(scan.left) /\ all
  BY RestIs
<1> DEFINE f == NextFile
           hits == Both(f)
           n == BothLen(f)
<1>3. /\ n \in Nat /\ DOMAIN hits = 1..n
      /\ \A i \in 1..n : hits[i] \in Matches /\ hits[i].file = f /\ Found(scan, hits[i])
      /\ \A i, j \in 1..n : i < j =>
           \/ PriorityOf(hits[i]) < PriorityOf(hits[j])
           \/ PriorityOf(hits[i]) = PriorityOf(hits[j]) /\ hits[j].pos < hits[i].pos
  BY <1>1, <1>2, BothIs
<1> HIDE DEF f, hits, n
<1>4. ASSUME NEW i \in 1..n, NEW j \in 1..n, hits[i] = hits[j] PROVE i = j
  <2>1. /\ PriorityOf(hits[i]) \in Int /\ hits[i].pos \in Int
        /\ PriorityOf(hits[j]) \in Int /\ hits[j].pos \in Int
    BY <1>1, <1>3, MatchIs DEF Positions, Priorities
  <2>2. ~(i < j) /\ ~(j < i)
    BY <1>3, <1>4, <2>1
  <2> QED BY <1>3, <2>2
<1>5. ASSUME ~Rest.seeking, cursor # NoCursor, NEW i \in 1..n PROVE hits[i] # cursor.hit
  <2>1. cursor.hit.file \notin ToSet(scan.left)
    BY <1>1, <1>2, <1>5 DEF SearchOK, AnchorOK
  <2> QED BY <1>2, <1>3, <2>1 DEF f
<1>6. Rest.seeking => cursor # NoCursor
  BY <1>1, <1>2 DEF SearchOK
<1>7. ReadOnce(Rest, hits, n)
  BY <1>2, <1>3, <1>4, <1>5, <1>6 DEF ReadOnce
<1>8. \A i \in 1..n : Found(Rest, hits[i])
  BY <1>2, <1>3 DEF Found
<1>9. \A p \in Priorities : GroupOK(Rest, p)
  BY <1>1, <1>2 DEF SearchOK, GroupOK, SeekingIn
<1>10. Collected(Rest, hits, n, FoldLeft(Add, Rest, hits))
  BY <1>1, <1>2, <1>7, <1>8, <1>9, FileCollected
<1> QED BY <1>7, <1>8, <1>9, <1>10 DEF f, hits, n, AfterFile

\* No file is left when there is enough.
NextScan == IF Enough(AfterFile) THEN [AfterFile EXCEPT !.left = <<>>] ELSE AfterFile

LEMMA NextScanIs ==
  ASSUME Sound, walk = "scanning", scan.left # <<>>
  PROVE  /\ AfterFile \in Scans /\ NextScan \in Scans
         /\ NextScan.limit = scan.limit /\ NextScan.hidden = scan.hidden
         /\ NextScan.seeking = AfterFile.seeking /\ NextScan.groups = AfterFile.groups
         /\ NextScan.left = IF Enough(AfterFile) THEN <<>> ELSE Rest.left
<1>1. /\ AfterFile \in Scans /\ SameSearch(Rest, AfterFile)
      /\ Rest.limit = scan.limit /\ Rest.hidden = scan.hidden
  BY FileRead, RestIs DEF Collected
<1>2. PICK r \in Scans : r = AfterFile
  BY <1>1
<1>3. /\ [r EXCEPT !.left = <<>>] \in Scans
      /\ [r EXCEPT !.left = <<>>].limit = r.limit /\ [r EXCEPT !.left = <<>>].hidden = r.hidden
      /\ [r EXCEPT !.left = <<>>].seeking = r.seeking /\ [r EXCEPT !.left = <<>>].groups = r.groups
      /\ [r EXCEPT !.left = <<>>].left = <<>>
  <2>1. <<>> \in Seq(Files)
    OBVIOUS
  <2> QED BY <2>1 DEF Scans
<1>4. CASE Enough(AfterFile)
  BY <1>1, <1>2, <1>3, <1>4 DEF NextScan, SameSearch
<1>5. CASE ~Enough(AfterFile)
  BY <1>1, <1>5 DEF NextScan, SameSearch
<1> QED BY <1>4, <1>5

LEMMA FileSearched ==
  ASSUME Sound, walk = "scanning", scan.left # <<>>
  PROVE  SearchOK(NextScan)
<1>1. SearchOK(scan) /\ LogOK /\ CursorOK
  BY DEF Sound, ScanOK, SessionOK, WalkOK
<1> DEFINE f == NextFile
           hits == Both(f)
           n == BothLen(f)
           a == AfterFile
           r == NextScan
<1>2. /\ scan \in Scans /\ Rest.limit = scan.limit /\ Rest.hidden = scan.hidden
      /\ Rest.seeking = scan.seeking
      /\ scan.limit \in Nat /\ f \in Files /\ all
      /\ ToSet(scan.left) = ToSet(Rest.left) \cup {f} /\ f \notin ToSet(Rest.left)
      /\ \A i, j \in DOMAIN Rest.left : Rest.left[i] = Rest.left[j] => i = j
  BY RestIs
<1>3. /\ a \in Scans /\ SameSearch(Rest, a) /\ Seeks(Rest, hits, n, a)
      /\ \A p \in Priorities : GroupOK(a, p)
      /\ \A i \in 1..n : Found(Rest, hits[i])
  BY FileRead DEF Collected
<1>4. /\ r \in Scans /\ r.limit = scan.limit /\ r.hidden = scan.hidden
      /\ r.seeking = a.seeking /\ r.groups = a.groups
      /\ r.left = IF Enough(a) THEN <<>> ELSE Rest.left
  BY NextScanIs
<1>5. a.limit = scan.limit
  BY <1>2, <1>3 DEF SameSearch
<1>6. \A i \in 1..n : hits[i].file = f
  BY <1>1, <1>2, BothIs
<1> HIDE DEF f, hits, n, a, r
<1>7. \A p \in Priorities : GroupOK(r, p)
  BY <1>3, <1>4, <1>5 DEF GroupOK, SeekingIn
<1>8. a.seeking => scan.seeking /\ cursor # NoCursor
  BY <1>1, <1>2, <1>3 DEF SearchOK, Seeks
<1>9. r.seeking => r.left = Rest.left
  BY <1>1, <1>3, <1>4, <1>8, SeeksForMore
<1>10. \A h : (Found(r, h) <=> Found(scan, h)) /\ (Found(Rest, h) <=> Found(scan, h))
  BY <1>2, <1>4 DEF Found
<1>11. DOMAIN <<>> = {} /\ ToSet(<<>>) = {}
  BY DEF ToSet
<1>12. ToSet(r.left) \subseteq ToSet(Rest.left)
  BY <1>4, <1>11
<1>13. AnchorOK(r)
  <2>1. SUFFICES ASSUME cursor # NoCursor
                 PROVE  /\ r.seeking => (Found(r, cursor.hit) => cursor.hit.file \in ToSet(r.left))
                        /\ ~r.seeking => Found(r, cursor.hit) /\ cursor.hit.file \notin ToSet(r.left)
    BY DEF AnchorOK
  <2>2. CASE r.seeking
    <3>1. SUFFICES ASSUME Found(scan, cursor.hit) PROVE cursor.hit.file \in ToSet(Rest.left)
      BY <1>9, <1>10, <2>2
    <3>2. a.seeking /\ scan.seeking
      BY <1>4, <1>8, <2>2
    <3>3. cursor.hit.file \in ToSet(scan.left)
      BY <1>1, <2>1, <3>1, <3>2 DEF SearchOK, AnchorOK
    <3>4. cursor.hit.file # f
      <4>1. SUFFICES ASSUME cursor.hit.file = f PROVE FALSE
        OBVIOUS
      <4>2. PICK p \in Priorities : p = PriorityOf(cursor.hit)
        BY <1>1, <2>1, MatchIs DEF CursorOK
      <4>3. cursor.hit \in Matches /\ cursor.hit \in Hit /\ cursor.hit.pos \in Positions(f)
        BY <1>1, <2>1, <4>1, MatchIs DEF CursorOK
      <4>4. At(f, cursor.hit.pos) = cursor.hit
        <5>1. At(f, cursor.hit.pos) \in Hit /\ At(f, cursor.hit.pos).file = f /\ At(f, cursor.hit.pos).pos = cursor.hit.pos
          BY <1>1, <1>2, <4>3, MatchIs
        <5> QED BY <1>1, <4>1, <4>3, <5>1, MatchIs
      <4>5. cursor.hit.pos \in HitsOf(f, p)
        BY <3>1, <4>2, <4>3, <4>4 DEF HitsOf
      <4>6. cursor.hit.pos \in Int
        BY <4>3 DEF Positions
      <4>7. /\ cursor.hit.pos \in UpTo(f, p)
            /\ \A j \in UpTo(f, p) : j <= cursor.hit.pos
        BY <3>2, <4>1, <4>2, <4>5, <4>6 DEF UpTo, SeekingIn
      <4>8. PICK i \in 1..RecentLen(f, p) : Recent(f, p)[i] = cursor.hit
        BY <1>1, <1>2, <4>4, <4>7, RecentIs
      <4>9. PICK j \in 1..n : hits[j] = cursor.hit
        BY <1>1, <1>2, <4>8, BothIs DEF hits, n
      <4> QED BY <1>3, <3>2, <4>9 DEF Seeks
    <3> QED BY <1>2, <3>3, <3>4
  <2>3. CASE ~r.seeking
    <3>1. CASE scan.seeking
      <4>1. PICK i \in 1..n : Found(Rest, hits[i]) /\ hits[i] = cursor.hit
        BY <1>2, <1>3, <1>4, <2>3, <3>1 DEF Seeks
      <4> QED BY <1>2, <1>6, <1>10, <1>12, <2>3, <4>1
    <3>2. CASE ~scan.seeking
      <4>1. Found(scan, cursor.hit) /\ cursor.hit.file \notin ToSet(scan.left)
        BY <1>1, <2>1, <3>2 DEF SearchOK, AnchorOK
      <4> QED BY <1>2, <1>10, <1>12, <2>3, <4>1
    <3> QED BY <3>1, <3>2
  <2> QED BY <2>2, <2>3
<1>14. \A i, j \in DOMAIN r.left : r.left[i] = r.left[j] => i = j
  BY <1>2, <1>4, <1>11
<1>15. r.limit \in Limits
  BY <1>1, <1>4 DEF SearchOK
<1>16. SearchOK(r)
  BY <1>2, <1>4, <1>7, <1>8, <1>13, <1>14, <1>15 DEF SearchOK
<1> QED BY <1>16 DEF r

----------------------------------------------------------------------------
(* A page. *)

Fragments == [hit : Hit, from : Nat, to : Nat]
Cursors == [hit : Hit \cup {NoHit}, offset : Nat]
Pages == [parts : Seq(Fragments), room : Int, full : BOOLEAN, of : Nat, next : Cursors]

\* What a page shows of h.
Fragment(h, to) == [hit |-> h, from |-> Offset(h), to |-> to]

\* r has h on its page as well, up to the character to.
Shows(a, h, r, to) ==
  /\ r.parts = Append(a.parts, Fragment(h, to))
  /\ Offset(h) < to /\ to <= SizeOf(h)
  /\ to < SizeOf(h) => r.full
  /\ ~r.full => r.room > 0 /\ Len(a.parts) + 1 < scan.limit
  /\ r.next = IF to < SizeOf(h) \/ Len(a.parts) + 1 < a.of THEN [hit |-> h, offset |-> to] ELSE NoCursor

LEMMA AddPartIs ==
  ASSUME NEW a \in Pages, NEW h \in Hit, Offset(h) \in Nat, SizeOf(h) \in Nat, Offset(h) < SizeOf(h),
         scan.limit \in Nat
  PROVE  LET r == AddPart(a, h)
         IN  /\ r \in Pages /\ r.of = a.of
             /\ \/ /\ a.full \/ a.parts # <<>> \/ a.room <= Mark
                   /\ r.parts = a.parts /\ r.next = a.next /\ r.full = TRUE
                \/ /\ ~a.full
                   /\ \E to \in Nat : Shows(a, h, r, to)
<1> DEFINE size == SizeOf(h)
           from == Offset(h)
           mark == IF from > 0 \/ size > a.room THEN Mark ELSE 0
           to == IF from + a.room - mark < size THEN from + a.room - mark ELSE size
           left == a.room - (mark + to - from) - 1
           count == Len(a.parts) + 1
           r == AddPart(a, h)
           full == a.full \/ (a.parts # <<>> /\ size - from > a.room) \/ mark >= a.room
           more == [parts |-> Append(a.parts, [hit |-> h, from |-> from, to |-> to]),
                    room |-> left, full |-> left <= 0 \/ count >= scan.limit, of |-> a.of,
                    next |-> IF to < size \/ count < a.of THEN [hit |-> h, offset |-> to] ELSE NoCursor]
<1>1. Mark \in Nat /\ a.room \in Int /\ a.parts \in Seq(Fragments) /\ a.of \in Nat /\ a.next \in Cursors
  BY SizesAssumption DEF Pages
<1>2. r = IF full THEN [a EXCEPT !.full = TRUE] ELSE more
  BY DEF AddPart
<1>3. mark \in Nat /\ mark <= Mark
  BY <1>1
<1>4. CASE full
  <2>1. r = [a EXCEPT !.full = TRUE]
    BY <1>2, <1>4
  <2>2. r \in Pages /\ r.of = a.of /\ r.parts = a.parts /\ r.next = a.next /\ r.full = TRUE
    <3> HIDE DEF r, full
    <3> QED BY <2>1 DEF Pages
  <2>3. a.full \/ a.parts # <<>> \/ a.room <= Mark
    <3>1. mark >= a.room => a.room <= Mark
      BY <1>1, <1>3
    <3> QED BY <1>4, <3>1
  <2> HIDE DEF r, full
  <2> QED BY <2>2, <2>3 DEF r
<1>5. CASE ~full
  <2>1. r = more
    BY <1>2, <1>5
  <2>2. mark < a.room /\ ~a.full
    BY <1>1, <1>3, <1>5
  <2> HIDE DEF mark, full
  <2>3. to \in Nat /\ from < to /\ to <= size /\ left \in Int /\ (to < size => left <= 0)
    BY <1>1, <1>3, <2>2
  <2>4. count \in Nat
    BY <1>1
  <2> HIDE DEF to, left, count
  <2>5. [hit |-> h, from |-> from, to |-> to] \in Fragments /\ [hit |-> h, offset |-> to] \in Cursors /\ NoCursor \in Cursors
    BY <2>3 DEF Fragments, Cursors, NoCursor, NoHit
  <2>6. Append(a.parts, [hit |-> h, from |-> from, to |-> to]) \in Seq(Fragments)
    BY <1>1, <2>5
  <2>7. /\ more.parts = Append(a.parts, Fragment(h, to))
        /\ more.room = left /\ more.of = a.of
        /\ more.full <=> (left <= 0 \/ count >= scan.limit)
        /\ more.next = IF to < size \/ count < a.of THEN [hit |-> h, offset |-> to] ELSE NoCursor
    BY DEF Fragment
  <2>8. more \in Pages
    <3>1. (left <= 0 \/ count >= scan.limit) \in BOOLEAN
      OBVIOUS
    <3>2. (IF to < size \/ count < a.of THEN [hit |-> h, offset |-> to] ELSE NoCursor) \in Cursors
      BY <2>5
    <3> QED BY <1>1, <2>3, <2>6, <3>1, <3>2 DEF Pages
  <2> HIDE DEF more
  <2>9. to < size => more.full
    BY <2>3, <2>7
  <2>10. ~more.full => more.room > 0 /\ count < scan.limit
    BY <2>3, <2>4, <2>7
  <2>11. Shows(a, h, more, to)
    BY <2>3, <2>7, <2>9, <2>10 DEF Shows, count
  <2> HIDE DEF r
  <2> QED BY <2>1, <2>2, <2>3, <2>7, <2>8, <2>11 DEF r
<1> QED BY <1>4, <1>5

\* After k of the hits: a page shows the first of them, all but its last to their ends.
Filled(hits, n, k, a) ==
  /\ a \in Pages /\ a.of = n
  /\ Len(a.parts) <= k /\ Len(a.parts) <= scan.limit
  /\ k > 0 => Len(a.parts) > 0
  /\ k = 0 => ~a.full /\ a.room > Mark
  /\ ~a.full => Len(a.parts) = k /\ Len(a.parts) < scan.limit
  /\ \A i \in 1..Len(a.parts) :
       /\ a.parts[i] = Fragment(hits[i], a.parts[i].to)
       /\ Offset(hits[i]) < a.parts[i].to /\ a.parts[i].to <= SizeOf(hits[i])
       /\ i < Len(a.parts) \/ ~a.full => a.parts[i].to = SizeOf(hits[i])
  /\ Len(a.parts) = 0 => a.next = NoCursor
  /\ Len(a.parts) > 0 =>
       LET m == Len(a.parts)
       IN  a.next = IF a.parts[m].to < SizeOf(hits[m]) \/ m < n
                    THEN [hit |-> hits[m], offset |-> a.parts[m].to] ELSE NoCursor

\* The hits of a page can all be shown.
Showable(hits, n) ==
  /\ n \in Nat /\ DOMAIN hits = 1..n
  /\ \A i \in 1..n : /\ hits[i] \in Hit /\ Offset(hits[i]) \in Nat /\ SizeOf(hits[i]) \in Nat
                     /\ Offset(hits[i]) < SizeOf(hits[i])

LEMMA PartFills ==
  ASSUME NEW n, NEW hits, Showable(hits, n), scan.limit \in Nat,
         NEW k \in 1..n, NEW a, Filled(hits, n, k - 1, a)
  PROVE  Filled(hits, n, k, AddPart(a, hits[k]))
<1> DEFINE h == hits[k]
           r == AddPart(a, h)
<1>1. /\ n \in Nat /\ h \in Hit /\ Offset(h) \in Nat /\ SizeOf(h) \in Nat /\ Offset(h) < SizeOf(h)
      /\ a \in Pages
  BY DEF Showable, Filled
<1>2. /\ r \in Pages /\ r.of = a.of
      /\ \/ /\ a.full \/ a.parts # <<>> \/ a.room <= Mark
            /\ r.parts = a.parts /\ r.next = a.next /\ r.full = TRUE
         \/ /\ ~a.full
            /\ \E to \in Nat : Shows(a, h, r, to)
  BY <1>1, AddPartIs
<1> HIDE DEF r, h
<1>3. /\ a.of = n /\ a.parts \in Seq(Fragments) /\ r.parts \in Seq(Fragments)
      /\ Len(a.parts) \in Nat /\ Len(a.parts) <= k - 1 /\ Len(a.parts) <= scan.limit
      /\ k - 1 > 0 => Len(a.parts) > 0
      /\ k - 1 = 0 => ~a.full /\ a.room > Mark
      /\ ~a.full => Len(a.parts) = k - 1 /\ Len(a.parts) < scan.limit
  BY <1>1, <1>2 DEF Filled, Pages
<1>4. \A i \in 1..Len(a.parts) :
        /\ a.parts[i] = Fragment(hits[i], a.parts[i].to)
        /\ Offset(hits[i]) < a.parts[i].to /\ a.parts[i].to <= SizeOf(hits[i])
        /\ i < Len(a.parts) \/ ~a.full => a.parts[i].to = SizeOf(hits[i])
  BY DEF Filled
<1>5. CASE /\ a.full \/ a.parts # <<>> \/ a.room <= Mark
           /\ r.parts = a.parts /\ r.next = a.next /\ r.full = TRUE
  <2>1. Len(a.parts) > 0
    <3>1. a.parts # <<>> => Len(a.parts) > 0
      BY <1>3
    <3>2. a.room <= Mark => k - 1 # 0
      BY <1>1, <1>3, SizesAssumption DEF Pages
    <3> QED BY <1>1, <1>3, <1>5, <3>1, <3>2
  <2>2. \A i \in 1..Len(r.parts) :
          /\ r.parts[i] = Fragment(hits[i], r.parts[i].to)
          /\ Offset(hits[i]) < r.parts[i].to /\ r.parts[i].to <= SizeOf(hits[i])
          /\ i < Len(r.parts) \/ ~r.full => r.parts[i].to = SizeOf(hits[i])
    BY <1>4, <1>5
  <2>3. LET m == Len(r.parts)
        IN  r.next = IF r.parts[m].to < SizeOf(hits[m]) \/ m < n
                     THEN [hit |-> hits[m], offset |-> r.parts[m].to] ELSE NoCursor
    BY <1>5, <2>1 DEF Filled
  <2>4. Len(r.parts) <= k /\ Len(r.parts) <= scan.limit /\ Len(r.parts) > 0 /\ k # 0
    BY <1>1, <1>3, <1>5, <2>1
  <2> QED BY <1>2, <1>3, <1>5, <2>2, <2>3, <2>4 DEF Filled, r, h
<1>6. CASE ~a.full /\ \E to \in Nat : Shows(a, h, r, to)
  <2>1. PICK to \in Nat : Shows(a, h, r, to)
    BY <1>6
  <2>2. Len(a.parts) = k - 1 /\ Fragment(h, to) \in Fragments
    BY <1>1, <1>3, <1>6 DEF Fragment, Fragments
  <2>3. PICK parts \in Seq(Fragments) : parts = a.parts
    BY <1>3
  <2>4. /\ Len(r.parts) = k /\ \A i \in 1..(k - 1) : r.parts[i] = parts[i]
        /\ r.parts[k] = Fragment(h, to)
    BY <1>1, <2>1, <2>2, <2>3 DEF Shows
  <2>5. r.parts[k].to = to
    BY <2>4 DEF Fragment
  <2>6. ASSUME NEW i \in 1..k
        PROVE  /\ r.parts[i] = Fragment(hits[i], r.parts[i].to)
               /\ Offset(hits[i]) < r.parts[i].to /\ r.parts[i].to <= SizeOf(hits[i])
               /\ i < k \/ ~r.full => r.parts[i].to = SizeOf(hits[i])
    <3>1. CASE i = k
      <4>1. ~r.full => to = SizeOf(h)
        BY <1>1, <2>1 DEF Shows
      <4> QED BY <1>1, <2>1, <2>4, <2>5, <3>1, <4>1 DEF Shows, h
    <3>2. CASE i # k
      <4>1. i \in 1..(k - 1)
        BY <1>1, <3>2
      <4> QED BY <1>4, <1>6, <2>2, <2>3, <2>4, <4>1
    <3> QED BY <3>1, <3>2
  <2>7. r.next = IF r.parts[k].to < SizeOf(hits[k]) \/ k < n
                 THEN [hit |-> hits[k], offset |-> r.parts[k].to] ELSE NoCursor
    <3>1. Len(a.parts) + 1 = k /\ a.of = n
      BY <1>1, <1>3, <2>2
    <3> QED BY <2>1, <2>5, <3>1 DEF Shows, h
  <2>8. k > 0 /\ k <= scan.limit /\ (~r.full => k < scan.limit)
    <3>1. k - 1 < scan.limit
      BY <1>3, <1>6, <2>2
    <3>2. ~r.full => k < scan.limit
      BY <1>1, <2>1, <2>2 DEF Shows
    <3> QED BY <1>1, <3>1, <3>2
  <2> QED BY <1>1, <1>2, <1>3, <2>4, <2>6, <2>7, <2>8 DEF Filled, r, h
<1> QED BY <1>2, <1>5, <1>6

LEMMA PageFilled ==
  ASSUME NEW n, NEW hits, Showable(hits, n), scan.limit \in Nat \ {0}, NEW room \in Rooms
  PROVE  Filled(hits, n, n, FoldLeft(AddPart, [parts |-> <<>>, room |-> room, full |-> FALSE,
                                               of |-> n, next |-> NoCursor], hits))
<1> DEFINE b == [parts |-> <<>>, room |-> room, full |-> FALSE, of |-> n, next |-> NoCursor]
           T == [k \in 0..n |-> {a \in Pages : Filled(hits, n, k, a)}]
<1>1. n \in Nat /\ DOMAIN hits = 1..n
  BY DEF Showable
<1>2. room \in Int /\ room > Mark /\ Mark \in Nat
  BY SizesAssumption
<1>3. b \in Pages
  <2>1. <<>> \in Seq(Fragments)
    OBVIOUS
  <2> QED BY <1>1, <1>2, <2>1 DEF Pages, Cursors, NoCursor
<1>4. Len(b.parts) = 0 /\ ~b.full /\ b.of = n /\ b.next = NoCursor /\ b.room = room
  OBVIOUS
<1>5. Filled(hits, n, 0, b)
  <2> HIDE DEF b
  <2>1. \A i \in 1..Len(b.parts) : FALSE
    BY <1>4
  <2> QED BY <1>2, <1>3, <1>4, <2>1 DEF Filled
<1>6. b \in T[0]
  BY <1>1, <1>3, <1>5
<1>7. ASSUME NEW k \in 1..n, NEW a \in T[k - 1] PROVE AddPart(a, hits[k]) \in T[k]
  <2>1. k - 1 \in 0..n /\ k \in 0..n
    BY <1>1
  <2>2. Filled(hits, n, k - 1, a)
    BY <2>1
  <2>3. Filled(hits, n, k, AddPart(a, hits[k]))
    BY <2>2, PartFills
  <2> QED BY <2>1, <2>3 DEF Filled
<1>8. FoldLeft(AddPart, b, hits) \in T[n]
  <2> HIDE DEF T, b
  <2> QED BY <1>1, <1>6, <1>7, PartInduction
<1> QED BY <1>1, <1>8

\* The hits of a search by their groups.
RankedLen == Len(scan.groups[0]) + Len(scan.groups[1])

LEMMA RankedIs ==
  ASSUME LogOK, CursorOK, SearchOK(scan)
  PROVE  /\ scan.groups[0] \in Seq(Hit) /\ scan.groups[1] \in Seq(Hit)
         /\ RankedLen \in Nat /\ Ranked(scan) \in Seq(Hit) /\ Len(Ranked(scan)) = RankedLen
         /\ \A i \in 1..Len(scan.groups[0]) : i \in 1..RankedLen /\ Ranked(scan)[i] = scan.groups[0][i]
         /\ \A j \in 1..Len(scan.groups[1]) : /\ Len(scan.groups[0]) + j \in 1..RankedLen
                                              /\ Ranked(scan)[Len(scan.groups[0]) + j] = scan.groups[1][j]
         /\ \A i \in 1..RankedLen : \/ i \in 1..Len(scan.groups[0])
                                    \/ \E j \in 1..Len(scan.groups[1]) : i = Len(scan.groups[0]) + j
<1>1. scan.groups[0] \in Seq(Hit) /\ scan.groups[1] \in Seq(Hit)
  BY DEF SearchOK, Scans, Priorities
<1>2. PICK a \in Seq(Hit) : a = scan.groups[0]
  BY <1>1
<1>3. PICK c \in Seq(Hit) : c = scan.groups[1]
  BY <1>1
<1>4. /\ Len(a) \in Nat /\ Len(c) \in Nat /\ a \o c \in Seq(Hit) /\ Len(a \o c) = Len(a) + Len(c)
      /\ \A i \in 1..Len(a) : i \in 1..(Len(a) + Len(c)) /\ (a \o c)[i] = a[i]
      /\ \A j \in 1..Len(c) : Len(a) + j \in 1..(Len(a) + Len(c)) /\ (a \o c)[Len(a) + j] = c[j]
  OBVIOUS
<1>5. \A i \in 1..(Len(a) + Len(c)) : i \in 1..Len(a) \/ (i - Len(a) \in 1..Len(c) /\ i = Len(a) + (i - Len(a)))
  BY <1>4
<1>6. Ranked(scan) = a \o c /\ RankedLen = Len(a) + Len(c)
  BY <1>2, <1>3 DEF Ranked, RankedLen
<1>7. \A i \in 1..(Len(a) + Len(c)) : i \in 1..Len(a) \/ \E j \in 1..Len(c) : i = Len(a) + j
  BY <1>5
<1>8. \A i \in 1..Len(scan.groups[0]) : i \in 1..RankedLen /\ Ranked(scan)[i] = scan.groups[0][i]
  BY <1>2, <1>4, <1>6
<1>9. \A j \in 1..Len(scan.groups[1]) : /\ Len(scan.groups[0]) + j \in 1..RankedLen
                                         /\ Ranked(scan)[Len(scan.groups[0]) + j] = scan.groups[1][j]
  BY <1>2, <1>3, <1>4, <1>6
<1>10. \A i \in 1..RankedLen : \/ i \in 1..Len(scan.groups[0])
                                \/ \E j \in 1..Len(scan.groups[1]) : i = Len(scan.groups[0]) + j
  BY <1>2, <1>3, <1>6, <1>7
<1>11. RankedLen \in Nat /\ Ranked(scan) \in Seq(Hit) /\ Len(Ranked(scan)) = RankedLen
  BY <1>4, <1>6
<1> QED BY <1>1, <1>8, <1>9, <1>10, <1>11

LEMMA RankedShows ==
  ASSUME LogOK, CursorOK, SearchOK(scan)
  PROVE  /\ Showable(Ranked(scan), RankedLen)
         /\ \A i \in 1..RankedLen : Ranked(scan)[i] \in Matches /\ (~all => Ranked(scan)[i].file = Current)
<1>1. \A p \in Priorities : GroupOK(scan, p)
  BY DEF SearchOK
<1>2. ASSUME NEW i \in 1..RankedLen
      PROVE  /\ Ranked(scan)[i] \in Matches /\ (~all => Ranked(scan)[i].file = Current)
             /\ Anchor(Ranked(scan)[i]) => ~Finished(Ranked(scan)[i])
  <2>1. CASE i \in 1..Len(scan.groups[0])
    <3>1. Ranked(scan)[i] = scan.groups[0][i] /\ i \in DOMAIN scan.groups[0]
      BY <2>1, RankedIs
    <3> QED BY <1>1, <3>1 DEF GroupOK, Priorities
  <2>2. CASE \E j \in 1..Len(scan.groups[1]) : i = Len(scan.groups[0]) + j
    <3>1. PICK j \in 1..Len(scan.groups[1]) : i = Len(scan.groups[0]) + j
      BY <2>2
    <3>2. Ranked(scan)[i] = scan.groups[1][j] /\ scan.groups[1] \in Seq(Hit)
      BY <3>1, RankedIs
    <3>3. j \in DOMAIN scan.groups[1]
      BY <3>2
    <3> QED BY <1>1, <3>2, <3>3 DEF GroupOK, Priorities
  <2> QED BY <2>1, <2>2, RankedIs
<1>3. ASSUME NEW h \in Matches, Anchor(h) => ~Finished(h)
      PROVE  h \in Hit /\ Offset(h) \in Nat /\ SizeOf(h) \in Nat /\ Offset(h) < SizeOf(h)
  <2>1. h \in Hit /\ SizeOf(h) \in Nat \ {0}
    BY MatchIs
  <2>2. Anchor(h) => cursor.offset \in 1..SizeOf(h) /\ cursor.offset # SizeOf(h)
    BY <1>3 DEF CursorOK, Anchor, Finished
  <2> QED BY <2>1, <2>2 DEF Offset
<1>4. RankedLen \in Nat /\ DOMAIN Ranked(scan) = 1..RankedLen
  BY RankedIs
<1> QED BY <1>2, <1>3, <1>4 DEF Showable

LEMMA PageIs ==
  ASSUME Sound, Scanned, NEW room \in Rooms
  PROVE  Filled(Ranked(scan), RankedLen, RankedLen, Parts(room))
<1>1. LogOK /\ CursorOK /\ SearchOK(scan)
  BY DEF Sound, SessionOK, ScanOK, WalkOK, Scanned
<1>2. scan.limit \in Nat \ {0}
  BY <1>1, SizesAssumption DEF SearchOK
<1>3. PICK n : n = RankedLen
  OBVIOUS
<1>4. PICK hits : hits = Ranked(scan)
  OBVIOUS
<1>5. Showable(hits, n) /\ Len(hits) = n
  BY <1>1, <1>3, <1>4, RankedShows, RankedIs
<1>6. Parts(room) = FoldLeft(AddPart, [parts |-> <<>>, room |-> room, full |-> FALSE,
                                       of |-> n, next |-> NoCursor], hits)
  BY <1>4, <1>5 DEF Parts
<1>7. Filled(hits, n, n, Parts(room))
  BY <1>2, <1>5, <1>6, PageFilled
<1> QED BY <1>3, <1>4, <1>7

----------------------------------------------------------------------------
(* Every step keeps a walk sound. *)

\* Nothing that was written is lost, or changes.
Grown == /\ Matches \subseteq Matches'
         /\ \A h \in Matches : PriorityOf(h)' = PriorityOf(h) /\ SizeOf(h)' = SizeOf(h)

LEMMA SessionStays ==
  ASSUME SessionOK, UNCHANGED sessionVars
  PROVE  SessionOK' /\ Grown /\ Matches' = Matches
<1>1. /\ log' = log /\ order' = order /\ branch' = branch /\ active' = active
      /\ writes' = writes /\ moves' = moves
  BY DEF sessionVars
<1>2. Grown /\ Matches' = Matches
  BY <1>1 DEF Grown, Matches, Positions, PriorityOf, SizeOf
<1> QED BY <1>1, <1>2 DEF SessionOK, LogOK, OrderOK, Positions

LEMMA ShownStays ==
  ASSUME ShownOK, Grown,
         UNCHANGED <<due, shown>>, Going' /\ cursor' = NoCursor => Going /\ cursor = NoCursor
  PROVE  ShownOK'
BY DEF ShownOK, Grown

LEMMA CursorStays ==
  ASSUME CursorOK, Grown, cursor' = cursor
  PROVE  CursorOK'
BY DEF CursorOK, Grown

LEMMA SearchStays ==
  ASSUME NEW s, SearchOK(s), CursorOK, Grown, cursor' = cursor, all' = all
  PROVE  SearchOK(s)'
<1>1. cursor # NoCursor => cursor.hit \in Matches /\ PriorityOf(cursor.hit)' = PriorityOf(cursor.hit)
  BY DEF CursorOK, Grown
<1>2. s.seeking => cursor # NoCursor
  BY DEF SearchOK
<1>3. \A p \in Priorities : (Behind(p)' <=> Behind(p)) /\ (SeekingIn(s, p)' <=> SeekingIn(s, p))
  BY <1>1, <1>2 DEF Behind, SeekingIn
<1>4. \A h \in Matches : (Anchor(h)' <=> Anchor(h)) /\ (Finished(h)' <=> Finished(h))
  BY DEF Grown, Anchor, Finished
<1>5. ASSUME NEW p \in Priorities PROVE GroupOK(s, p)'
  BY <1>3, <1>4 DEF SearchOK, GroupOK, Grown
<1>6. AnchorOK(s)'
  BY DEF SearchOK, AnchorOK, Found
<1> QED BY <1>5, <1>6 DEF SearchOK

LEMMA FailSound ==
  ASSUME Sound, Fail \/ Refuse
  PROVE  Sound'
<1>1. /\ walk = "scanning" /\ walk' \in {"ready", "failed"} /\ scan' = NoScan
      /\ UNCHANGED sessionVars /\ all' = all /\ cursor' = cursor
      /\ due' = due /\ shown' = shown /\ page' = page /\ calm' = calm
  BY DEF Fail, Refuse, Scanned, historyVars
<1>2. SessionOK' /\ Grown
  BY <1>1, SessionStays DEF Sound
<1>3. ScanOK'
  BY <1>1 DEF ScanOK
<1>4. WalkOK'
  BY <1>1, <1>2, CursorStays DEF Sound, WalkOK, Going
<1>5. ShownOK'
  BY <1>1, <1>2, ShownStays DEF Sound, Going
<1> QED BY <1>2, <1>3, <1>4, <1>5 DEF Sound

LEMMA SearchSound ==
  ASSUME Sound, NEW limit \in Limits, SearchArchive(limit) \/ SearchBranch(limit)
  PROVE  Sound'
<1>1. /\ walk = "ready" /\ walk' = "scanning" /\ due' = DueNow
      /\ UNCHANGED sessionVars /\ all' = all /\ cursor' = cursor
      /\ shown' = shown /\ page' = page /\ calm' = calm
  BY DEF SearchArchive, SearchBranch
<1>2. SessionOK' /\ Grown
  BY <1>1, SessionStays DEF Sound
<1>3. PICK s : s = scan'
  OBVIOUS
<1>4. SearchOK(s)
  <2>1. CASE SearchArchive(limit)
    BY <1>3, <2>1, ArchiveBegins DEF SearchArchive
  <2>2. CASE SearchBranch(limit)
    BY <1>3, <2>2, BranchSearched DEF SearchBranch, OnBranch, OffBranch
  <2> QED BY <2>1, <2>2
<1>5. SearchOK(s)'
  BY <1>1, <1>2, <1>4, SearchStays DEF Sound, WalkOK
<1>6. ScanOK'
  BY <1>1, <1>3, <1>5 DEF ScanOK, SearchOK, GroupOK, SeekingIn, AnchorOK, Found
<1>7. WalkOK'
  BY <1>1, <1>2, CursorStays DEF Sound, WalkOK, Going
<1>8. ShownOK'
  <2>1. due' \subseteq Matches
    BY <1>1 DEF DueNow, Sound, ShownOK
  <2> QED BY <1>1, <1>2, <2>1 DEF Sound, ShownOK, Grown, Going
<1> QED BY <1>2, <1>6, <1>7, <1>8 DEF Sound

LEMMA ScanFileSound ==
  ASSUME Sound, ScanFile
  PROVE  Sound'
<1>1. /\ walk = "scanning" /\ walk' = walk /\ scan.left # <<>> /\ scan' = NextScan
      /\ UNCHANGED sessionVars /\ all' = all /\ cursor' = cursor
      /\ due' = due /\ shown' = shown /\ page' = page /\ calm' = calm
  BY DEF ScanFile, historyVars, NextScan, AfterFile, Rest, NextFile, Both
<1>2. SessionOK' /\ Grown
  BY <1>1, SessionStays DEF Sound
<1>3. PICK s : s = scan'
  OBVIOUS
<1>4. SearchOK(s)
  BY <1>1, <1>3, FileSearched
<1>5. SearchOK(s)'
  BY <1>1, <1>2, <1>4, SearchStays DEF Sound, WalkOK
<1>6. ScanOK'
  BY <1>1, <1>3, <1>5 DEF ScanOK, SearchOK, GroupOK, SeekingIn, AnchorOK, Found
<1>7. WalkOK'
  BY <1>1, <1>2, CursorStays DEF Sound, WalkOK, Going
<1>8. ShownOK'
  BY <1>1, <1>2, ShownStays DEF Sound, Going
<1> QED BY <1>2, <1>6, <1>7, <1>8 DEF Sound

\* What a page says of the hits that it shows.
LEMMA DeliverIs ==
  ASSUME Sound, NEW room \in Rooms, Deliver(room)
  PROVE  /\ Scanned /\ ~Lost /\ scan' = NoScan /\ SearchOK(scan)
         /\ UNCHANGED sessionVars /\ all' = all /\ due' = due /\ calm' = calm
         /\ Filled(Ranked(scan), RankedLen, RankedLen, Parts(room))
         /\ page' = Parts(room).parts /\ page' \in Seq(Fragments)
         /\ \A h \in Hit : \/ (\A i \in 1..Len(page') : page'[i].hit # h) /\ shown'[h] = shown[h]
                           \/ \E i \in 1..Len(page') : page'[i].hit = h /\ shown'[h] = page'[i].to
         /\ shown' = [h \in Hit |-> shown'[h]]
         /\ IF Parts(room).next = NoCursor THEN walk' = "done" /\ cursor' = cursor
                                           ELSE walk' = "ready" /\ cursor' = Parts(room).next
<1>1. PICK p : p = Parts(room)
  OBVIOUS
<1>2. /\ Scanned /\ ~Lost /\ scan' = NoScan
      /\ UNCHANGED sessionVars /\ all' = all /\ due' = due /\ calm' = calm
      /\ page' = p.parts
      /\ shown' = [h \in Hit |-> IF \E i \in DOMAIN p.parts : p.parts[i].hit = h
                                 THEN (CHOOSE x \in ToSet(p.parts) : x.hit = h).to
                                 ELSE shown[h]]
      /\ IF p.next = NoCursor THEN walk' = "done" /\ cursor' = cursor
                              ELSE walk' = "ready" /\ cursor' = p.next
  BY <1>1 DEF Deliver
<1>3. Filled(Ranked(scan), RankedLen, RankedLen, p) /\ SearchOK(scan)
  BY <1>1, <1>2, PageIs DEF Sound, ScanOK, Scanned
<1>4. p.parts \in Seq(Fragments)
  BY <1>3 DEF Filled, Pages
<1>5. DOMAIN p.parts = 1..Len(p.parts)
  BY <1>4
<1>6. ASSUME NEW h \in Hit
      PROVE  \/ (\A i \in 1..Len(p.parts) : p.parts[i].hit # h) /\ shown'[h] = shown[h]
             \/ \E i \in 1..Len(p.parts) : p.parts[i].hit = h /\ shown'[h] = p.parts[i].to
  <2>1. CASE \E i \in DOMAIN p.parts : p.parts[i].hit = h
    <3>1. \E x \in ToSet(p.parts) : x.hit = h
      BY <2>1 DEF ToSet
    <3>2. PICK x \in ToSet(p.parts) : x.hit = h /\ shown'[h] = x.to
      BY <1>2, <2>1, <3>1
    <3>3. PICK i \in 1..Len(p.parts) : x = p.parts[i]
      BY <1>5, <3>2 DEF ToSet
    <3> QED BY <3>2, <3>3
  <2>2. CASE ~ \E i \in DOMAIN p.parts : p.parts[i].hit = h
    BY <1>2, <1>5, <2>2
  <2> QED BY <2>1, <2>2
<1>7. shown' = [h \in Hit |-> shown'[h]]
  BY <1>2
<1> QED BY <1>1, <1>2, <1>3, <1>4, <1>6, <1>7

\* The last fragment of a page, and the cursor behind it.
LEMMA PageEnds ==
  ASSUME Sound, Scanned, NEW a, Filled(Ranked(scan), RankedLen, RankedLen, a)
  PROVE  /\ Len(a.parts) \in Nat /\ Len(a.parts) <= RankedLen
         /\ \A i \in 1..Len(a.parts) :
              /\ a.parts[i].hit = Ranked(scan)[i] /\ a.parts[i].from = Offset(Ranked(scan)[i])
              /\ Ranked(scan)[i] \in Matches /\ Ranked(scan)[i] \in Hit
              /\ a.parts[i].to \in Nat /\ Offset(Ranked(scan)[i]) < a.parts[i].to
              /\ Offset(Ranked(scan)[i]) \in Nat /\ SizeOf(Ranked(scan)[i]) \in Nat
              /\ a.parts[i].to <= SizeOf(Ranked(scan)[i])
              /\ i < Len(a.parts) => a.parts[i].to = SizeOf(Ranked(scan)[i])
         /\ a.next = NoCursor =>
              /\ Len(a.parts) = RankedLen
              /\ \A i \in 1..RankedLen : a.parts[i].to = SizeOf(Ranked(scan)[i])
         /\ a.next # NoCursor =>
              /\ Len(a.parts) > 0
              /\ a.next = [hit |-> Ranked(scan)[Len(a.parts)], offset |-> a.parts[Len(a.parts)].to]
<1> DEFINE hits == Ranked(scan)
           n == RankedLen
           m == Len(a.parts)
<1>1. LogOK /\ CursorOK /\ SearchOK(scan)
  BY DEF Sound, SessionOK, ScanOK, WalkOK, Scanned
<1>2. /\ Showable(hits, n) /\ \A i \in 1..n : hits[i] \in Matches
      /\ n \in Nat
  BY <1>1, RankedShows, RankedIs
<1>3. a.parts \in Seq(Fragments) /\ m \in Nat /\ m <= n /\ (n > 0 => m > 0)
  BY <1>2 DEF Filled, Pages
<1>4. NoHit \notin Hit
  BY <1>1, MatchIs
<1>5. ASSUME NEW i \in 1..m
      PROVE  /\ a.parts[i].hit = hits[i] /\ a.parts[i].from = Offset(hits[i])
             /\ hits[i] \in Matches /\ hits[i] \in Hit
             /\ a.parts[i].to \in Nat /\ Offset(hits[i]) < a.parts[i].to
             /\ Offset(hits[i]) \in Nat /\ SizeOf(hits[i]) \in Nat
             /\ a.parts[i].to <= SizeOf(hits[i])
             /\ i < m => a.parts[i].to = SizeOf(hits[i])
  <2>1. i \in 1..n /\ a.parts[i] \in Fragments
    BY <1>2, <1>3
  <2>2. a.parts[i] = Fragment(hits[i], a.parts[i].to)
    BY DEF Filled
  <2>3. a.parts[i].to \in Nat
    BY <2>1 DEF Fragments
  <2>4. a.parts[i].hit = hits[i] /\ a.parts[i].from = Offset(hits[i])
    <3>1. PICK to : to = a.parts[i].to
      OBVIOUS
    <3>2. a.parts[i] = [hit |-> hits[i], from |-> Offset(hits[i]), to |-> to]
      BY <2>2, <3>1 DEF Fragment
    <3> QED BY <3>2
  <2>5. hits[i] \in Matches /\ hits[i] \in Hit /\ Offset(hits[i]) \in Nat /\ SizeOf(hits[i]) \in Nat
    BY <1>2, <2>1 DEF Showable
  <2>6. /\ Offset(hits[i]) < a.parts[i].to /\ a.parts[i].to <= SizeOf(hits[i])
        /\ i < m => a.parts[i].to = SizeOf(hits[i])
    BY DEF Filled
  <2> QED BY <2>3, <2>4, <2>5, <2>6
<1>6. CASE m = 0
  <2>1. a.next = NoCursor /\ n = 0
    BY <1>2, <1>3, <1>6 DEF Filled
  <2> QED BY <1>3, <1>5, <1>6, <2>1
<1>7. CASE m # 0
  <2>1. a.next = IF a.parts[m].to < SizeOf(hits[m]) \/ m < n
                 THEN [hit |-> hits[m], offset |-> a.parts[m].to] ELSE NoCursor
    BY <1>3, <1>7 DEF Filled
  <2>2. m \in 1..m
    BY <1>3, <1>7
  <2>3. [hit |-> hits[m], offset |-> a.parts[m].to] # NoCursor
    BY <1>4, <1>5, <2>2 DEF NoCursor
  <2>4. a.next = NoCursor => ~(a.parts[m].to < SizeOf(hits[m])) /\ m = n
    BY <1>2, <1>3, <2>1, <2>3
  <2>5. ASSUME a.next = NoCursor, NEW i \in 1..n PROVE a.parts[i].to = SizeOf(hits[i])
    <3>1. i \in 1..m /\ (i < m \/ i = m)
      BY <1>2, <1>3, <2>4, <2>5
    <3> QED BY <1>5, <2>4, <2>5, <3>1
  <2>6. a.next # NoCursor => a.next = [hit |-> hits[m], offset |-> a.parts[m].to]
    BY <2>1
  <2> HIDE DEF hits, n, m
  <2>7. a.next = NoCursor => m = n /\ \A i \in 1..n : a.parts[i].to = SizeOf(hits[i])
    BY <2>4, <2>5
  <2>8. a.next # NoCursor => m > 0 /\ a.next = [hit |-> hits[m], offset |-> a.parts[m].to]
    BY <1>3, <1>7, <2>6
  <2> QED BY <1>3, <1>5, <2>7, <2>8 DEF hits, n, m
<1> QED BY <1>6, <1>7

LEMMA DeliverSound ==
  ASSUME Sound, NEW room \in Rooms, Deliver(room)
  PROVE  Sound'
<1>1. PICK p : p = Parts(room)
  OBVIOUS
<1> DEFINE hits == Ranked(scan)
           m == Len(p.parts)
<1>2. /\ Scanned /\ scan' = NoScan /\ SearchOK(scan)
      /\ UNCHANGED sessionVars /\ all' = all /\ due' = due /\ calm' = calm
      /\ Filled(hits, RankedLen, RankedLen, p)
      /\ page' = p.parts /\ page' \in Seq(Fragments)
      /\ shown' = [h \in Hit |-> shown'[h]]
      /\ \A h \in Hit : \/ (\A i \in 1..m : page'[i].hit # h) /\ shown'[h] = shown[h]
                        \/ \E i \in 1..m : page'[i].hit = h /\ shown'[h] = page'[i].to
      /\ IF p.next = NoCursor THEN walk' = "done" /\ cursor' = cursor
                              ELSE walk' = "ready" /\ cursor' = p.next
  BY <1>1, DeliverIs
<1>3. SessionOK' /\ Grown /\ LogOK /\ CursorOK
  BY <1>2, SessionStays DEF Sound, SessionOK, WalkOK
<1>4. /\ m \in Nat /\ m <= RankedLen
      /\ \A i \in 1..m :
           /\ p.parts[i].hit = hits[i] /\ hits[i] \in Matches /\ hits[i] \in Hit
           /\ p.parts[i].to \in Nat /\ Offset(hits[i]) < p.parts[i].to /\ Offset(hits[i]) \in Nat
           /\ p.parts[i].to <= SizeOf(hits[i])
      /\ p.next # NoCursor =>
           m > 0 /\ p.next = [hit |-> hits[m], offset |-> p.parts[m].to]
  BY <1>2, PageEnds
<1>5. \A i \in 1..RankedLen : ~all => hits[i].file = Current
  BY <1>2, <1>3, RankedShows
<1> HIDE DEF hits, m
<1>6. ScanOK'
  BY <1>2 DEF ScanOK
<1>7. ASSUME p.next # NoCursor
      PROVE  /\ m \in 1..m /\ cursor' = [hit |-> hits[m], offset |-> p.parts[m].to]
             /\ cursor'.hit \in Matches /\ cursor'.offset \in 1..SizeOf(cursor'.hit)
             /\ SizeOf(cursor'.hit) \in Nat
             /\ page' # <<>> /\ (~all => cursor'.hit.file = Current)
  <2>1. m \in 1..m /\ m \in 1..RankedLen
    BY <1>3, <1>4, <1>7, RankedIs, <1>2
  <2>2. page' # <<>>
    <3>1. Len(<<>>) = 0
      OBVIOUS
    <3> QED BY <1>2, <2>1, <3>1 DEF m
  <2>3. cursor' = [hit |-> hits[m], offset |-> p.parts[m].to]
    BY <1>2, <1>4, <1>7
  <2>4. cursor'.hit = hits[m] /\ cursor'.offset = p.parts[m].to
    BY <2>3
  <2>5. SizeOf(hits[m]) \in Nat /\ p.parts[m].to \in 1..SizeOf(hits[m])
    <3>1. SizeOf(hits[m]) \in Nat
      BY <1>3, <1>4, <2>1, MatchIs
    <3>2. p.parts[m].to \in Nat /\ p.parts[m].to > 0 /\ p.parts[m].to <= SizeOf(hits[m])
      BY <1>4, <2>1
    <3> QED BY <3>1, <3>2
  <2> QED BY <1>4, <1>5, <2>1, <2>2, <2>3, <2>4, <2>5
<1>8. ASSUME NEW h \in Hit
      PROVE  shown'[h] \in Nat /\ (shown'[h] > 0 => h \in Matches /\ shown'[h] <= SizeOf(h))
  <2>1. CASE shown'[h] = shown[h]
    BY <2>1 DEF Sound, ShownOK
  <2>2. CASE \E i \in 1..m : page'[i].hit = h /\ shown'[h] = page'[i].to
    BY <1>2, <1>4, <2>2
  <2> QED BY <1>2, <2>1, <2>2
<1>9. /\ due' \subseteq Matches' /\ shown' \in [Hit -> Nat]
      /\ \A h \in Hit : shown'[h] > 0 => h \in Matches' /\ shown'[h] <= SizeOf(h)'
  <2>1. due' \subseteq Matches'
    BY <1>2, <1>3 DEF Sound, ShownOK, Grown
  <2>2. shown' \in [Hit -> Nat]
    BY <1>2, <1>8
  <2>3. \A h \in Hit : shown'[h] > 0 => h \in Matches' /\ shown'[h] <= SizeOf(h)'
    BY <1>3, <1>8 DEF Grown
  <2> QED BY <2>1, <2>2, <2>3
<1>10. CASE p.next = NoCursor
  <2>1. walk' = "done" /\ cursor' = cursor
    BY <1>2, <1>10
  <2>2. WalkOK'
    BY <1>2, <1>3, <2>1, CursorStays DEF Sound, WalkOK, Going
  <2>3. ShownOK'
    BY <1>9, <2>1 DEF ShownOK, Going
  <2> QED BY <1>3, <1>6, <2>2, <2>3 DEF Sound
<1>11. CASE p.next # NoCursor
  <2>1. walk' = "ready" /\ cursor' = p.next
    BY <1>2, <1>11
  <2>2. WalkOK'
    BY <1>2, <1>3, <1>7, <1>11, <2>1 DEF Sound, WalkOK, CursorOK, Going, Grown
  <2>3. ShownOK'
    BY <1>9, <1>11, <2>1 DEF ShownOK
  <2> QED BY <1>3, <1>6, <2>2, <2>3 DEF Sound
<1> QED BY <1>10, <1>11

LEMMA MoveSound ==
  ASSUME Sound, Leave \/ Navigate
  PROVE  Sound'
<1>1. /\ log' = log /\ order' = order /\ writes' = writes /\ walk' = walk /\ all' = all
      /\ cursor' = cursor /\ scan' = scan /\ due' = due /\ shown' = shown /\ page' = page
      /\ moves' = moves + 1 /\ moves < MaxMoves
  BY DEF Leave, Navigate, historyVars
<1>2. /\ branch' \subseteq Positions(Current) /\ active' \subseteq branch'
      /\ calm' \in BOOLEAN
  <2>1. CASE Leave
    <3>1. PICK i \in active : active' = From(active, i + 1) \/ active' = active \ {i}
      BY <2>1 DEF Leave
    <3>2. active' \subseteq active
      BY <3>1 DEF From
    <3> QED BY <2>1, <3>2 DEF Leave, historyVars, Sound, SessionOK, WalkOK
  <2>2. CASE Navigate
    <3>1. PICK path \in SUBSET Positions(Current), k \in 1..Len(log[Current]) + 1 :
            branch' = path /\ active' = From(path, k)
      BY <2>2 DEF Navigate
    <3> QED BY <2>2, <3>1 DEF From, Navigate
  <2> QED BY <2>1, <2>2
<1>3. Grown /\ \A f : Positions(f)' = Positions(f)
  BY <1>1 DEF Grown, Matches, Positions, PriorityOf, SizeOf
<1>4. SessionOK'
  <2>1. moves' \in 0..MaxMoves
    BY <1>1, BoundsAssumption DEF Sound, SessionOK
  <2>2. LogOK' /\ OrderOK'
    BY <1>1 DEF Sound, SessionOK, LogOK, OrderOK
  <2> QED BY <1>2, <1>3, <2>1, <2>2 DEF SessionOK
<1>5. ScanOK'
  <2>1. CASE walk = "scanning"
    <3>1. PICK s : s = scan
      OBVIOUS
    <3>2. SearchOK(s)'
      BY <1>1, <1>3, <2>1, <3>1, SearchStays DEF Sound, ScanOK, WalkOK
    <3> QED BY <1>1, <2>1, <3>1, <3>2 DEF ScanOK, SearchOK, GroupOK, SeekingIn, AnchorOK, Found
  <2>2. CASE walk # "scanning"
    BY <1>1, <2>2 DEF Sound, ScanOK
  <2> QED BY <2>1, <2>2
<1>6. WalkOK'
  BY <1>1, <1>2, <1>3, CursorStays DEF Sound, WalkOK, Going
<1>7. ShownOK'
  BY <1>1, <1>3, ShownStays DEF Sound, Going
<1> QED BY <1>4, <1>5, <1>6, <1>7 DEF Sound

LEMMA FilePlaceIs ==
  ASSUME OrderOK
  PROVE  /\ DOMAIN order = 1..Cardinality(Files) /\ Cardinality(Files) \in Nat
         /\ \A f \in Files : FilePlace(f) \in 1..Cardinality(Files) /\ order[FilePlace(f)] = f
         /\ \A i \in 1..Cardinality(Files) : FilePlace(order[i]) = i /\ order[i] \in Files
         /\ Head(order) = order[1] /\ 1 \in 1..Cardinality(Files)
<1>1. DOMAIN order = 1..Cardinality(Files) /\ Cardinality(Files) \in Nat
  BY FilesFinite DEF OrderOK
<1>2. ASSUME NEW f \in Files
      PROVE  FilePlace(f) \in 1..Cardinality(Files) /\ order[FilePlace(f)] = f
  <2>1. \E i \in DOMAIN order : order[i] = f
    BY <1>1 DEF OrderOK
  <2> QED BY <1>1, <2>1 DEF FilePlace
<1>3. ASSUME NEW i \in 1..Cardinality(Files)
      PROVE  FilePlace(order[i]) = i /\ order[i] \in Files
  <2>1. order[i] \in Files
    BY DEF OrderOK
  <2>2. FilePlace(order[i]) \in 1..Cardinality(Files) /\ order[FilePlace(order[i])] = order[i]
    BY <1>2, <2>1
  <2> QED BY <2>1, <2>2 DEF OrderOK
<1>4. 1 \in 1..Cardinality(Files)
  <2>1. PICK i \in 1..Cardinality(Files) : order[i] = Current
    BY FilesFinite DEF OrderOK
  <2> QED BY <1>1, <2>1
<1>5. Head(order) = order[1]
  <2>1. order \in Seq(Files)
    BY <1>1 DEF OrderOK
  <2> QED BY <2>1
<1> QED BY <1>1, <1>2, <1>3, <1>4, <1>5

LEMMA ToFrontKeeps ==
  ASSUME OrderOK, NEW f \in Files, order' = ToFront(f)
  PROVE  OrderOK' /\ (Head(order) = f => order' = order)
<1> DEFINE n == Cardinality(Files)
           p == FilePlace(f)
<1>1. /\ DOMAIN order = 1..n /\ n \in Nat
      /\ p \in 1..n /\ order[p] = f /\ 1 \in 1..n /\ Head(order) = order[1]
      /\ \A i \in 1..n : order[i] \in Files
      /\ \A i, j \in 1..n : order[i] = order[j] => i = j
      /\ \A g \in Files : \E i \in 1..n : order[i] = g
      /\ order = [k \in 1..n |-> order[k]]
  <2>1. /\ \A i \in 1..n : order[i] \in Files
        /\ \A i, j \in 1..n : order[i] = order[j] => i = j
        /\ \A g \in Files : \E i \in 1..n : order[i] = g
        /\ order = [k \in 1..n |-> order[k]]
    BY DEF OrderOK
  <2> QED BY <2>1, FilePlaceIs
<1>2. /\ order' = [k \in 1..n |-> IF k = 1 THEN f ELSE IF k <= p THEN order[k - 1] ELSE order[k]]
  BY <1>1 DEF ToFront
<1> DEFINE src(k) == IF k = 1 THEN p ELSE IF k <= p THEN k - 1 ELSE k
<1>3. /\ \A k \in 1..n : src(k) \in 1..n /\ order'[k] = order[src(k)]
      /\ \A i, j \in 1..n : src(i) = src(j) => i = j
      /\ \A i \in 1..n : \E k \in 1..n : src(k) = i
  <2> HIDE DEF n, p
  <2>1. \A k \in 1..n : src(k) \in 1..n
    BY <1>1
  <2>2. \A k \in 1..n : order'[k] = order[src(k)]
    BY <1>1, <1>2
  <2>3. ASSUME NEW i \in 1..n, NEW j \in 1..n, src(i) = src(j) PROVE i = j
    <3>1. i \in Nat /\ j \in Nat /\ p \in Nat /\ i >= 1 /\ j >= 1 /\ p >= 1
      BY <1>1
    <3>2. CASE i = 1
      BY <2>3, <3>1, <3>2
    <3>3. CASE j = 1
      BY <2>3, <3>1, <3>3
    <3>4. CASE i # 1 /\ j # 1
      BY <2>3, <3>1, <3>4
    <3> QED BY <3>2, <3>3, <3>4
  <2>4. ASSUME NEW i \in 1..n PROVE \E k \in 1..n : src(k) = i
    <3>1. CASE i = p
      <4>1. src(1) = i
        BY <3>1
      <4> QED BY <1>1, <4>1
    <3>2. CASE i < p
      <4>1. i + 1 \in 1..n /\ src(i + 1) = i
        BY <1>1, <3>2
      <4> QED BY <4>1
    <3>3. CASE i > p
      <4>1. src(i) = i
        BY <1>1, <3>3
      <4> QED BY <4>1
    <3> QED BY <1>1, <3>1, <3>2, <3>3
  <2> QED BY <2>1, <2>2, <2>3, <2>4
<1>4. p = 1 => \A k \in 1..n : src(k) = k
  <2> HIDE DEF n, p
  <2> QED BY <1>1
<1> HIDE DEF n, p, src
<1>5. order' \in [1..n -> Files]
  <2>1. \A k \in 1..n : order'[k] \in Files
    BY <1>1, <1>3
  <2>2. order' = [k \in 1..n |-> order'[k]]
    BY <1>2
  <2> QED BY <2>1, <2>2
<1>6. ASSUME NEW i \in 1..n, NEW j \in 1..n, order'[i] = order'[j] PROVE i = j
  <2>1. src(i) \in 1..n /\ src(j) \in 1..n /\ order[src(i)] = order[src(j)]
    BY <1>3, <1>6
  <2>2. src(i) = src(j)
    BY <1>1, <2>1
  <2> QED BY <1>3, <2>2
<1>7. ASSUME NEW g \in Files PROVE \E i \in 1..n : order'[i] = g
  <2>1. PICK i \in 1..n : order[i] = g
    BY <1>1
  <2>2. PICK k \in 1..n : src(k) = i
    BY <1>3
  <2> QED BY <1>3, <2>1, <2>2
<1>8. ASSUME Head(order) = f PROVE order' = order
  <2>1. p = 1
    BY <1>1, <1>8
  <2>2. \A k \in 1..n : order'[k] = order[k]
    BY <1>3, <1>4, <2>1
  <2>3. order' = [k \in 1..n |-> order'[k]]
    BY <1>2
  <2>4. [k \in 1..n |-> order'[k]] = [k \in 1..n |-> order[k]]
    BY <2>2
  <2> QED BY <1>1, <2>3, <2>4
<1> QED BY <1>5, <1>6, <1>7, <1>8 DEF OrderOK, n

\* An entry more in f.
Written(f) ==
  \E p \in Priorities, n \in Sizes : log' = [log EXCEPT ![f] = Append(@, [priority |-> p, size |-> n])]

LEMMA WriteGrows ==
  ASSUME LogOK, NEW f \in Files, Written(f), writes < MaxWrites, writes' = writes + 1
  PROVE  /\ LogOK' /\ Grown
         /\ Positions(f)' = Positions(f) \cup {Len(log[f]) + 1} /\ Len(log[f]) \in Nat
         /\ \A g \in Files : g # f => Positions(g)' = Positions(g)
<1> DEFINE Shape == [priority : Priorities, size : Sizes]
<1>1. log \in [Files -> Seq(Shape)] /\ \A g \in Files : Len(log[g]) <= MaxStart + writes
  BY DEF LogOK
<1>2. PICK e : log' = [log EXCEPT ![f] = Append(log[f], e)] /\ e \in Shape
  <2>1. PICK p \in Priorities, n \in Sizes : log' = [log EXCEPT ![f] = Append(@, [priority |-> p, size |-> n])]
    BY DEF Written
  <2>2. [priority |-> p, size |-> n] \in Shape
    OBVIOUS
  <2>3. PICK e : e = [priority |-> p, size |-> n]
    OBVIOUS
  <2>4. log' = [log EXCEPT ![f] = Append(log[f], e)]
    BY <2>1, <2>3
  <2> HIDE DEF Shape
  <2> QED BY <2>2, <2>3, <2>4
<1> HIDE DEF Shape
<1>3. /\ log[f] \in Seq(Shape) /\ Append(log[f], e) \in Seq(Shape)
      /\ Len(log[f]) \in Nat /\ Len(Append(log[f], e)) = Len(log[f]) + 1
      /\ \A i \in 1..Len(log[f]) : Append(log[f], e)[i] = log[f][i]
  BY <1>1, <1>2
<1>4. /\ log' \in [Files -> Seq(Shape)] /\ log'[f] = Append(log[f], e)
      /\ \A g \in Files : g # f => log'[g] = log[g]
  BY <1>1, <1>2, <1>3
<1>5. writes \in 0..MaxWrites /\ MaxStart \in Nat /\ MaxWrites \in Nat
  BY BoundsAssumption DEF LogOK
<1>6. \A g \in Files : Len(log[g]) \in Nat /\ Len(log'[g]) <= MaxStart + (writes + 1)
  <2>1. ASSUME NEW g \in Files PROVE Len(log[g]) \in Nat /\ Len(log'[g]) <= MaxStart + (writes + 1)
    <3>1. Len(log[g]) \in Nat /\ Len(log[g]) <= MaxStart + writes
      BY <1>1
    <3> QED BY <1>3, <1>4, <1>5, <3>1
  <2> QED BY <2>1
<1>7. LogOK'
  <2>1. writes' \in 0..MaxWrites /\ writes' = writes + 1
    BY <1>5
  <2>2. log' \in [Files -> Seq([priority : Priorities, size : Sizes])]
    BY <1>4 DEF Shape
  <2>3. \A g \in Files : Len(log'[g]) <= MaxStart + writes'
    BY <1>6, <2>1
  <2> QED BY <2>1, <2>2, <2>3 DEF LogOK
<1>8. \A g \in Files : \A i \in Positions(g) : i \in Positions(g)' /\ log'[g][i] = log[g][i]
  BY <1>3, <1>4 DEF Positions
<1>9. Grown
  <2>1. \A h \in Matches : h \in Hit /\ h.file \in Files /\ h.pos \in Positions(h.file)
    BY MatchIs
  <2>2. \A h \in Matches : h.pos \in Positions(h.file)' /\ log'[h.file][h.pos] = log[h.file][h.pos]
    BY <1>8, <2>1
  <2>3. Matches \subseteq Matches'
    BY <2>1, <2>2 DEF Matches
  <2> QED BY <2>2, <2>3 DEF Grown, PriorityOf, SizeOf
<1>10. Positions(f)' = Positions(f) \cup {Len(log[f]) + 1}
  <2>1. PICK n \in Nat : n = Len(log[f])
    BY <1>3
  <2>2. 1..(n + 1) = (1..n) \cup {n + 1}
    OBVIOUS
  <2>3. Positions(f) = 1..n /\ Positions(f)' = 1..(n + 1)
    BY <1>3, <1>4, <2>1 DEF Positions
  <2> QED BY <2>1, <2>2, <2>3
<1>11. \A g \in Files : g # f => Positions(g)' = Positions(g)
  BY <1>4 DEF Positions
<1> QED BY <1>3, <1>7, <1>9, <1>10, <1>11

LEMMA WriteIs ==
  ASSUME Sound, NEW f \in Files, Write(f)
  PROVE  /\ SessionOK' /\ Grown
         /\ walk' = walk /\ all' = all /\ cursor' = cursor /\ scan' = scan
         /\ due' = due /\ shown' = shown /\ page' = page /\ moves' = moves
         /\ calm' = (calm /\ (Started /\ all => Head(order) = f))
         /\ Head(order) = f => order' = order
         /\ Len(log[Current]) \in Nat
         /\ branch \subseteq branch' /\ active' \subseteq active \cup {Len(log[Current]) + 1}
<1>1. /\ writes < MaxWrites /\ writes' = writes + 1 /\ order' = ToFront(f)
      /\ calm' = (calm /\ (Started /\ all => Head(order) = f))
      /\ walk' = walk /\ all' = all /\ cursor' = cursor /\ scan' = scan
      /\ due' = due /\ shown' = shown /\ page' = page /\ moves' = moves
  BY DEF Write
<1> DEFINE new == IF f = Current THEN {Len(log[f]) + 1} ELSE {}
<1>2. Written(f) /\ branch' = branch \cup new /\ (active' = active \cup new \/ active' = active)
  BY DEF Write, Written
<1>3. LogOK /\ OrderOK /\ branch \subseteq Positions(Current) /\ active \subseteq branch /\ moves \in 0..MaxMoves
  BY DEF Sound, SessionOK
<1>4. /\ LogOK' /\ Grown /\ Len(log[f]) \in Nat
      /\ Positions(f)' = Positions(f) \cup {Len(log[f]) + 1}
      /\ \A g \in Files : g # f => Positions(g)' = Positions(g)
  BY <1>1, <1>2, <1>3, WriteGrows
<1>5. OrderOK' /\ (Head(order) = f => order' = order)
  BY <1>1, <1>3, ToFrontKeeps
<1>6. /\ branch' \subseteq Positions(Current)' /\ active' \subseteq branch'
      /\ branch \subseteq branch' /\ active' \subseteq active \cup {Len(log[Current]) + 1}
  <2>1. CASE f = Current
    BY <1>2, <1>3, <1>4, <2>1
  <2>2. CASE f # Current
    BY <1>2, <1>3, <1>4, <2>2, FilesFinite
  <2> QED BY <2>1, <2>2
<1>7. Len(log[Current]) \in Nat
  BY <1>3, FilesFinite DEF LogOK
<1> QED BY <1>1, <1>3, <1>4, <1>5, <1>6, <1>7 DEF SessionOK

LEMMA WriteSound ==
  ASSUME Sound, NEW f \in Files, Write(f)
  PROVE  Sound'
<1>1. /\ SessionOK' /\ Grown
      /\ walk' = walk /\ all' = all /\ cursor' = cursor /\ scan' = scan
      /\ due' = due /\ shown' = shown /\ page' = page
      /\ calm' = (calm /\ (Started /\ all => Head(order) = f))
  BY WriteIs
<1>2. ScanOK'
  <2>1. CASE walk = "scanning"
    <3>1. PICK s : s = scan
      OBVIOUS
    <3>2. SearchOK(s)'
      BY <1>1, <2>1, <3>1, SearchStays DEF Sound, ScanOK, WalkOK
    <3> QED BY <1>1, <2>1, <3>1, <3>2 DEF ScanOK, SearchOK, GroupOK, SeekingIn, AnchorOK, Found
  <2>2. CASE walk # "scanning"
    BY <1>1, <2>2 DEF Sound, ScanOK
  <2> QED BY <2>1, <2>2
<1>3. WalkOK'
  BY <1>1, CursorStays DEF Sound, WalkOK, Going
<1>4. ShownOK'
  BY <1>1, ShownStays DEF Sound, Going
<1> QED BY <1>1, <1>2, <1>3, <1>4 DEF Sound

LEMMA InitSound == Init => Sound
<1> SUFFICES ASSUME Init PROVE Sound
  OBVIOUS
<1> DEFINE n == Cardinality(Files)
           Shape == [priority : Priorities, size : Sizes]
<1>1. /\ log \in {l \in [Files -> Logs] : Entries(l) <= MaxStart} /\ order \in SetToSeqs(Files)
      /\ branch = Positions(Current) /\ active \in {From(branch, k) : k \in 1..MaxStart + 1}
      /\ walk = "ready" /\ all \in BOOLEAN /\ cursor = NoCursor /\ scan = NoScan
      /\ writes = 0 /\ moves = 0 /\ due = {} /\ shown = [h \in Hit |-> 0] /\ page = <<>> /\ calm = TRUE
  BY DEF Init
<1>2. LogOK
  <2>1. \A l \in Logs : l \in Seq(Shape) /\ Len(l) <= MaxStart
    <3>1. ASSUME NEW m \in 0..MaxStart, NEW l \in [1..m -> Shape]
          PROVE  l \in Seq(Shape) /\ Len(l) <= MaxStart
      <4> HIDE DEF Shape
      <4>1. l \in Seq(Shape) /\ Len(l) = m
        BY BoundsAssumption
      <4> QED BY <4>1
    <3> QED BY <3>1 DEF Logs
  <2>2. log \in [Files -> Seq(Shape)] /\ \A f \in Files : Len(log[f]) <= MaxStart
    BY <1>1, <2>1
  <2>3. writes \in 0..MaxWrites /\ MaxStart + writes = MaxStart
    BY <1>1, BoundsAssumption
  <2>4. log \in [Files -> Seq([priority : Priorities, size : Sizes])]
    BY <2>2
  <2> HIDE DEF Shape
  <2> QED BY <2>2, <2>3, <2>4 DEF LogOK
<1>3. OrderOK
  <2>1. order \in [1..n -> Files] /\ \A i, j \in 1..n : order[i] = order[j] => i = j
    BY <1>1, FilesFinite DEF SetToSeqs, IsInjective
  <2>2. order \in Injection(1..n, Files)
    BY <2>1, Zenon DEF Injection, IsInjective
  <2>3. IsFiniteSet(Files) /\ IsFiniteSet(1..n) /\ Cardinality(1..n) = n
    BY FilesFinite, FS_Interval
  <2>4. order \in Surjection(1..n, Files)
    <3> HIDE DEF n
    <3> QED BY <2>2, <2>3, FS_Injection DEF n
  <2>5. \A f \in Files : \E i \in 1..n : order[i] = f
    BY <2>4 DEF Surjection
  <2> QED BY <2>1, <2>5 DEF OrderOK
<1>4. SessionOK
  <2>1. active \subseteq branch
    BY <1>1 DEF From
  <2> QED BY <1>1, <1>2, <1>3, <2>1, BoundsAssumption DEF SessionOK
<1>5. ScanOK
  BY <1>1 DEF ScanOK
<1>6. WalkOK
  BY <1>1 DEF WalkOK, CursorOK, Going
<1>7. ShownOK
  BY <1>1 DEF ShownOK
<1> QED BY <1>4, <1>5, <1>6, <1>7 DEF Sound

LEMMA SoundStays == Sound /\ [Next]_vars => Sound'
<1> SUFFICES ASSUME Sound, [Next]_vars PROVE Sound'
  OBVIOUS
<1>1. CASE UNCHANGED vars
  <2>1. UNCHANGED sessionVars
    BY <1>1 DEF vars, sessionVars
  <2>2. /\ walk' = walk /\ all' = all /\ cursor' = cursor /\ scan' = scan
        /\ due' = due /\ shown' = shown /\ page' = page /\ calm' = calm
    BY <1>1 DEF vars
  <2>3. SessionOK' /\ Grown
    BY <2>1, SessionStays DEF Sound
  <2>4. ScanOK'
    <3>1. CASE walk = "scanning"
      <4>1. PICK s : s = scan
        OBVIOUS
      <4>2. SearchOK(s)'
        BY <2>2, <2>3, <3>1, <4>1, SearchStays DEF Sound, ScanOK, WalkOK
      <4> QED BY <2>2, <3>1, <4>1, <4>2 DEF ScanOK, SearchOK, GroupOK, SeekingIn, AnchorOK, Found
    <3>2. CASE walk # "scanning"
      BY <2>2, <3>2 DEF Sound, ScanOK
    <3> QED BY <3>1, <3>2
  <2>5. WalkOK'
    BY <2>2, <2>3, CursorStays DEF Sound, WalkOK, Going
  <2>6. ShownOK'
    BY <2>2, <2>3, ShownStays DEF Sound, Going
  <2> QED BY <2>3, <2>4, <2>5, <2>6 DEF Sound
<1>2. ASSUME NEW limit \in Limits, SearchArchive(limit) \/ SearchBranch(limit) PROVE Sound'
  BY <1>2, SearchSound
<1>3. CASE ScanFile
  BY <1>3, ScanFileSound
<1>4. CASE Fail \/ Refuse
  BY <1>4, FailSound
<1>5. ASSUME NEW room \in Rooms, Deliver(room) PROVE Sound'
  BY <1>5, DeliverSound
<1>6. ASSUME NEW f \in Files, Write(f) PROVE Sound'
  BY <1>6, WriteSound
<1>7. CASE Leave \/ Navigate
  BY <1>7, MoveSound
<1> QED BY <1>1, <1>2, <1>3, <1>4, <1>5, <1>6, <1>7 DEF Next

LEMMA AlwaysSound == Spec => []Sound
BY InitSound, SoundStays, PTL DEF Spec

(* What a search keeps is of the files as they are, of the right priority, *)
(* and no more than a page and one more; no page shows more of a hit than  *)
(* there is.                                                               *)
THEOREM TypeCorrect == Spec => []TypeOK
BY AlwaysSound, TypesFollow, PTL

\* As CursorHonoured has it.
Honours ==
  Scanned /\ walk' # walk /\ cursor # NoCursor
  => (walk' = "failed" <=> ~Found(scan, cursor.hit))

LEMMA SearchHonours == Sound /\ Next => Honours
<1> SUFFICES ASSUME Sound, Next, Scanned, walk' # walk, cursor # NoCursor
             PROVE  walk' = "failed" <=> ~Found(scan, cursor.hit)
  BY DEF Honours
<1>1. ToSet(scan.left) = {} /\ walk = "scanning"
  BY DEF Scanned, ToSet
<1>2. Lost <=> ~Found(scan, cursor.hit)
  <2>1. AnchorOK(scan)
    BY <1>1 DEF Sound, ScanOK, SearchOK
  <2> QED BY <1>1, <2>1 DEF AnchorOK, Lost
<1>3. \/ Fail \/ Refuse \/ \E room \in Rooms : Deliver(room)
  BY <1>1 DEF Next, SearchArchive, SearchBranch, ScanFile, Write, Leave, Navigate
<1>4. CASE Fail
  BY <1>2, <1>4 DEF Fail
<1>5. CASE Refuse
  BY <1>2, <1>5 DEF Refuse
<1>6. ASSUME NEW room \in Rooms, Deliver(room) PROVE walk' = "failed" <=> ~Found(scan, cursor.hit)
  <2>1. walk' # "failed" /\ ~Lost
    BY <1>6, DeliverIs
  <2> QED BY <1>2, <2>1
<1> QED BY <1>3, <1>4, <1>5, <1>6

(* A walk fails exactly if the entry of its cursor is not to be found any  *)
(* more: the search comes upon every entry that is not hidden, in whatever *)
(* file it is and however many newer hits the file has.                    *)
THEOREM CursorsAreHonoured == Spec => CursorHonoured
<1>1. Sound /\ [Next]_vars => [Honours]_vars
  BY SearchHonours
<1>2. Spec => [][Honours]_vars
  BY <1>1, AlwaysSound, PTL DEF Spec
<1> QED BY <1>2, PTL DEF CursorHonoured, Honours

----------------------------------------------------------------------------
(* The order of a walk. *)

\* The branch is one file, whatever place the file has.
Place(f) == IF all THEN FilePlace(f) ELSE 0

\* Of two hits, the one that a walk shows first.
Ahead(h, d) ==
  \/ PriorityOf(h) < PriorityOf(d)
  \/ /\ PriorityOf(h) = PriorityOf(d)
     /\ Place(h.file) < Place(d.file) \/ (h.file = d.file /\ d.pos < h.pos)

LEMMA AheadIs ==
  ASSUME SessionOK
  PROVE  /\ \A f \in Files : Place(f) \in Int
         /\ \A h, d, e \in Matches : Ahead(h, d) /\ Ahead(d, e) => Ahead(h, e)
         /\ \A h, d \in Matches : Ahead(h, d) => ~Ahead(d, h) /\ h # d
<1>1. LogOK /\ OrderOK
  BY DEF SessionOK
<1>2. \A f \in Files : Place(f) \in Int
  BY <1>1, FilePlaceIs DEF Place
<1>3. \A h \in Matches : PriorityOf(h) \in Int /\ Place(h.file) \in Int /\ h.pos \in Int
  BY <1>1, <1>2, MatchIs DEF Priorities, Positions
<1>4. \A h, d, e \in Matches : Ahead(h, d) /\ Ahead(d, e) => Ahead(h, e)
  <2> SUFFICES ASSUME NEW h \in Matches, NEW d \in Matches, NEW e \in Matches, Ahead(h, d), Ahead(d, e)
               PROVE  Ahead(h, e)
    OBVIOUS
  <2>1. /\ PriorityOf(h) \in Int /\ Place(h.file) \in Int /\ h.pos \in Int
        /\ PriorityOf(d) \in Int /\ Place(d.file) \in Int /\ d.pos \in Int
        /\ PriorityOf(e) \in Int /\ Place(e.file) \in Int /\ e.pos \in Int
    BY <1>3
  <2> QED BY <2>1 DEF Ahead
<1>5. \A h, d \in Matches : Ahead(h, d) => ~Ahead(d, h) /\ h # d
  <2> SUFFICES ASSUME NEW h \in Matches, NEW d \in Matches, Ahead(h, d)
               PROVE  ~Ahead(d, h) /\ h # d
    OBVIOUS
  <2>1. /\ PriorityOf(h) \in Int /\ Place(h.file) \in Int /\ h.pos \in Int
        /\ PriorityOf(d) \in Int /\ Place(d.file) \in Int /\ d.pos \in Int
    BY <1>3
  <2> QED BY <2>1 DEF Ahead
<1> QED BY <1>2, <1>4, <1>5

\* In the walk's order, and none before the cursor.
TidyGroup(g) ==
  /\ \A i, j \in DOMAIN g : i < j => Ahead(g[i], g[j])
  /\ cursor # NoCursor => \A i \in DOMAIN g : g[i] = cursor.hit \/ Ahead(cursor.hit, g[i])

\* The pages before have shown h.
Skips(h) == cursor # NoCursor /\ (Ahead(h, cursor.hit) \/ (h = cursor.hit /\ Finished(h)))

\* The search has h, or needs it no more.
Covered(s, h) ==
  LET g == s.groups[PriorityOf(h)]
  IN \/ \E i \in DOMAIN g : g[i] = h
     \/ Len(g) = s.limit + 1 /\ \A i \in DOMAIN g : Ahead(g[i], h)
     \/ PriorityOf(h) = 1 /\ Enough(s)

\* A hit more, behind all that its group has.
LEMMA CollectInOrder ==
  ASSUME LogOK, NEW s \in Scans, NEW r \in Scans, NEW h \in Matches,
         SameSearch(s, r), Collects(s, h, r), \A p \in Priorities : GroupOK(s, p) /\ TidyGroup(s.groups[p]),
         \A i \in DOMAIN s.groups[PriorityOf(h)] : Ahead(s.groups[PriorityOf(h)][i], h),
         cursor # NoCursor => h = cursor.hit \/ Ahead(cursor.hit, h)
  PROVE  /\ \A p \in Priorities : TidyGroup(r.groups[p])
         /\ \A p \in Priorities : \A i \in DOMAIN r.groups[p] :
              r.groups[p][i] = h \/ \E j \in DOMAIN s.groups[p] : s.groups[p][j] = r.groups[p][i]
         /\ \A d \in Matches : Covered(s, d) => Covered(r, d)
         /\ Covered(r, h)
<1> DEFINE q == PriorityOf(h)
<1>1. /\ q \in Priorities /\ h \in Hit /\ r.limit = s.limit /\ s.limit \in Nat
      /\ s.groups \in [Priorities -> Seq(Hit)] /\ \A d \in Matches : PriorityOf(d) \in Priorities
      /\ 0 \in Priorities
  BY MatchIs DEF Scans, SameSearch, Priorities
<1>2. PICK g \in Seq(Hit) : g = s.groups[q]
  BY <1>1
<1> HIDE DEF q
<1>3. Len(g) \in Nat /\ DOMAIN g = 1..Len(g) /\ Len(g) <= s.limit + 1
  BY <1>1, <1>2 DEF GroupOK
<1>4. \A p \in Priorities : p # q => r.groups[p] = s.groups[p]
  BY DEF Collects, q
<1>5. CASE Len(g) <= s.limit
  <2>1. r.groups[q] = Append(g, h)
    BY <1>1, <1>2, <1>5 DEF Collects, q
  <2>2. /\ Len(r.groups[q]) = Len(g) + 1 /\ DOMAIN r.groups[q] = 1..(Len(g) + 1)
        /\ \A i \in 1..Len(g) : r.groups[q][i] = g[i]
        /\ r.groups[q][Len(g) + 1] = h
    BY <1>1, <2>1, AppendIs
  <2>3. \A i \in 1..(Len(g) + 1) : i \in 1..Len(g) \/ i = Len(g) + 1
    BY <1>3
  <2>4. \A i \in 1..Len(g) : i \in 1..(Len(g) + 1)
    BY <1>3
  <2>5. Len(g) + 1 \in 1..(Len(g) + 1) /\ \A i \in 1..Len(g) : ~(Len(g) + 1 < i)
    BY <1>3
  <2>6. ASSUME NEW i \in 1..(Len(g) + 1), NEW j \in 1..(Len(g) + 1), i < j
        PROVE  Ahead(r.groups[q][i], r.groups[q][j])
    <3>1. i \in 1..Len(g)
      BY <1>3, <2>6
    <3>2. CASE j \in 1..Len(g)
      BY <1>1, <1>2, <1>3, <2>2, <2>6, <3>1, <3>2 DEF TidyGroup
    <3>3. CASE j = Len(g) + 1
      BY <1>2, <1>3, <2>2, <3>1, <3>3 DEF q
    <3> QED BY <2>3, <3>2, <3>3
  <2>7. ASSUME cursor # NoCursor, NEW i \in 1..(Len(g) + 1)
        PROVE  r.groups[q][i] = cursor.hit \/ Ahead(cursor.hit, r.groups[q][i])
    <3>1. CASE i \in 1..Len(g)
      BY <1>1, <1>2, <1>3, <2>2, <2>7, <3>1 DEF TidyGroup
    <3>2. CASE i = Len(g) + 1
      BY <2>2, <2>7, <3>2
    <3> QED BY <2>3, <3>1, <3>2
  <2>8. TidyGroup(r.groups[q])
    BY <2>2, <2>6, <2>7 DEF TidyGroup
  <2>9. ASSUME NEW i \in DOMAIN r.groups[q]
        PROVE  r.groups[q][i] = h \/ \E j \in DOMAIN s.groups[q] : s.groups[q][j] = r.groups[q][i]
    BY <1>2, <1>3, <2>2, <2>3
  <2>10. ASSUME NEW d \in Matches, Covered(s, d) PROVE Covered(r, d)
    <3>1. Enough(s) => Enough(r)
      <4>1. CASE q = 0
        BY <1>1, <1>2, <1>3, <1>5, <4>1 DEF Enough
      <4>2. CASE q # 0
        BY <1>1, <1>4, <4>2 DEF Enough
      <4> QED BY <4>1, <4>2
    <3>2. CASE PriorityOf(d) # q
      <4>1. r.groups[PriorityOf(d)] = s.groups[PriorityOf(d)]
        BY <1>1, <1>4, <3>2
      <4> QED BY <1>1, <2>10, <3>1, <4>1 DEF Covered
    <3>3. CASE PriorityOf(d) = q
      <4>1. \/ \E i \in DOMAIN g : g[i] = d
            \/ PriorityOf(d) = 1 /\ Enough(s)
        <5>1. \/ \E i \in DOMAIN s.groups[q] : s.groups[q][i] = d
              \/ Len(s.groups[q]) = s.limit + 1
              \/ PriorityOf(d) = 1 /\ Enough(s)
          BY <2>10, <3>3 DEF Covered
        <5>2. Len(g) # s.limit + 1
          BY <1>1, <1>3, <1>5
        <5> QED BY <1>2, <5>1, <5>2
      <4>2. (\E i \in DOMAIN g : g[i] = d) => \E i \in DOMAIN r.groups[q] : r.groups[q][i] = d
        BY <1>3, <2>2, <2>4
      <4> QED BY <3>1, <3>3, <4>1, <4>2 DEF Covered
    <3> QED BY <3>2, <3>3
  <2>11. Covered(r, h)
    <3>1. \E i \in DOMAIN r.groups[q] : r.groups[q][i] = h
      BY <2>2, <2>5
    <3> QED BY <3>1 DEF Covered, q
  <2>12. ASSUME NEW p \in Priorities
         PROVE  /\ TidyGroup(r.groups[p])
                /\ \A i \in DOMAIN r.groups[p] :
                     r.groups[p][i] = h \/ \E j \in DOMAIN s.groups[p] : s.groups[p][j] = r.groups[p][i]
    BY <1>4, <2>8, <2>9
  <2> QED BY <2>10, <2>11, <2>12
<1>6. CASE ~(Len(g) <= s.limit)
  <2>1. \A p \in Priorities : r.groups[p] = s.groups[p]
    BY <1>2, <1>6 DEF Collects, q
  <2>2. \A d \in Matches : Covered(s, d) => Covered(r, d)
    BY <1>1, <2>1 DEF Covered, Enough
  <2>3. Len(g) = s.limit + 1
    BY <1>1, <1>3, <1>6
  <2>4. Covered(r, h)
    BY <1>1, <1>2, <2>1, <2>3 DEF Covered, q
  <2> QED BY <2>1, <2>2, <2>4
<1> QED BY <1>5, <1>6

\* The hits that a search goes through are in the walk's order, behind those that it has; and the
\* cursor's entry comes among them if they can come before it.
Ranks(b, hits, n) ==
  /\ ReadOnce(b, hits, n)
  /\ \A i, j \in 1..n : i < j /\ PriorityOf(hits[i]) = PriorityOf(hits[j]) => Ahead(hits[i], hits[j])
  /\ \A p \in Priorities : \A i \in DOMAIN b.groups[p] : \A k \in 1..n :
       PriorityOf(hits[k]) = p => Ahead(b.groups[p][i], hits[k])
  /\ b.seeking => \A k \in 1..n : PriorityOf(hits[k]) = PriorityOf(cursor.hit) =>
                    \E j \in 1..n : hits[j] = cursor.hit /\ Found(b, hits[j])
  /\ cursor # NoCursor /\ ~b.seeking =>
       \A k \in 1..n : PriorityOf(hits[k]) = PriorityOf(cursor.hit) => Ahead(cursor.hit, hits[k])

\* After k of the hits.
Ordered(b, hits, k, s) ==
  /\ Collected(b, hits, k, s)
  /\ \A p \in Priorities : TidyGroup(s.groups[p])
  /\ \A p \in Priorities : \A i \in DOMAIN s.groups[p] :
       \/ \E j \in DOMAIN b.groups[p] : b.groups[p][j] = s.groups[p][i]
       \/ \E j \in 1..k : hits[j] = s.groups[p][i]
  /\ \A d \in Matches : Covered(b, d) => Covered(s, d)
  /\ \A i \in 1..k : Found(b, hits[i]) => Skips(hits[i]) \/ Covered(s, hits[i])

\* The groups have come to be r's: no more is to be shown of what they have shown before.
LEMMA PassBy ==
  ASSUME NEW b, NEW n, NEW hits, NEW k \in 1..n, n \in Nat, NEW s, NEW r, Ordered(b, hits, k - 1, s),
         Collected(b, hits, k, r), r.groups = s.groups, r.limit = s.limit,
         Found(b, hits[k]) => Skips(hits[k]) \/ Covered(r, hits[k])
  PROVE  Ordered(b, hits, k, r)
<1>1. \A i \in 1..(k - 1) : i \in 1..k
  OBVIOUS
<1>2. \A i \in 1..k : i \in 1..(k - 1) \/ i = k
  OBVIOUS
<1>3. \A h : Covered(r, h) <=> Covered(s, h)
  BY DEF Covered, Enough
<1>4. \A i \in 1..(k - 1) : Found(b, hits[i]) => Skips(hits[i]) \/ Covered(s, hits[i])
  BY DEF Ordered
<1>5. \A i \in 1..k : Found(b, hits[i]) => Skips(hits[i]) \/ Covered(r, hits[i])
  BY <1>2, <1>3, <1>4
<1>6. \A d \in Matches : Covered(b, d) => Covered(r, d)
  BY <1>3 DEF Ordered
<1>7. \A p \in Priorities : TidyGroup(r.groups[p])
  BY DEF Ordered
<1>8. \A p \in Priorities : \A i \in DOMAIN r.groups[p] :
        \/ \E j \in DOMAIN b.groups[p] : b.groups[p][j] = r.groups[p][i]
        \/ \E j \in 1..k : hits[j] = r.groups[p][i]
  BY <1>1 DEF Ordered
<1> QED BY <1>5, <1>6, <1>7, <1>8 DEF Ordered

LEMMA TakeIn ==
  ASSUME SessionOK, NEW b \in Scans, NEW n, NEW hits, Ranks(b, hits, n), NEW k \in 1..n,
         NEW s, Ordered(b, hits, k - 1, s), NEW r, Collected(b, hits, k, r),
         SameSearch(s, r), Collects(s, hits[k], r),
         cursor # NoCursor => hits[k] = cursor.hit \/ Ahead(cursor.hit, hits[k])
  PROVE  Ordered(b, hits, k, r)
<1> DEFINE h == hits[k]
           p == PriorityOf(h)
<1>1. /\ LogOK /\ n \in Nat /\ h \in Matches /\ s \in Scans /\ r \in Scans
      /\ \A q \in Priorities : GroupOK(s, q) /\ TidyGroup(s.groups[q])
  BY DEF SessionOK, Ranks, ReadOnce, Ordered, Collected
<1>2. p \in Priorities
  BY <1>1, MatchIs
<1>3. \A i \in 1..(k - 1) : i \in 1..k /\ i \in 1..n /\ i < k
  BY <1>1
<1>4. \A i \in 1..k : i \in 1..(k - 1) \/ i = k
  BY <1>1
<1> HIDE DEF h
<1>5. ASSUME NEW i \in DOMAIN s.groups[p] PROVE Ahead(s.groups[p][i], h)
  <2>1. CASE \E j \in DOMAIN b.groups[p] : b.groups[p][j] = s.groups[p][i]
    BY <1>2, <2>1 DEF Ranks, h
  <2>2. CASE \E j \in 1..(k - 1) : hits[j] = s.groups[p][i]
    <3>1. PICK j \in 1..(k - 1) : hits[j] = s.groups[p][i]
      BY <2>2
    <3>2. PriorityOf(hits[j]) = p
      BY <1>1, <1>2, <3>1 DEF GroupOK
    <3> QED BY <1>3, <3>1, <3>2 DEF Ranks, h
  <2> QED BY <1>2, <2>1, <2>2 DEF Ordered
<1>6. /\ \A q \in Priorities : TidyGroup(r.groups[q])
      /\ \A q \in Priorities : \A i \in DOMAIN r.groups[q] :
           r.groups[q][i] = h \/ \E j \in DOMAIN s.groups[q] : s.groups[q][j] = r.groups[q][i]
      /\ \A d \in Matches : Covered(s, d) => Covered(r, d)
      /\ Covered(r, h)
  BY <1>1, <1>5, CollectInOrder DEF h
<1>7. ASSUME NEW q \in Priorities, NEW i \in DOMAIN r.groups[q]
      PROVE  \/ \E j \in DOMAIN b.groups[q] : b.groups[q][j] = r.groups[q][i]
             \/ \E j \in 1..k : hits[j] = r.groups[q][i]
  <2>1. CASE r.groups[q][i] = h
    <3>1. k \in 1..k
      BY <1>1
    <3> QED BY <2>1, <3>1 DEF h
  <2>2. CASE \E j \in DOMAIN s.groups[q] : s.groups[q][j] = r.groups[q][i]
    BY <1>3, <2>2 DEF Ordered
  <2> QED BY <1>6, <2>1, <2>2
<1>8. \A d \in Matches : Covered(b, d) => Covered(r, d)
  BY <1>6 DEF Ordered
<1>9. ASSUME NEW i \in 1..k, Found(b, hits[i]) PROVE Skips(hits[i]) \/ Covered(r, hits[i])
  <2>1. CASE i \in 1..(k - 1)
    <3>1. hits[i] \in Matches
      BY <1>3, <2>1 DEF Ranks, ReadOnce
    <3> QED BY <1>6, <1>9, <2>1, <3>1 DEF Ordered
  <2>2. CASE i = k
    BY <1>6, <2>2 DEF h
  <2> QED BY <1>4, <2>1, <2>2
<1> QED BY <1>6, <1>7, <1>8, <1>9 DEF Ordered

LEMMA AddInOrder ==
  ASSUME SessionOK, CursorOK, NEW b \in Scans, NEW n, NEW hits, Ranks(b, hits, n), NEW k \in 1..n,
         NEW s, Ordered(b, hits, k - 1, s), Found(b, hits[k])
  PROVE  Ordered(b, hits, k, Add(s, hits[k]))
<1> DEFINE h == hits[k]
           p == PriorityOf(h)
           r == Add(s, h)
<1>1. /\ LogOK /\ ReadOnce(b, hits, n) /\ Collected(b, hits, k - 1, s) /\ n \in Nat /\ s \in Scans
      /\ Seeks(b, hits, k - 1, s) /\ SameSearch(b, s)
  BY DEF SessionOK, Ranks, ReadOnce, Ordered, Collected
<1>2. Collected(b, hits, k, r)
  BY <1>1, AddKeeps
<1>3. h \in Matches /\ h \in Hit /\ p \in Priorities
  BY <1>1, MatchIs DEF ReadOnce
<1>4. /\ r \in Scans /\ SameSearch(s, r)
      /\ \/ /\ r = s
            /\ Behind(p) \/ (~Behind(p) /\ SeekingIn(s, p) /\ ~Anchor(h))
         \/ /\ ~Behind(p) /\ ~SeekingIn(s, p)
            /\ r.seeking = s.seeking /\ Collects(s, h, r)
         \/ /\ ~Behind(p) /\ SeekingIn(s, p) /\ Anchor(h) /\ r.seeking = FALSE
            /\ Finished(h) => r.groups = s.groups
            /\ ~Finished(h) => Collects(s, h, r)
  BY <1>1, <1>3, AddIs
<1>5. \A i \in 1..(k - 1) : i \in 1..n /\ i < k
  BY <1>1
<1>6. r.limit = s.limit
  BY <1>4 DEF SameSearch
<1> HIDE DEF h, r, p
<1>7. cursor # NoCursor => /\ cursor.hit \in Matches /\ PriorityOf(cursor.hit) \in Int /\ p \in Int
  BY <1>1, <1>3, MatchIs DEF CursorOK, Priorities
<1>8. CASE r = s /\ Behind(p)
  <2>1. Skips(h)
    BY <1>8 DEF Behind, Skips, Ahead, p
  <2> QED BY <1>1, <1>2, <1>8, <2>1, PassBy DEF h, r
<1>9. CASE r = s /\ ~Behind(p) /\ SeekingIn(s, p) /\ ~Anchor(h)
  <2>1. b.seeking /\ cursor # NoCursor /\ s.seeking /\ p = PriorityOf(cursor.hit)
    BY <1>1, <1>9 DEF SeekingIn, Seeks, ReadOnce
  <2>2. PICK j \in 1..n : hits[j] = cursor.hit /\ Found(b, hits[j])
    BY <2>1 DEF Ranks, h, p
  <2>3. j \notin 1..(k - 1) /\ j # k
    BY <1>1, <1>9, <2>1, <2>2 DEF Seeks, Anchor, h
  <2>4. k < j
    BY <1>1, <2>3
  <2>5. Ahead(h, cursor.hit)
    BY <2>1, <2>2, <2>4 DEF Ranks, h, p
  <2>6. Skips(h)
    BY <2>1, <2>5 DEF Skips
  <2> QED BY <1>1, <1>2, <1>9, <2>6, PassBy DEF h, r
<1>10. CASE ~Behind(p) /\ ~SeekingIn(s, p) /\ r.seeking = s.seeking /\ Collects(s, h, r)
  <2>1. ASSUME cursor # NoCursor PROVE Ahead(cursor.hit, h)
    <3>1. CASE p = PriorityOf(cursor.hit)
      <4>1. ~s.seeking
        BY <1>10, <3>1 DEF SeekingIn
      <4>2. CASE b.seeking
        <5>1. PICK i \in 1..(k - 1) : hits[i] = cursor.hit
          BY <1>1, <4>1, <4>2 DEF Seeks
        <5> QED BY <1>5, <3>1, <5>1 DEF Ranks, h, p
      <4>3. CASE ~b.seeking
        BY <2>1, <3>1, <4>3 DEF Ranks, h, p
      <4> QED BY <4>2, <4>3
    <3>2. CASE p # PriorityOf(cursor.hit)
      <4>1. PriorityOf(cursor.hit) < p
        BY <1>7, <1>10, <2>1, <3>2 DEF Behind
      <4> QED BY <4>1 DEF Ahead, p
    <3> QED BY <3>1, <3>2
  <2> QED BY <1>2, <1>4, <1>10, <2>1, TakeIn DEF h, r
<1>11. CASE /\ ~Behind(p) /\ SeekingIn(s, p) /\ Anchor(h) /\ r.seeking = FALSE
            /\ Finished(h) => r.groups = s.groups
            /\ ~Finished(h) => Collects(s, h, r)
  <2>1. cursor # NoCursor /\ h = cursor.hit
    BY <1>11 DEF Anchor
  <2>2. CASE Finished(h)
    <3>1. Skips(h)
      BY <2>1, <2>2 DEF Skips
    <3> QED BY <1>1, <1>2, <1>6, <1>11, <2>2, <3>1, PassBy DEF h, r
  <2>3. CASE ~Finished(h)
    BY <1>2, <1>4, <1>11, <2>1, <2>3, TakeIn DEF h, r
  <2> QED BY <2>2, <2>3
<1> QED BY <1>4, <1>8, <1>9, <1>10, <1>11 DEF h, r

LEMMA AddUnlessEnoughInOrder ==
  ASSUME SessionOK, CursorOK, NEW b \in Scans, NEW n, NEW hits, Ranks(b, hits, n), NEW k \in 1..n,
         NEW s, Ordered(b, hits, k - 1, s)
  PROVE  Ordered(b, hits, k, AddUnlessEnough(s, hits[k]))
<1> DEFINE h == hits[k]
<1>1. /\ LogOK /\ ReadOnce(b, hits, n) /\ Collected(b, hits, k - 1, s) /\ n \in Nat /\ s \in Scans
      /\ SameSearch(b, s) /\ \A q \in Priorities : GroupOK(s, q)
  BY DEF SessionOK, Ranks, ReadOnce, Ordered, Collected
<1>2. Found(s, h) <=> Found(b, h)
  BY <1>1 DEF Found, SameSearch
<1>3. CASE ~Enough(s) /\ Found(s, h)
  <2>1. AddUnlessEnough(s, h) = Add(s, h)
    BY <1>3 DEF AddUnlessEnough
  <2> QED BY <1>2, <1>3, <2>1, AddInOrder
<1>4. CASE Enough(s) \/ ~Found(s, h)
  <2>1. AddUnlessEnough(s, h) = s
    BY <1>4 DEF AddUnlessEnough
  <2>2. Collected(b, hits, k, s)
    BY <1>1, <2>1, BranchKeeps
  <2>3. h \in Matches /\ PriorityOf(h) \in {0, 1}
    BY <1>1, MatchIs DEF ReadOnce, Priorities
  <2>4. ASSUME Found(b, h) PROVE Covered(s, h)
    <3>1. Enough(s)
      BY <1>2, <1>4, <2>4
    <3>2. CASE PriorityOf(h) = 1
      BY <3>1, <3>2 DEF Covered
    <3>3. CASE PriorityOf(h) = 0
      <4>1. Len(s.groups[0]) = s.limit + 1
        <5>1. Len(s.groups[0]) \in Nat /\ s.limit \in Nat
          BY <1>1 DEF Scans, Priorities
        <5> QED BY <1>1, <3>1, <5>1 DEF Enough, GroupOK, Priorities
      <4>2. ASSUME NEW i \in DOMAIN s.groups[0] PROVE Ahead(s.groups[0][i], h)
        <5>1. CASE \E j \in DOMAIN b.groups[0] : b.groups[0][j] = s.groups[0][i]
          BY <3>3, <5>1 DEF Ranks, Priorities
        <5>2. CASE \E j \in 1..(k - 1) : hits[j] = s.groups[0][i]
          <6>1. PICK j \in 1..(k - 1) : hits[j] = s.groups[0][i]
            BY <5>2
          <6>2. PriorityOf(hits[j]) = 0
            BY <1>1, <6>1 DEF GroupOK, Priorities
          <6>3. j \in 1..n /\ j < k
            BY <1>1
          <6> QED BY <3>3, <6>1, <6>2, <6>3 DEF Ranks
        <5> QED BY <5>1, <5>2 DEF Ordered, Priorities
      <4> QED BY <3>3, <4>1, <4>2 DEF Covered
    <3> QED BY <2>3, <3>2, <3>3
  <2> QED BY <1>1, <2>1, <2>2, <2>4, PassBy
<1> QED BY <1>3, <1>4

LEMMA FileOrdered ==
  ASSUME SessionOK, CursorOK, NEW b \in Scans, NEW n, NEW hits, Ranks(b, hits, n),
         \A i \in 1..n : Found(b, hits[i]), \A p \in Priorities : GroupOK(b, p) /\ TidyGroup(b.groups[p])
  PROVE  Ordered(b, hits, n, FoldLeft(Add, b, hits))
<1> DEFINE T == [k \in 0..n |-> {s \in Scans : Ordered(b, hits, k, s)}]
<1>1. n \in Nat /\ DOMAIN hits = 1..n
  BY DEF Ranks, ReadOnce
<1>2. b \in T[0]
  BY <1>1 DEF Ordered, Collected, SameSearch, Seeks
<1>3. ASSUME NEW k \in 1..n, NEW s \in T[k - 1] PROVE Add(s, hits[k]) \in T[k]
  <2>1. k - 1 \in 0..n /\ k \in 0..n
    BY <1>1
  <2>2. Ordered(b, hits, k - 1, s)
    BY <2>1
  <2>3. Ordered(b, hits, k, Add(s, hits[k]))
    BY <2>2, AddInOrder
  <2> QED BY <2>1, <2>3 DEF Ordered, Collected
<1>4. FoldLeft(Add, b, hits) \in T[n]
  <2> HIDE DEF T
  <2> QED BY <1>1, <1>2, <1>3, AddInduction
<1> QED BY <1>1, <1>4

LEMMA BranchOrdered ==
  ASSUME SessionOK, CursorOK, NEW b \in Scans, NEW n, NEW hits, Ranks(b, hits, n),
         \A p \in Priorities : GroupOK(b, p) /\ TidyGroup(b.groups[p])
  PROVE  Ordered(b, hits, n, FoldLeft(AddUnlessEnough, b, hits))
<1> DEFINE T == [k \in 0..n |-> {s \in Scans : Ordered(b, hits, k, s)}]
<1>1. n \in Nat /\ DOMAIN hits = 1..n
  BY DEF Ranks, ReadOnce
<1>2. b \in T[0]
  BY <1>1 DEF Ordered, Collected, SameSearch, Seeks
<1>3. ASSUME NEW k \in 1..n, NEW s \in T[k - 1] PROVE AddUnlessEnough(s, hits[k]) \in T[k]
  <2>1. k - 1 \in 0..n /\ k \in 0..n
    BY <1>1
  <2>2. Ordered(b, hits, k - 1, s)
    BY <2>1
  <2>3. Ordered(b, hits, k, AddUnlessEnough(s, hits[k]))
    BY <2>2, AddUnlessEnoughInOrder
  <2> QED BY <2>1, <2>3 DEF Ordered, Collected
<1>4. FoldLeft(AddUnlessEnough, b, hits) \in T[n]
  <2> HIDE DEF T
  <2> QED BY <1>1, <1>2, <1>3, BranchInduction
<1> QED BY <1>1, <1>4

\* No file that is left comes before f, or at its place.
Leads(s, f) == \A g \in ToSet(s.left) : Place(f) < Place(g)

\* The files are in order, and so is all that was found; of the hits D, none is missing that is in a
\* file that was read.
Arranged(s, D) ==
  /\ \A i, j \in DOMAIN s.left : i < j => Place(s.left[i]) < Place(s.left[j])
  /\ cursor # NoCursor /\ ~s.seeking => Leads(s, cursor.hit.file)
  /\ \A p \in Priorities : /\ TidyGroup(s.groups[p])
                           /\ \A i \in DOMAIN s.groups[p] : Leads(s, s.groups[p][i].file)
  /\ \A h \in D : h.file \notin ToSet(s.left) => Skips(h) \/ Covered(s, h)

\* As long as that can be said: no file has changed places, and the cursor's entry is to be found.
Hopeful(s) == calm /\ (cursor # NoCursor => Found(s, cursor.hit))

LEMMA CursorsPlace ==
  ASSUME LogOK, CursorOK, cursor # NoCursor, NEW f \in Files, cursor.hit.file = f, Found(scan, cursor.hit)
  PROVE  /\ PriorityOf(cursor.hit) \in Priorities /\ cursor.hit.pos \in Int
         /\ At(f, cursor.hit.pos) = cursor.hit
         /\ cursor.hit.pos \in HitsOf(f, PriorityOf(cursor.hit))
<1>1. /\ cursor.hit \in Matches /\ cursor.hit \in Hit /\ cursor.hit.pos \in Positions(f)
      /\ PriorityOf(cursor.hit) \in Priorities
  BY MatchIs DEF CursorOK
<1>2. At(f, cursor.hit.pos) = cursor.hit
  <2>1. At(f, cursor.hit.pos) \in Hit /\ At(f, cursor.hit.pos).file = f /\ At(f, cursor.hit.pos).pos = cursor.hit.pos
    BY <1>1, MatchIs
  <2> QED BY <1>1, <2>1, MatchIs
<1> QED BY <1>1, <1>2 DEF HitsOf, Positions

LEMMA FileRanks ==
  ASSUME Sound, walk = "scanning", scan.left # <<>>, Hopeful(scan), Arranged(scan, due)
  PROVE  /\ Ranks(Rest, Both(NextFile), BothLen(NextFile))
         /\ \A p \in Priorities : GroupOK(Rest, p) /\ TidyGroup(Rest.groups[p])
<1>1. SearchOK(scan) /\ LogOK /\ CursorOK
  BY DEF Sound, ScanOK, SessionOK, WalkOK
<1> DEFINE f == NextFile
           hits == Both(f)
           n == BothLen(f)
<1>2. /\ Rest.hidden = scan.hidden /\ Rest.seeking = scan.seeking /\ Rest.groups = scan.groups
      /\ scan.limit \in Nat /\ f \in Files /\ f \in ToSet(scan.left)
  BY RestIs
<1>3. /\ n \in Nat
      /\ \A i \in 1..n : hits[i] \in Matches /\ hits[i].file = f /\ Found(scan, hits[i])
                         /\ hits[i].pos \in UpTo(f, PriorityOf(hits[i]))
      /\ \A i, j \in 1..n : i < j =>
           \/ PriorityOf(hits[i]) < PriorityOf(hits[j])
           \/ PriorityOf(hits[i]) = PriorityOf(hits[j]) /\ hits[j].pos < hits[i].pos
      /\ \A p \in Priorities : \A i \in 1..RecentLen(f, p) : \E j \in 1..n : hits[j] = Recent(f, p)[i]
  BY <1>1, <1>2, BothIs
<1>4. /\ ReadOnce(Rest, hits, n) /\ \A p \in Priorities : GroupOK(Rest, p)
      /\ \A i \in 1..n : Found(Rest, hits[i])
  BY FileRead
<1> HIDE DEF f, hits, n
<1>5. \A p \in Priorities : TidyGroup(Rest.groups[p])
  BY <1>2 DEF Arranged
<1>6. \A h \in Matches : PriorityOf(h) \in Int
  BY <1>1, MatchIs DEF Priorities
<1>7. ASSUME NEW i \in 1..n, NEW j \in 1..n, i < j, PriorityOf(hits[i]) = PriorityOf(hits[j])
      PROVE  Ahead(hits[i], hits[j])
  <2>1. PriorityOf(hits[i]) \in Int /\ hits[i].file = hits[j].file
    BY <1>3, <1>6
  <2>2. hits[j].pos < hits[i].pos
    BY <1>3, <1>7, <2>1
  <2> QED BY <1>7, <2>1, <2>2 DEF Ahead
<1>8. ASSUME NEW p \in Priorities, NEW i \in DOMAIN Rest.groups[p], NEW k \in 1..n, PriorityOf(hits[k]) = p
      PROVE  Ahead(Rest.groups[p][i], hits[k])
  <2>1. Place(Rest.groups[p][i].file) < Place(f)
    BY <1>2 DEF Arranged, Leads
  <2>2. PriorityOf(Rest.groups[p][i]) = p
    BY <1>4 DEF GroupOK
  <2> QED BY <1>3, <1>8, <2>1, <2>2 DEF Ahead
<1>9. ASSUME Rest.seeking, NEW k \in 1..n, PriorityOf(hits[k]) = PriorityOf(cursor.hit)
      PROVE  \E j \in 1..n : hits[j] = cursor.hit /\ Found(Rest, hits[j])
  <2>1. cursor # NoCursor /\ scan.seeking
    BY <1>1, <1>2, <1>9 DEF SearchOK
  <2>2. PICK p \in Priorities : p = PriorityOf(cursor.hit)
    BY <1>1, <2>1, MatchIs DEF CursorOK
  <2>3. SeekingIn(scan, p)
    BY <2>1, <2>2 DEF SeekingIn
  <2>4. cursor.hit.file = f
    BY <1>3, <1>9, <2>2, <2>3 DEF UpTo
  <2>5. Found(scan, cursor.hit)
    BY <2>1 DEF Hopeful
  <2>6. cursor.hit.pos \in Int /\ At(f, cursor.hit.pos) = cursor.hit /\ cursor.hit.pos \in HitsOf(f, p)
    BY <1>1, <1>2, <2>1, <2>2, <2>4, <2>5, CursorsPlace
  <2>7. cursor.hit.pos \in UpTo(f, p) /\ \A j \in UpTo(f, p) : j <= cursor.hit.pos
    BY <2>3, <2>4, <2>6 DEF UpTo
  <2>8. PICK i \in 1..RecentLen(f, p) : Recent(f, p)[i] = cursor.hit
    BY <1>1, <1>2, <2>6, <2>7, RecentIs
  <2> QED BY <1>3, <1>4, <2>8
<1>10. ASSUME cursor # NoCursor, ~Rest.seeking, NEW k \in 1..n, PriorityOf(hits[k]) = PriorityOf(cursor.hit)
       PROVE  Ahead(cursor.hit, hits[k])
  <2>1. Place(cursor.hit.file) < Place(f)
    BY <1>2, <1>10 DEF Arranged, Leads
  <2> QED BY <1>3, <1>10, <2>1 DEF Ahead
<1>11. Ranks(Rest, hits, n)
  BY <1>4, <1>7, <1>8, <1>9, <1>10 DEF Ranks
<1> QED BY <1>4, <1>5, <1>11 DEF f, hits, n

LEMMA Fits ==
  ASSUME NEW g \in Seq(Hit), NEW n \in Nat, NEW R,
         \A i, j \in 1..n : R[i] = R[j] => i = j,
         \A i \in 1..n : \E k \in DOMAIN g : g[k] = R[i]
  PROVE  n <= Len(g)
<1>1. Len(g) \in Nat /\ DOMAIN g = 1..Len(g)
  OBVIOUS
<1> DEFINE in == [i \in 1..n |-> CHOOSE k \in DOMAIN g : g[k] = R[i]]
<1>2. \A i \in 1..n : in[i] \in 1..Len(g) /\ g[in[i]] = R[i]
  BY <1>1
<1>3. in \in [1..n -> 1..Len(g)]
  BY <1>2
<1> HIDE DEF in
<1>4. \A i, j \in 1..n : in[i] = in[j] => i = j
  BY <1>2
<1>5. in \in Injection(1..n, 1..Len(g))
  BY <1>3, <1>4, Zenon DEF Injection, IsInjective
<1>6. \A m \in Nat : IsFiniteSet(1..m) /\ Cardinality(1..m) = m
  <2>1. ASSUME NEW m \in Nat PROVE IsFiniteSet(1..m) /\ Cardinality(1..m) = m
    <3>1. IsFiniteSet(1..m) /\ Cardinality(1..m) = IF 1 > m THEN 0 ELSE m - 1 + 1
      BY FS_Interval
    <3> QED BY <3>1
  <2> QED BY <2>1
<1>7. IsFiniteSet(1..Len(g)) /\ Cardinality(1..Len(g)) = Len(g) /\ Cardinality(1..n) = n
  BY <1>1, <1>6
<1> QED BY <1>5, <1>7, FS_Injection

\* A file has been read: the hits of it that were not kept are not needed.
LEMMA FileCovers ==
  ASSUME Sound, walk = "scanning", scan.left # <<>>, Hopeful(scan), Arranged(scan, due),
         NEW h \in Matches, h.file = NextFile, Found(scan, h)
  PROVE  Skips(h) \/ Covered(AfterFile, h)
<1>1. SearchOK(scan) /\ LogOK /\ CursorOK /\ SessionOK
  BY DEF Sound, ScanOK, SessionOK, WalkOK
<1> DEFINE f == NextFile
           hits == Both(f)
           n == BothLen(f)
           a == AfterFile
           p == PriorityOf(h)
           m == RecentLen(f, p)
           R == Recent(f, p)
<1>2. /\ Rest \in Scans /\ Rest.limit = scan.limit /\ Rest.hidden = scan.hidden
      /\ Rest.seeking = scan.seeking /\ Rest.groups = scan.groups
      /\ scan.limit \in Nat /\ f \in Files /\ f \in ToSet(scan.left)
      /\ ToSet(scan.left) = ToSet(Rest.left) \cup {f}
      /\ 1 \in DOMAIN scan.left /\ f = scan.left[1]
      /\ \A i \in DOMAIN Rest.left : \E k \in DOMAIN scan.left : k > 1 /\ scan.left[k] = Rest.left[i]
  BY RestIs
<1>3. /\ Ranks(Rest, hits, n) /\ \A q \in Priorities : GroupOK(Rest, q) /\ TidyGroup(Rest.groups[q])
  BY FileRanks
<1>4. \A i \in 1..n : Found(Rest, hits[i])
  BY FileRead
<1>5. Ordered(Rest, hits, n, a)
  BY <1>1, <1>2, <1>3, <1>4, FileOrdered DEF AfterFile
<1>6. /\ n \in Nat
      /\ \A i \in 1..n : hits[i] \in Matches /\ hits[i].file = f
      /\ \A i \in 1..RecentLen(f, p) : \E j \in 1..n : hits[j] = Recent(f, p)[i]
      /\ \A j \in 1..n : \E i \in 1..RecentLen(f, PriorityOf(hits[j])) : hits[j] = Recent(f, PriorityOf(hits[j]))[i]
  <2>1. p \in Priorities
    BY <1>1, MatchIs
  <2> QED BY <1>1, <1>2, <2>1, BothIs
<1>7. /\ p \in Priorities /\ h \in Hit /\ h.pos \in Positions(f) /\ h.pos \in Int /\ At(f, h.pos) = h
  <2>1. p \in Priorities /\ h \in Hit /\ h.pos \in Positions(f) /\ h.file = f
    BY <1>1, MatchIs
  <2>2. At(f, h.pos) \in Hit /\ At(f, h.pos).file = f /\ At(f, h.pos).pos = h.pos
    BY <1>1, <1>2, <2>1, MatchIs
  <2>3. At(f, h.pos) = h
    BY <1>1, <2>1, <2>2, MatchIs
  <2> QED BY <2>1, <2>3 DEF Positions
<1>8. h.pos \in HitsOf(f, p)
  BY <1>7 DEF HitsOf
<1>9. /\ m \in Nat
      /\ \A i \in 1..m : /\ R[i] \in Matches /\ R[i].file = f /\ PriorityOf(R[i]) = p /\ R[i].pos \in UpTo(f, p)
                         /\ R[i].pos \in Int
      /\ \A i, j \in 1..m : i < j => R[j].pos < R[i].pos
      /\ h.pos \in UpTo(f, p) =>
           \/ \E i \in 1..m : R[i] = h
           \/ m >= scan.limit + 2 /\ \A i \in 1..m : h.pos < R[i].pos
  <2>1. /\ Falling(f, R, m)
        /\ \A i \in 1..m : PriorityOf(R[i]) = p /\ R[i].pos \in UpTo(f, p)
        /\ \A q \in UpTo(f, p) :
              \/ \E i \in 1..m : R[i] = At(f, q)
              \/ m >= scan.limit + 2 /\ \A i \in 1..m : q < R[i].pos
    BY <1>1, <1>2, <1>7, RecentIs
  <2>2. \A i \in UpTo(f, p) : i \in Int
    BY DEF UpTo, HitsOf, Positions
  <2> HIDE DEF R, m
  <2> QED BY <1>7, <2>1, <2>2 DEF Falling
<1>10. SUFFICES ASSUME ~Skips(h), ~Covered(a, h) PROVE FALSE
  OBVIOUS
<1>11. /\ \A i \in 1..n : Skips(hits[i]) \/ Covered(a, hits[i])
       /\ a \in Scans /\ a.limit = scan.limit /\ \A q \in Priorities : GroupOK(a, q)
  BY <1>2, <1>4, <1>5 DEF Ordered, Collected, SameSearch
<1> HIDE DEF a, hits, n, m, R, f
\* The hits to be read are up to the cursor's entry, and h is one of them.
<1>12. h.pos \in UpTo(f, p)
  <2>1. SUFFICES ASSUME h.pos \notin UpTo(f, p) PROVE FALSE
    OBVIOUS
  <2>2. /\ SeekingIn(scan, p) /\ p = PriorityOf(cursor.hit)
        /\ ~(cursor.hit.file = f /\ cursor.hit.pos \in HitsOf(f, p) /\ h.pos <= cursor.hit.pos)
    BY <1>8, <2>1 DEF UpTo, SeekingIn
  <2>3. cursor # NoCursor /\ scan.seeking /\ Found(scan, cursor.hit)
    BY <1>1, <2>2 DEF SearchOK, SeekingIn, Hopeful
  <2>4. CASE cursor.hit.file = f
    <3>1. cursor.hit.pos \in HitsOf(f, p) /\ cursor.hit.pos \in Int
      BY <1>1, <1>2, <2>2, <2>3, <2>4, CursorsPlace
    <3>2. cursor.hit.pos < h.pos
      BY <1>7, <2>2, <2>4, <3>1
    <3>3. Ahead(h, cursor.hit)
      BY <2>2, <2>4, <3>2 DEF Ahead, f
    <3> QED BY <1>10, <2>3, <3>3 DEF Skips
  <2>5. CASE cursor.hit.file # f
    <3>1. cursor.hit.file \in ToSet(Rest.left)
      BY <1>1, <1>2, <2>3, <2>5 DEF SearchOK, AnchorOK
    <3>2. PICK k \in DOMAIN scan.left : k > 1 /\ scan.left[k] = cursor.hit.file
      BY <1>2, <3>1 DEF ToSet
    <3>3. Place(f) < Place(cursor.hit.file)
      BY <1>2, <3>2 DEF Arranged
    <3>4. Ahead(h, cursor.hit)
      BY <2>2, <3>3 DEF Ahead, f
    <3> QED BY <1>10, <2>3, <3>4 DEF Skips
  <2> QED BY <2>4, <2>5
\* It is older than all that were read, and those are more than the page has room for.
<1>13. m >= scan.limit + 2 /\ \A i \in 1..m : h.pos < R[i].pos
  <2>1. SUFFICES ASSUME NEW i \in 1..m, R[i] = h PROVE FALSE
    BY <1>9, <1>12
  <2>2. PICK j \in 1..n : hits[j] = h
    BY <1>6, <2>1 DEF R, m
  <2> QED BY <1>10, <1>11, <2>2
\* They come before it, as does all that was found earlier.
<1>14. ASSUME NEW i \in DOMAIN a.groups[p] PROVE Ahead(a.groups[p][i], h)
  <2>1. PriorityOf(a.groups[p][i]) = p
    BY <1>7, <1>11 DEF GroupOK
  <2>2. CASE \E j \in DOMAIN Rest.groups[p] : Rest.groups[p][j] = a.groups[p][i]
    <3>1. PICK j \in DOMAIN scan.groups[p] : scan.groups[p][j] = a.groups[p][i]
      BY <1>2, <2>2
    <3>2. Place(a.groups[p][i].file) < Place(f)
      BY <1>2, <1>7, <3>1 DEF Arranged, Leads
    <3> QED BY <2>1, <3>2 DEF Ahead, f
  <2>3. CASE \E j \in 1..n : hits[j] = a.groups[p][i]
    <3>1. PICK j \in 1..n : hits[j] = a.groups[p][i]
      BY <2>3
    <3>2. PICK k \in 1..m : R[k] = a.groups[p][i]
      BY <1>6, <2>1, <3>1 DEF R, m
    <3> QED BY <1>9, <1>13, <2>1, <3>2 DEF Ahead, f
  <2> QED BY <1>5, <1>7, <2>2, <2>3 DEF Ordered
<1>15. Len(a.groups[p]) # scan.limit + 1 /\ ~(p = 1 /\ Enough(a))
  BY <1>10, <1>11, <1>14 DEF Covered
<1>16. ASSUME NEW i \in 1..m, i > 1 PROVE ~Skips(R[i])
  <2>1. SUFFICES ASSUME cursor # NoCursor, Ahead(R[i], cursor.hit) \/ R[i] = cursor.hit PROVE FALSE
    BY DEF Skips
  <2>2. /\ PriorityOf(R[i]) = p /\ R[i].file = f /\ R[i].pos \in Int /\ R[i] \in Matches /\ cursor.hit \in Matches
    BY <1>1, <1>9, <2>1 DEF CursorOK
  <2>3. PriorityOf(cursor.hit) \in Int /\ p \in Int /\ cursor.hit.pos \in Int
    BY <1>1, <1>7, <2>2, MatchIs DEF Priorities, Positions
  <2>4. ~(p < PriorityOf(cursor.hit))
    BY <1>10, <2>1 DEF Skips, Ahead
  <2>5. p = PriorityOf(cursor.hit)
    BY <2>1, <2>2, <2>3, <2>4 DEF Ahead
  <2>6. CASE scan.seeking
    <3>1. SeekingIn(scan, p)
      BY <2>5, <2>6 DEF SeekingIn
    <3>2. 1 \in 1..m /\ R[1].pos \in UpTo(f, p) /\ R[1].pos \in Int /\ R[i].pos < R[1].pos
      BY <1>9, <1>16
    <3>3. cursor.hit.file = f /\ R[1].pos <= cursor.hit.pos
      BY <3>1, <3>2 DEF UpTo
    <3>4. R[i].pos < cursor.hit.pos
      BY <2>2, <2>3, <3>2, <3>3
    <3>5. Place(f) \in Int
      BY <1>1, <1>2, AheadIs
    <3> QED BY <2>1, <2>2, <2>3, <2>5, <3>3, <3>4, <3>5 DEF Ahead
  <2>7. CASE ~scan.seeking
    <3>1. Place(cursor.hit.file) < Place(f)
      BY <1>2, <2>1, <2>7 DEF Arranged, Leads
    <3>2. Ahead(cursor.hit, R[i])
      BY <2>2, <2>5, <3>1 DEF Ahead
    <3> QED BY <1>1, <2>1, <2>2, <3>2, AheadIs
  <2> QED BY <2>6, <2>7
<1>17. ASSUME NEW i \in 1..m, i > 1 PROVE \E k \in DOMAIN a.groups[p] : a.groups[p][k] = R[i]
  <2>1. PICK j \in 1..n : hits[j] = R[i]
    BY <1>6 DEF R, m
  <2>2. Covered(a, R[i])
    BY <1>11, <1>16, <1>17, <2>1
  <2> QED BY <1>9, <1>11, <1>15, <2>2 DEF Covered
<1>18. PICK g \in Seq(Hit) : g = a.groups[p]
  BY <1>7, <1>11 DEF Scans
<1> DEFINE k == scan.limit + 1
           S == [i \in 1..k |-> R[i + 1]]
<1>19. k \in Nat /\ \A i \in 1..k : i + 1 \in 1..m /\ i + 1 > 1 /\ S[i] = R[i + 1]
  BY <1>2, <1>9, <1>13
<1>20. \A i, j \in 1..k : S[i] = S[j] => i = j
  <2>1. ASSUME NEW i \in 1..k, NEW j \in 1..k, S[i] = S[j] PROVE i = j
    <3>1. R[i + 1].pos \in Int /\ R[j + 1].pos \in Int /\ R[i + 1] = R[j + 1]
      BY <1>9, <1>19, <2>1
    <3>2. PICK u \in 1..m, v \in 1..m : u = i + 1 /\ v = j + 1
      BY <1>19
    <3>3. R[u].pos = R[v].pos /\ R[u].pos \in Int
      BY <3>1, <3>2
    <3>4. ~(u < v) /\ ~(v < u)
      BY <1>9, <3>3
    <3> QED BY <1>9, <1>19, <3>2, <3>4
  <2> QED BY <2>1
<1>21. \A i \in 1..k : \E l \in DOMAIN g : g[l] = S[i]
  BY <1>17, <1>18, <1>19
<1>22. k <= Len(g)
  <2> HIDE DEF k, S
  <2> QED BY <1>19, <1>20, <1>21, Fits
<1>23. Len(g) <= scan.limit + 1 /\ Len(g) \in Nat
  BY <1>7, <1>11, <1>18 DEF GroupOK
<1> QED BY <1>2, <1>15, <1>18, <1>22, <1>23

LEMMA FileArranged ==
  ASSUME Sound, walk = "scanning", scan.left # <<>>, Hopeful(scan), Arranged(scan, due),
         \A h \in due : Found(scan, h)
  PROVE  Arranged(NextScan, due)
<1>1. SearchOK(scan) /\ LogOK /\ CursorOK /\ SessionOK /\ due \subseteq Matches
  BY DEF Sound, ScanOK, SessionOK, WalkOK, ShownOK
<1> DEFINE f == NextFile
           hits == Both(f)
           n == BothLen(f)
           a == AfterFile
           r == NextScan
<1>2. /\ Rest \in Scans /\ Rest.limit = scan.limit /\ Rest.hidden = scan.hidden
      /\ Rest.seeking = scan.seeking /\ Rest.groups = scan.groups
      /\ scan.limit \in Nat /\ f \in Files /\ f \in ToSet(scan.left)
      /\ ToSet(scan.left) = ToSet(Rest.left) \cup {f} /\ f = scan.left[1] /\ 1 \in DOMAIN scan.left
      /\ \A i, j \in DOMAIN Rest.left : i < j => \E k, l \in DOMAIN scan.left :
           k < l /\ scan.left[k] = Rest.left[i] /\ scan.left[l] = Rest.left[j]
      /\ \A i \in DOMAIN Rest.left : \E k \in DOMAIN scan.left : k > 1 /\ scan.left[k] = Rest.left[i]
  BY RestIs
<1>3. Ranks(Rest, hits, n) /\ \A q \in Priorities : GroupOK(Rest, q) /\ TidyGroup(Rest.groups[q])
  BY FileRanks
<1>4. \A i \in 1..n : Found(Rest, hits[i])
  BY FileRead
<1>5. Ordered(Rest, hits, n, a)
  BY <1>1, <1>2, <1>3, <1>4, FileOrdered DEF AfterFile
<1>6. \A i \in 1..n : hits[i] \in Matches /\ hits[i].file = f
  BY <1>1, <1>2, BothIs
<1>7. /\ a \in Scans /\ a.limit = scan.limit /\ a.left = Rest.left /\ Seeks(Rest, hits, n, a)
      /\ \A q \in Priorities : GroupOK(a, q) /\ TidyGroup(a.groups[q])
  BY <1>2, <1>5 DEF Ordered, Collected, SameSearch
<1>8. /\ r.limit = scan.limit /\ r.seeking = a.seeking /\ r.groups = a.groups
      /\ r.left = IF Enough(a) THEN <<>> ELSE Rest.left
  BY NextScanIs
<1>9. \A h \in due : h.file = f => Skips(h) \/ Covered(a, h)
  BY <1>1, FileCovers
<1> HIDE DEF a, hits, n, r, f
<1>10. \A h : Covered(r, h) <=> Covered(a, h)
  BY <1>7, <1>8 DEF Covered, Enough
<1>11. DOMAIN <<>> = {} /\ ToSet(<<>>) = {}
  BY DEF ToSet
<1>12. ToSet(r.left) \subseteq ToSet(Rest.left)
  BY <1>8, <1>11
\* The file is before those that are left.
<1>13. \A g \in ToSet(Rest.left) : Place(f) < Place(g)
  <2>1. SUFFICES ASSUME NEW i \in DOMAIN Rest.left PROVE Place(f) < Place(Rest.left[i])
    BY DEF ToSet
  <2>2. PICK k \in DOMAIN scan.left : k > 1 /\ scan.left[k] = Rest.left[i]
    BY <1>2
  <2> QED BY <1>2, <2>2 DEF Arranged
<1>14. \A i, j \in DOMAIN r.left : i < j => Place(r.left[i]) < Place(r.left[j])
  <2>1. \A i, j \in DOMAIN Rest.left : i < j => Place(Rest.left[i]) < Place(Rest.left[j])
    <3>1. SUFFICES ASSUME NEW i \in DOMAIN Rest.left, NEW j \in DOMAIN Rest.left, i < j
                   PROVE  Place(Rest.left[i]) < Place(Rest.left[j])
      OBVIOUS
    <3>2. PICK k \in DOMAIN scan.left, l \in DOMAIN scan.left :
            k < l /\ scan.left[k] = Rest.left[i] /\ scan.left[l] = Rest.left[j]
      BY <1>2, <3>1
    <3> QED BY <3>2 DEF Arranged
  <2> QED BY <1>8, <1>11, <2>1
<1>15. ASSUME cursor # NoCursor, ~r.seeking PROVE Leads(r, cursor.hit.file)
  <2>1. CASE scan.seeking
    <3>1. PICK i \in 1..n : hits[i] = cursor.hit
      BY <1>2, <1>7, <1>8, <1>15, <2>1 DEF Seeks
    <3> QED BY <1>6, <1>12, <1>13, <3>1 DEF Leads
  <2>2. CASE ~scan.seeking
    BY <1>2, <1>12, <1>15, <2>2 DEF Arranged, Leads
  <2> QED BY <2>1, <2>2
<1>16. ASSUME NEW p \in Priorities, NEW i \in DOMAIN r.groups[p] PROVE Leads(r, r.groups[p][i].file)
  <2>1. CASE \E j \in DOMAIN Rest.groups[p] : Rest.groups[p][j] = r.groups[p][i]
    BY <1>2, <1>12, <2>1 DEF Arranged, Leads
  <2>2. CASE \E j \in 1..n : hits[j] = r.groups[p][i]
    BY <1>6, <1>12, <1>13, <2>2 DEF Leads
  <2> QED BY <1>5, <1>8, <2>1, <2>2 DEF Ordered
<1>17. ASSUME NEW h \in due, h.file \notin ToSet(r.left) PROVE Skips(h) \/ Covered(a, h)
  <2>1. h \in Matches /\ PriorityOf(h) \in {0, 1}
    BY <1>1, MatchIs DEF Priorities
  <2>2. CASE h.file \notin ToSet(scan.left)
    <3>1. Skips(h) \/ Covered(scan, h)
      BY <1>17, <2>2 DEF Arranged
    <3>2. Covered(scan, h) => Covered(Rest, h)
      BY <1>2 DEF Covered, Enough
    <3> QED BY <1>5, <2>1, <3>1, <3>2 DEF Ordered
  <2>3. CASE h.file = f
    BY <1>9, <2>3
  <2>4. CASE h.file \in ToSet(Rest.left)
    <3>1. Enough(a)
      BY <1>8, <1>17, <2>4
    <3>2. CASE PriorityOf(h) = 1
      BY <3>1, <3>2 DEF Covered
    <3>3. CASE PriorityOf(h) = 0
      <4>1. Len(a.groups[0]) = a.limit + 1
        <5>1. Len(a.groups[0]) \in Nat /\ a.limit \in Nat
          BY <1>7 DEF Scans, Priorities
        <5> QED BY <1>7, <3>1, <5>1 DEF Enough, GroupOK, Priorities
      <4>2. ASSUME NEW i \in DOMAIN a.groups[0] PROVE Ahead(a.groups[0][i], h)
        <5>1. PriorityOf(a.groups[0][i]) = 0 /\ 0 \in Priorities
          BY <1>7 DEF GroupOK, Priorities
        <5>2. CASE \E j \in DOMAIN Rest.groups[0] : Rest.groups[0][j] = a.groups[0][i]
          <6>1. Leads(scan, a.groups[0][i].file)
            BY <1>2, <5>1, <5>2 DEF Arranged
          <6>2. Place(a.groups[0][i].file) < Place(h.file)
            BY <1>2, <2>4, <6>1 DEF Leads
          <6> QED BY <3>3, <5>1, <6>2 DEF Ahead
        <5>3. CASE \E j \in 1..n : hits[j] = a.groups[0][i]
          <6>1. Place(a.groups[0][i].file) < Place(h.file)
            BY <1>6, <1>13, <2>4, <5>3
          <6> QED BY <3>3, <5>1, <6>1 DEF Ahead
        <5> QED BY <1>5, <5>1, <5>2, <5>3 DEF Ordered
      <4> QED BY <3>3, <4>1, <4>2 DEF Covered
    <3> QED BY <2>1, <3>2, <3>3
  <2> QED BY <1>2, <2>2, <2>3, <2>4
<1>18. \A p \in Priorities : TidyGroup(r.groups[p])
  BY <1>7, <1>8
<1>19. Arranged(r, due)
  BY <1>10, <1>14, <1>15, <1>16, <1>17, <1>18 DEF Arranged
<1> QED BY <1>19 DEF r

LEMMA BranchArranged ==
  ASSUME Sound, walk = "ready", ~all, NEW limit \in Limits, NEW D \in SUBSET Matches,
         \A h \in D : h.file = Current /\ Found(Begin(limit, OffBranch, <<>>), h),
         cursor # NoCursor => Found(Begin(limit, OffBranch, <<>>), cursor.hit)
  PROVE  Arranged(FoldLeft(AddUnlessEnough, Begin(limit, OffBranch, <<>>), OnBranch), D)
<1>1. PICK b \in Scans : b = Begin(limit, OffBranch, <<>>)
  BY BranchRead
<1>2. /\ b.left = <<>> /\ (b.seeking <=> cursor # NoCursor)
      /\ \A p \in Priorities : GroupOK(b, p) /\ b.groups[p] = <<>>
      /\ ReadOnce(b, OnBranch, BranchLen)
      /\ Falling(Current, OnBranch, BranchLen)
      /\ \A h \in Matches : h.file = Current => \E i \in 1..BranchLen : OnBranch[i] = h
  BY <1>1, BranchRead
<1>3. LogOK /\ CursorOK /\ (cursor # NoCursor => cursor.hit.file = Current) /\ SessionOK
  BY DEF Sound, SessionOK, WalkOK
<1>4. DOMAIN <<>> = {} /\ ToSet(<<>>) = {}
  BY DEF ToSet
<1>5. \A p \in Priorities : DOMAIN b.groups[p] = {} /\ TidyGroup(b.groups[p])
  BY <1>2, <1>4 DEF TidyGroup
<1>6. Ranks(b, OnBranch, BranchLen)
  <2>1. ASSUME NEW i \in 1..BranchLen, NEW j \in 1..BranchLen, i < j,
               PriorityOf(OnBranch[i]) = PriorityOf(OnBranch[j])
        PROVE  Ahead(OnBranch[i], OnBranch[j])
    BY <1>2, <2>1 DEF Falling, Ahead
  <2>2. b.seeking => \E j \in 1..BranchLen : OnBranch[j] = cursor.hit /\ Found(b, OnBranch[j])
    BY <1>1, <1>2, <1>3 DEF CursorOK
  <2> QED BY <1>2, <1>5, <2>1, <2>2 DEF Ranks
<1>7. PICK r : r = FoldLeft(AddUnlessEnough, b, OnBranch)
  OBVIOUS
<1>8. Ordered(b, OnBranch, BranchLen, r)
  BY <1>2, <1>3, <1>5, <1>6, <1>7, BranchOrdered
<1>9. r.left = <<>> /\ Seeks(b, OnBranch, BranchLen, r) /\ \A p \in Priorities : TidyGroup(r.groups[p])
  BY <1>2, <1>8 DEF Ordered, Collected, SameSearch
<1>10. \A h \in D : Skips(h) \/ Covered(r, h)
  BY <1>1, <1>2, <1>8 DEF Ordered
<1>11. Arranged(r, D)
  BY <1>4, <1>9, <1>10 DEF Arranged, Leads
<1> QED BY <1>1, <1>7, <1>11

----------------------------------------------------------------------------
(* The order is kept, and all that is due is shown. *)

\* What was due is not in the context, and on the branch if that is searched.
DuesOK ==
  calm /\ Started /\ Going => \A h \in due :
    /\ ~all => h.file = Current
    /\ h.file = Current => h.pos \notin active /\ (~all => h.pos \in branch)
    /\ walk = "scanning" => Found(scan, h)

\* The pages have shown what comes before the cursor, and no more.
ShownInOrder ==
  calm /\ Going /\ cursor # NoCursor =>
    /\ shown[cursor.hit] = cursor.offset
    /\ \A h \in Hit : shown[h] > 0 => h = cursor.hit \/ Ahead(h, cursor.hit)
    /\ \A h \in due : Ahead(h, cursor.hit) => shown[h] = SizeOf(h)

ScanInOrder == walk = "scanning" /\ Hopeful(scan) => Arranged(scan, due)

InOrder == Sound /\ DuesOK /\ ShownInOrder /\ ScanInOrder /\ AllShown

LEMMA RankedInOrder ==
  ASSUME Sound, walk = "scanning", Arranged(scan, due)
  PROVE  /\ \A i, j \in 1..RankedLen : i < j => Ahead(Ranked(scan)[i], Ranked(scan)[j])
         /\ cursor # NoCursor => \A i \in 1..RankedLen :
              Ranked(scan)[i] = cursor.hit \/ Ahead(cursor.hit, Ranked(scan)[i])
<1> DEFINE hits == Ranked(scan)
           l == Len(scan.groups[0])
<1>1. LogOK /\ CursorOK /\ SearchOK(scan)
  BY DEF Sound, SessionOK, ScanOK, WalkOK
<1>2. /\ scan.groups[0] \in Seq(Hit) /\ scan.groups[1] \in Seq(Hit) /\ RankedLen \in Nat
      /\ \A i \in 1..l : hits[i] = scan.groups[0][i]
      /\ \A j \in 1..Len(scan.groups[1]) : hits[l + j] = scan.groups[1][j]
      /\ \A i \in 1..RankedLen : i \in 1..l \/ \E j \in 1..Len(scan.groups[1]) : i = l + j
  BY <1>1, RankedIs
<1>3. /\ l \in Nat /\ Len(scan.groups[1]) \in Nat
      /\ DOMAIN scan.groups[0] = 1..l /\ DOMAIN scan.groups[1] = 1..Len(scan.groups[1])
  BY <1>2
<1>4. /\ \A i \in DOMAIN scan.groups[0] : PriorityOf(scan.groups[0][i]) = 0
      /\ \A i \in DOMAIN scan.groups[1] : PriorityOf(scan.groups[1][i]) = 1
      /\ TidyGroup(scan.groups[0]) /\ TidyGroup(scan.groups[1])
  BY <1>1 DEF SearchOK, GroupOK, Arranged, Priorities
<1> HIDE DEF hits, l
<1>5. ASSUME NEW i \in 1..RankedLen, NEW j \in 1..RankedLen, i < j PROVE Ahead(hits[i], hits[j])
  <2>1. CASE j \in 1..l
    <3>1. i \in 1..l
      BY <1>2, <1>3, <1>5, <2>1
    <3> QED BY <1>2, <1>3, <1>4, <1>5, <2>1, <3>1 DEF TidyGroup
  <2>2. CASE \E u \in 1..Len(scan.groups[1]) : j = l + u
    <3>1. PICK u \in 1..Len(scan.groups[1]) : j = l + u
      BY <2>2
    <3>2. hits[j] = scan.groups[1][u] /\ PriorityOf(hits[j]) = 1
      BY <1>2, <1>3, <1>4, <3>1
    <3>3. CASE i \in 1..l
      <4>1. PriorityOf(hits[i]) = 0
        BY <1>2, <1>3, <1>4, <3>3
      <4> QED BY <3>2, <4>1 DEF Ahead
    <3>4. CASE \E v \in 1..Len(scan.groups[1]) : i = l + v
      <4>1. PICK v \in 1..Len(scan.groups[1]) : i = l + v
        BY <3>4
      <4>2. hits[i] = scan.groups[1][v] /\ v < u
        BY <1>2, <1>3, <1>5, <3>1, <4>1
      <4> QED BY <1>3, <1>4, <3>2, <4>2 DEF TidyGroup
    <3> QED BY <1>2, <3>3, <3>4
  <2> QED BY <1>2, <2>1, <2>2
<1>6. ASSUME cursor # NoCursor, NEW i \in 1..RankedLen PROVE hits[i] = cursor.hit \/ Ahead(cursor.hit, hits[i])
  <2>1. CASE i \in 1..l
    BY <1>2, <1>3, <1>4, <1>6, <2>1 DEF TidyGroup
  <2>2. CASE \E u \in 1..Len(scan.groups[1]) : i = l + u
    <3>1. PICK u \in 1..Len(scan.groups[1]) : i = l + u
      BY <2>2
    <3>2. hits[i] = scan.groups[1][u]
      BY <1>2, <3>1
    <3> QED BY <1>3, <1>4, <1>6, <3>2 DEF TidyGroup
  <2> QED BY <1>2, <2>1, <2>2
<1> QED BY <1>5, <1>6 DEF hits

\* A hit that the search does not need comes behind all that a page can show.
LEMMA RankedCovers ==
  ASSUME Sound, walk = "scanning", NEW h \in Matches, Covered(scan, h)
  PROVE  \/ \E i \in 1..RankedLen : Ranked(scan)[i] = h
         \/ RankedLen > scan.limit /\ \A i \in 1..scan.limit : Ahead(Ranked(scan)[i], h)
<1> DEFINE hits == Ranked(scan)
           l == Len(scan.groups[0])
           e == Len(scan.groups[1])
<1>1. LogOK /\ CursorOK /\ SearchOK(scan)
  BY DEF Sound, SessionOK, ScanOK, WalkOK
<1>2. /\ scan.groups[0] \in Seq(Hit) /\ scan.groups[1] \in Seq(Hit) /\ RankedLen \in Nat
      /\ \A i \in 1..l : i \in 1..RankedLen /\ hits[i] = scan.groups[0][i]
      /\ \A j \in 1..e : l + j \in 1..RankedLen /\ hits[l + j] = scan.groups[1][j]
      /\ \A i \in 1..RankedLen : i \in 1..l \/ \E j \in 1..e : i = l + j
      /\ RankedLen = l + e
  BY <1>1, RankedIs DEF RankedLen
<1>3. /\ l \in Nat /\ e \in Nat /\ scan.limit \in Nat
      /\ DOMAIN scan.groups[0] = 1..l /\ DOMAIN scan.groups[1] = 1..e
  BY <1>1, <1>2 DEF SearchOK, Scans
<1>4. /\ \A i \in 1..l : PriorityOf(scan.groups[0][i]) = 0
  BY <1>1, <1>3 DEF SearchOK, GroupOK, Priorities
<1>5. PriorityOf(h) \in {0, 1}
  BY <1>1, MatchIs DEF Priorities
<1> HIDE DEF hits, l, e
<1>6. ASSUME l > scan.limit, PriorityOf(h) = 1
      PROVE  RankedLen > scan.limit /\ \A i \in 1..scan.limit : Ahead(hits[i], h)
  <2>1. RankedLen > scan.limit /\ \A i \in 1..scan.limit : i \in 1..l
    BY <1>2, <1>3, <1>6
  <2> QED BY <1>2, <1>4, <1>6, <2>1 DEF Ahead
<1>7. CASE PriorityOf(h) = 0
  <2>1. \/ \E i \in 1..l : scan.groups[0][i] = h
        \/ l = scan.limit + 1 /\ \A i \in 1..l : Ahead(scan.groups[0][i], h)
    BY <1>3, <1>7 DEF Covered, l
  <2>2. CASE \E i \in 1..l : scan.groups[0][i] = h
    BY <1>2, <2>2 DEF hits
  <2>3. CASE l = scan.limit + 1 /\ \A i \in 1..l : Ahead(scan.groups[0][i], h)
    <3>1. RankedLen > scan.limit /\ \A i \in 1..scan.limit : i \in 1..l
      BY <1>2, <1>3, <2>3
    <3> QED BY <1>2, <2>3, <3>1 DEF hits
  <2> QED BY <2>1, <2>2, <2>3
<1>8. CASE PriorityOf(h) = 1
  <2>1. \/ \E i \in 1..e : scan.groups[1][i] = h
        \/ e = scan.limit + 1 /\ \A i \in 1..e : Ahead(scan.groups[1][i], h)
        \/ l > scan.limit
    BY <1>3, <1>8 DEF Covered, Enough, e, l
  <2>2. CASE \E i \in 1..e : scan.groups[1][i] = h
    BY <1>2, <2>2 DEF hits
  <2>3. CASE e = scan.limit + 1 /\ \A i \in 1..e : Ahead(scan.groups[1][i], h)
    <3>1. RankedLen > scan.limit
      BY <1>2, <1>3, <2>3
    <3>2. ASSUME NEW i \in 1..scan.limit PROVE Ahead(hits[i], h)
      <4>1. i \in 1..RankedLen
        BY <1>2, <1>3, <3>1
      <4>2. CASE i \in 1..l
        BY <1>2, <1>4, <1>8, <4>2 DEF Ahead
      <4>3. CASE \E j \in 1..e : i = l + j
        BY <1>2, <2>3, <4>3
      <4> QED BY <1>2, <4>1, <4>2, <4>3
    <3> QED BY <3>1, <3>2 DEF hits
  <2>4. CASE l > scan.limit
    BY <1>6, <1>8, <2>4 DEF hits
  <2> QED BY <2>1, <2>2, <2>3, <2>4
<1> QED BY <1>5, <1>7, <1>8

\* A page goes on where the pages before it stopped; and what it does not show to the end comes
\* behind all that it shows, and behind its cursor.
LEMMA PageInOrder ==
  ASSUME InOrder, calm, NEW room \in Rooms, Deliver(room)
  PROVE  /\ \A i \in 1..Len(page') : page'[i].from = shown[page'[i].hit]
         /\ \A i \in 1..Len(page') : shown'[page'[i].hit] = page'[i].to /\ page'[i].hit \in Matches
         /\ \A h \in Hit : (\A i \in 1..Len(page') : page'[i].hit # h) => shown'[h] = shown[h]
         /\ \A i, j \in 1..Len(page') : i < j => Ahead(page'[i].hit, page'[j].hit)
         /\ cursor # NoCursor => \A i \in 1..Len(page') :
              page'[i].hit = cursor.hit \/ Ahead(cursor.hit, page'[i].hit)
         /\ \A h \in due :
              \/ shown'[h] = SizeOf(h)
              \/ Parts(room).next # NoCursor /\ \A i \in 1..Len(page') : page'[i].hit = h \/ Ahead(page'[i].hit, h)
<1>1. PICK p : p = Parts(room)
  OBVIOUS
<1> DEFINE hits == Ranked(scan)
           m == Len(p.parts)
<1>2. /\ Scanned /\ ~Lost /\ SearchOK(scan)
      /\ Filled(hits, RankedLen, RankedLen, p)
      /\ page' = p.parts
      /\ \A h \in Hit : \/ (\A i \in 1..m : p.parts[i].hit # h) /\ shown'[h] = shown[h]
                        \/ \E i \in 1..m : p.parts[i].hit = h /\ shown'[h] = p.parts[i].to
  <2>1. Sound
    BY DEF InOrder
  <2>2. /\ Scanned /\ ~Lost /\ SearchOK(scan)
        /\ Filled(Ranked(scan), RankedLen, RankedLen, Parts(room))
        /\ page' = Parts(room).parts
        /\ \A h \in Hit : \/ (\A i \in 1..Len(page') : page'[i].hit # h) /\ shown'[h] = shown[h]
                          \/ \E i \in 1..Len(page') : page'[i].hit = h /\ shown'[h] = page'[i].to
    BY <2>1, DeliverIs
  <2> QED BY <1>1, <2>2
<1>3. /\ Sound /\ LogOK /\ CursorOK /\ SessionOK /\ walk = "scanning" /\ due \subseteq Matches /\ Going /\ Started
      /\ shown \in [Hit -> Nat] /\ (cursor = NoCursor => \A h \in Hit : shown[h] = 0)
  BY <1>2 DEF InOrder, Sound, SessionOK, WalkOK, ShownOK, Scanned, Going, Started
<1>4. cursor # NoCursor => Found(scan, cursor.hit)
  BY <1>2 DEF SearchOK, AnchorOK, Lost
<1>5. Arranged(scan, due)
  BY <1>3, <1>4 DEF InOrder, ScanInOrder, Hopeful
<1>6. /\ \A i, j \in 1..RankedLen : i < j => Ahead(hits[i], hits[j])
      /\ cursor # NoCursor => \A i \in 1..RankedLen : hits[i] = cursor.hit \/ Ahead(cursor.hit, hits[i])
  BY <1>3, <1>5, RankedInOrder
<1>7. /\ m \in Nat /\ m <= RankedLen
      /\ \A i \in 1..m :
           /\ p.parts[i].hit = hits[i] /\ p.parts[i].from = Offset(hits[i])
           /\ hits[i] \in Matches /\ hits[i] \in Hit
           /\ p.parts[i].to \in Nat
           /\ SizeOf(hits[i]) \in Nat
           /\ i < m => p.parts[i].to = SizeOf(hits[i])
      /\ p.next = NoCursor =>
           /\ m = RankedLen
           /\ \A i \in 1..RankedLen : p.parts[i].to = SizeOf(hits[i])
  BY <1>2, <1>3, PageEnds
<1>8. m <= scan.limit /\ scan.limit \in Nat /\ RankedLen \in Nat
  BY <1>2, <1>3, RankedIs DEF Filled, SearchOK, Scans
<1>9. \A i \in 1..RankedLen : hits[i] \in Matches
  BY <1>2, <1>3, RankedShows
<1>10. \A i \in 1..RankedLen : Anchor(hits[i]) => ~Finished(hits[i])
  <2>1. ASSUME NEW i \in 1..RankedLen, Anchor(hits[i]), Finished(hits[i]) PROVE FALSE
    <3>1. Offset(hits[i]) < SizeOf(hits[i]) /\ Offset(hits[i]) = SizeOf(hits[i]) /\ SizeOf(hits[i]) \in Nat
      BY <1>2, <1>3, <2>1, RankedShows DEF Showable, Offset, Finished
    <3> QED BY <3>1
  <2> QED BY <2>1
<1>11. \A i \in 1..m : i \in 1..RankedLen
  BY <1>7, <1>8
<1>12. \A h \in Matches : h \in Hit
  BY <1>3, MatchIs
<1>13. cursor # NoCursor =>
         /\ cursor.hit \in Matches /\ shown[cursor.hit] = cursor.offset
         /\ \A h \in Hit : shown[h] > 0 => h = cursor.hit \/ Ahead(h, cursor.hit)
         /\ \A h \in due : Ahead(h, cursor.hit) => shown[h] = SizeOf(h)
  BY <1>3 DEF InOrder, ShownInOrder, CursorOK
<1> HIDE DEF hits, m
<1>14. \A i, j \in 1..RankedLen : hits[i] = hits[j] => i = j
  <2>1. ASSUME NEW i \in 1..RankedLen, NEW j \in 1..RankedLen, hits[i] = hits[j] PROVE i = j
    <3>1. ~(i < j) /\ ~(j < i)
      BY <1>3, <1>6, <1>9, <2>1, AheadIs
    <3> QED BY <1>8, <3>1
  <2> QED BY <2>1
<1>15. ASSUME NEW i \in 1..m PROVE shown'[hits[i]] = p.parts[i].to
  <2>1. PICK j \in 1..m : p.parts[j].hit = hits[i] /\ shown'[hits[i]] = p.parts[j].to
    BY <1>2, <1>7
  <2>2. hits[j] = hits[i] /\ i \in 1..RankedLen /\ j \in 1..RankedLen
    BY <1>7, <1>11, <2>1
  <2>3. i = j
    BY <1>14, <2>2
  <2> QED BY <2>1, <2>3
<1>16. ASSUME NEW i \in 1..m PROVE Offset(hits[i]) = shown[hits[i]]
  <2>1. hits[i] \in Matches /\ hits[i] \in Hit /\ shown[hits[i]] \in Nat /\ i \in 1..RankedLen
    BY <1>3, <1>7, <1>11
  <2>2. CASE Anchor(hits[i])
    BY <1>13, <2>2 DEF Anchor, Offset
  <2>3. CASE ~Anchor(hits[i])
    <3>1. ASSUME shown[hits[i]] > 0 PROVE FALSE
      <4>1. cursor # NoCursor
        BY <1>3, <2>1, <3>1
      <4>2. hits[i] # cursor.hit
        BY <2>3, <4>1 DEF Anchor
      <4>3. Ahead(hits[i], cursor.hit) /\ Ahead(cursor.hit, hits[i])
        BY <1>6, <1>13, <2>1, <3>1, <4>1, <4>2
      <4> QED BY <1>3, <1>13, <2>1, <4>1, <4>3, AheadIs
    <3> QED BY <2>1, <2>3, <3>1 DEF Offset
  <2> QED BY <2>2, <2>3
<1>17. ASSUME NEW h \in Hit, \A i \in 1..m : hits[i] # h PROVE shown'[h] = shown[h]
  BY <1>2, <1>7, <1>17
<1>18. ASSUME NEW h \in due
       PROVE  \/ shown'[h] = SizeOf(h)
              \/ p.next # NoCursor /\ \A i \in 1..m : hits[i] = h \/ Ahead(hits[i], h)
  <2>1. h \in Matches /\ h \in Hit
    BY <1>3, <1>12
  <2>2. CASE Skips(h)
    <3>1. cursor # NoCursor /\ (Ahead(h, cursor.hit) \/ (h = cursor.hit /\ Finished(h)))
      BY <2>2 DEF Skips
    <3>2. shown[h] = SizeOf(h)
      BY <1>13, <3>1 DEF Finished
    <3>3. \A i \in 1..m : hits[i] # h
      <4>1. SUFFICES ASSUME NEW i \in 1..m, hits[i] = h PROVE FALSE
        OBVIOUS
      <4>2. i \in 1..RankedLen
        BY <1>11
      <4>3. CASE Ahead(h, cursor.hit)
        <5>1. h = cursor.hit \/ Ahead(cursor.hit, h)
          BY <1>6, <3>1, <4>1, <4>2
        <5> QED BY <1>3, <1>13, <2>1, <3>1, <4>3, <5>1, AheadIs
      <4>4. CASE h = cursor.hit /\ Finished(h)
        BY <1>10, <3>1, <4>1, <4>2, <4>4 DEF Anchor
      <4> QED BY <3>1, <4>3, <4>4
    <3> QED BY <1>17, <2>1, <3>2, <3>3
  <2>3. CASE Covered(scan, h)
    <3>1. CASE \E i \in 1..RankedLen : hits[i] = h
      <4>1. PICK j \in 1..RankedLen : hits[j] = h
        BY <3>1
      <4>2. ASSUME NEW i \in 1..m, i <= j PROVE hits[i] = h \/ Ahead(hits[i], h)
        <5>1. i \in 1..RankedLen /\ (i < j \/ i = j)
          BY <1>8, <1>11, <4>2
        <5> QED BY <1>6, <4>1, <5>1
      <4>3. CASE j \in 1..m /\ p.parts[j].to = SizeOf(h)
        BY <1>15, <4>1, <4>3
      <4>4. CASE ~(j \in 1..m /\ p.parts[j].to = SizeOf(h))
        <5>1. p.next # NoCursor
          BY <1>7, <4>1, <4>4
        <5>2. \A i \in 1..m : i <= j
          <6>1. ASSUME NEW i \in 1..m, j < i PROVE FALSE
            <7>1. j \in 1..m /\ j < m
              BY <1>7, <1>8, <6>1
            <7> QED BY <1>7, <4>1, <4>4, <7>1
          <6> QED BY <1>7, <1>8, <6>1
        <5> QED BY <4>2, <5>1, <5>2
      <4> QED BY <4>3, <4>4
    <3>2. CASE RankedLen > scan.limit /\ \A i \in 1..scan.limit : Ahead(hits[i], h)
      <4>1. m # RankedLen /\ \A i \in 1..m : i \in 1..scan.limit
        BY <1>7, <1>8, <3>2
      <4> QED BY <1>7, <3>2, <4>1
    <3> QED BY <1>3, <2>1, <2>3, <3>1, <3>2, RankedCovers DEF hits
  <2>4. h.file \notin ToSet(scan.left)
    BY <1>2 DEF Scanned, ToSet
  <2> QED BY <1>5, <2>2, <2>3, <2>4 DEF Arranged
<1>19. Len(page') = m /\ \A i \in 1..m : page'[i].hit = hits[i] /\ page'[i].from = Offset(hits[i]) /\ page'[i].to = p.parts[i].to
  BY <1>2, <1>7 DEF m
<1>20. \A i \in 1..m : page'[i].from = shown[page'[i].hit]
  BY <1>16, <1>19
<1>21. \A i \in 1..m : shown'[page'[i].hit] = page'[i].to /\ page'[i].hit \in Matches
  BY <1>7, <1>15, <1>19
<1>22. \A h \in Hit : (\A i \in 1..m : page'[i].hit # h) => shown'[h] = shown[h]
  BY <1>17, <1>19
<1>23. \A i, j \in 1..m : i < j => Ahead(page'[i].hit, page'[j].hit)
  BY <1>6, <1>11, <1>19
<1>24. cursor # NoCursor => \A i \in 1..m : page'[i].hit = cursor.hit \/ Ahead(cursor.hit, page'[i].hit)
  BY <1>6, <1>11, <1>19
<1>25. \A h \in due :
         \/ shown'[h] = SizeOf(h)
         \/ Parts(room).next # NoCursor /\ \A i \in 1..m : page'[i].hit = h \/ Ahead(page'[i].hit, h)
  BY <1>1, <1>18, <1>19
<1> HIDE DEF m
<1> QED BY <1>19, <1>20, <1>21, <1>22, <1>23, <1>24, <1>25

LEMMA OrderStays ==
  ASSUME SessionOK, Grown, all' = all, all => order' = order
  PROVE  /\ \A f : Place(f)' = Place(f)
         /\ \A h, d \in Matches : Ahead(h, d)' <=> Ahead(h, d)
<1>1. ASSUME NEW f PROVE Place(f)' = Place(f)
  <2>1. CASE all
    <3>1. order' = order
      BY <2>1
    <3>2. FilePlace(f)' = FilePlace(f)
      BY <3>1 DEF FilePlace
    <3> QED BY <2>1, <3>2 DEF Place
  <2>2. CASE ~all
    BY <2>2 DEF Place
  <2> QED BY <2>1, <2>2
<1>2. \A h, d \in Matches : Ahead(h, d)' <=> Ahead(h, d)
  BY <1>1 DEF Grown, Ahead
<1> QED BY <1>1, <1>2

LEMMA ArrangedStays ==
  ASSUME Sound, Grown, all' = all, all => order' = order, cursor' = cursor,
         NEW s, SearchOK(s), NEW D \in SUBSET Matches, Arranged(s, D)
  PROVE  Arranged(s, D)'
<1>1. /\ SessionOK /\ LogOK /\ CursorOK /\ \A p \in Priorities : GroupOK(s, p)
  BY DEF Sound, SessionOK, WalkOK, SearchOK
<1>2. /\ \A f : Place(f)' = Place(f)
      /\ \A h, d \in Matches : Ahead(h, d)' <=> Ahead(h, d)
  BY <1>1, OrderStays DEF Sound
<1>3. \A p \in Priorities : \A i \in DOMAIN s.groups[p] : s.groups[p][i] \in Matches
  BY <1>1 DEF GroupOK
<1>4. \A f : Leads(s, f)' <=> Leads(s, f)
  BY <1>2 DEF Leads
<1>5. cursor # NoCursor => cursor.hit \in Matches
  BY <1>1 DEF CursorOK
<1>6. ASSUME NEW p \in Priorities PROVE TidyGroup(s.groups[p])'
  BY <1>2, <1>3, <1>5 DEF Arranged, TidyGroup
<1>7. ASSUME NEW h \in D, h.file \notin ToSet(s.left) PROVE Skips(h)' \/ Covered(s, h)'
  <2>1. h \in Matches /\ PriorityOf(h)' = PriorityOf(h) /\ SizeOf(h)' = SizeOf(h) /\ PriorityOf(h) \in Priorities
    BY <1>1, MatchIs DEF Grown
  <2>2. CASE Skips(h)
    BY <1>2, <1>5, <2>1, <2>2 DEF Skips, Finished
  <2>3. CASE Covered(s, h)
    BY <1>2, <1>3, <2>1, <2>3 DEF Covered, Enough
  <2> QED BY <1>7, <2>2, <2>3 DEF Arranged
<1> QED BY <1>2, <1>4, <1>6, <1>7 DEF Arranged

LEMMA ShownInOrderStays ==
  ASSUME InOrder, Grown, cursor' = cursor, all' = all, due' = due \/ cursor = NoCursor,
         shown' = shown, calm' => calm, Going' => Going, calm' /\ Started /\ all => order' = order
  PROVE  ShownInOrder'
<1>1. Sound /\ SessionOK /\ due \subseteq Matches /\ CursorOK /\ LogOK
  BY DEF InOrder, Sound, ShownOK, WalkOK, SessionOK
<1>2. SUFFICES ASSUME calm', Going', cursor # NoCursor
               PROVE  /\ shown[cursor.hit] = cursor.offset
                      /\ \A h \in Hit : shown[h] > 0 => h = cursor.hit \/ Ahead(h, cursor.hit)'
                      /\ \A h \in due : Ahead(h, cursor.hit)' => shown[h] = SizeOf(h)'
  BY DEF ShownInOrder
<1>3. Started /\ calm /\ Going
  BY <1>2 DEF InOrder, Sound, WalkOK, Started
<1>4. \A h, d \in Matches : Ahead(h, d)' <=> Ahead(h, d)
  BY <1>1, <1>2, <1>3, OrderStays
<1>5. \A h \in Hit : shown[h] > 0 => h \in Matches
  BY <1>1 DEF Sound, ShownOK
<1>6. cursor.hit \in Matches
  BY <1>1, <1>2 DEF CursorOK
<1>7. /\ shown[cursor.hit] = cursor.offset
      /\ \A h \in Hit : shown[h] > 0 => h = cursor.hit \/ Ahead(h, cursor.hit)
      /\ \A h \in due : Ahead(h, cursor.hit) => shown[h] = SizeOf(h)
  BY <1>2, <1>3 DEF InOrder, ShownInOrder
<1> QED BY <1>1, <1>4, <1>5, <1>6, <1>7 DEF Grown

\* As long as the walk is where it is.
LEMMA InOrderStays ==
  ASSUME InOrder, Grown, walk' = walk, scan' = scan, cursor' = cursor, all' = all, due' = due,
         shown' = shown, calm' => calm, calm' /\ Started /\ all => order' = order
  PROVE  ShownInOrder' /\ ScanInOrder' /\ AllShown'
<1>1. Sound /\ SessionOK /\ due \subseteq Matches /\ CursorOK /\ LogOK
  BY DEF InOrder, Sound, ShownOK, WalkOK, SessionOK
<1>2. ShownInOrder'
  BY ShownInOrderStays DEF Going
<1>3. ScanInOrder'
  <2>1. SUFFICES ASSUME walk = "scanning", Hopeful(scan)' PROVE Arranged(scan, due)'
    BY DEF ScanInOrder
  <2>2. PICK s : s = scan
    OBVIOUS
  <2>3. PICK D : D = due
    OBVIOUS
  <2>4. calm /\ Hopeful(s) /\ Started /\ (all => order' = order)
    BY <2>1, <2>2 DEF Hopeful, Found, Started
  <2>5. SearchOK(s) /\ Arranged(s, D) /\ D \in SUBSET Matches
    BY <1>1, <2>1, <2>2, <2>3, <2>4 DEF Sound, ScanOK, InOrder, ScanInOrder
  <2>6. Arranged(s, D)'
    BY <1>1, <2>4, <2>5, ArrangedStays
  <2> QED BY <2>2, <2>3, <2>6 DEF Arranged, TidyGroup, Leads, Covered, Enough
<1>4. AllShown'
  BY <1>1 DEF InOrder, AllShown, Grown
<1> QED BY <1>2, <1>3, <1>4

LEMMA MoveInOrder ==
  ASSUME InOrder, Leave \/ Navigate \/ UNCHANGED vars
  PROVE  InOrder'
<1>1. Sound'
  BY SoundStays DEF InOrder, Next
<1>2. /\ log' = log /\ order' = order /\ walk' = walk /\ scan' = scan /\ cursor' = cursor /\ all' = all
      /\ due' = due /\ shown' = shown /\ page' = page
  BY DEF Leave, Navigate, vars, historyVars
<1>3. /\ calm' => calm
      /\ calm' /\ Started => branch' = branch /\ active' \subseteq active
  <2>1. CASE Leave
    BY <2>1 DEF Leave, From, historyVars
  <2>2. CASE Navigate
    BY <2>2 DEF Navigate
  <2>3. CASE UNCHANGED vars
    BY <2>3 DEF vars
  <2> QED BY <2>1, <2>2, <2>3
<1>4. Grown
  BY <1>2 DEF Grown, Matches, Positions, PriorityOf, SizeOf
<1>5. ShownInOrder' /\ ScanInOrder' /\ AllShown'
  BY <1>2, <1>3, <1>4, InOrderStays
<1>6. DuesOK'
  <2>1. Started' <=> Started
    BY <1>2 DEF Started
  <2>2. Going' <=> Going
    BY <1>2 DEF Going
  <2> QED BY <1>2, <1>3, <2>1, <2>2 DEF InOrder, DuesOK, Found
<1> QED BY <1>1, <1>5, <1>6 DEF InOrder

LEMMA WriteInOrder ==
  ASSUME InOrder, NEW f \in Files, Write(f)
  PROVE  InOrder'
<1>1. Sound /\ Sound'
  BY SoundStays DEF InOrder, Next
<1>2. /\ Grown
      /\ walk' = walk /\ all' = all /\ cursor' = cursor /\ scan' = scan
      /\ due' = due /\ shown' = shown /\ page' = page
      /\ calm' = (calm /\ (Started /\ all => Head(order) = f))
      /\ Head(order) = f => order' = order
      /\ Len(log[Current]) \in Nat
      /\ branch \subseteq branch' /\ active' \subseteq active \cup {Len(log[Current]) + 1}
  BY <1>1, WriteIs
<1>3. ShownInOrder' /\ ScanInOrder' /\ AllShown'
  BY <1>2, InOrderStays
<1>4. DuesOK'
  <2>1. Started' <=> Started
    BY <1>2 DEF Started
  <2>2. Going' <=> Going
    BY <1>2 DEF Going
  <2>3. \A h \in due : h.file = Current => h.pos # Len(log[Current]) + 1
    <3>1. ASSUME NEW h \in due, h.file = Current PROVE h.pos # Len(log[Current]) + 1
      <4>1. h.pos \in 1..Len(log[Current])
        BY <1>1, <3>1, MatchIs DEF Sound, SessionOK, ShownOK, Positions
      <4> QED BY <1>2, <4>1
    <3> QED BY <3>1
  <2>4. SUFFICES ASSUME calm, Started, Going, NEW h \in due
                 PROVE  /\ ~all => h.file = Current
                        /\ h.file = Current => h.pos \notin active' /\ (~all => h.pos \in branch')
                        /\ walk = "scanning" => Found(scan, h)
    BY <1>2, <2>1, <2>2 DEF DuesOK, Found
  <2>5. /\ ~all => h.file = Current
        /\ h.file = Current => h.pos \notin active /\ (~all => h.pos \in branch)
        /\ walk = "scanning" => Found(scan, h)
    BY <2>4 DEF InOrder, DuesOK
  <2> QED BY <1>2, <2>3, <2>5
<1> QED BY <1>1, <1>3, <1>4 DEF InOrder

LEMMA FailInOrder ==
  ASSUME InOrder, Fail \/ Refuse
  PROVE  InOrder'
<1>1. /\ walk = "scanning" /\ walk' \in {"ready", "failed"} /\ scan' = NoScan
      /\ UNCHANGED sessionVars /\ all' = all /\ cursor' = cursor
      /\ due' = due /\ shown' = shown /\ page' = page /\ calm' = calm
      /\ order' = order /\ branch' = branch /\ active' = active
  BY DEF Fail, Refuse, Scanned, historyVars, sessionVars
<1>2. Sound /\ Sound' /\ Grown
  BY <1>1, FailSound, SessionStays DEF InOrder, Sound
<1>3. ShownInOrder'
  BY <1>1, <1>2, ShownInOrderStays DEF Going
<1>4. ScanInOrder' /\ AllShown'
  BY <1>1 DEF ScanInOrder, AllShown
<1>5. DuesOK'
  BY <1>1 DEF InOrder, DuesOK, Started, Going
<1> QED BY <1>2, <1>3, <1>4, <1>5 DEF InOrder

LEMMA DueFound ==
  ASSUME Sound, walk = "ready", NEW h \in due', due' = DueNow, DuesOK, calm,
         all => scan'.hidden = active, ~all => scan'.hidden = OffBranch
  PROVE  /\ ~all => h.file = Current
         /\ h.file = Current => h.pos \notin active /\ (~all => h.pos \in branch)
         /\ Found(scan', h) /\ h \in Matches
<1>1. /\ LogOK /\ (cursor = NoCursor <=> page = <<>>) /\ Going /\ due \subseteq Matches
      /\ all \in BOOLEAN
  BY DEF Sound, SessionOK, WalkOK, ShownOK, Going
<1>2. h \in Matches
  BY <1>1 DEF DueNow
<1>3. h.file = Current => h.pos \in Positions(Current)
  BY <1>1, <1>2, MatchIs
<1>4. CASE cursor = NoCursor
  <2>1. (all \/ h.file = Current) /\ Found(scan', h)
    BY <1>1, <1>4 DEF DueNow
  <2> QED BY <1>2, <1>3, <2>1 DEF Found, OffBranch
<1>5. CASE cursor # NoCursor
  <2>1. h \in due /\ Started
    BY <1>1, <1>5 DEF DueNow, Started
  <2>2. /\ ~all => h.file = Current
        /\ h.file = Current => h.pos \notin active /\ (~all => h.pos \in branch)
    BY <1>1, <2>1 DEF DuesOK
  <2> QED BY <1>1, <1>2, <1>3, <2>2 DEF Found, OffBranch
<1> QED BY <1>4, <1>5

LEMMA ArchiveArranged ==
  ASSUME Sound, all, NEW limit \in Limits, NEW D \in SUBSET Matches
  PROVE  Arranged(Begin(limit, active, order), D)
<1>1. /\ LogOK /\ OrderOK /\ active \in SUBSET Nat /\ limit \in Nat
  BY SizesAssumption DEF Sound, SessionOK, Positions
<1>2. order \in Seq(Files) /\ DOMAIN order = 1..Cardinality(Files)
  BY <1>1, FilesFinite DEF OrderOK
<1> DEFINE b == Begin(limit, active, order)
<1>3. /\ b.left = order /\ (b.seeking <=> cursor # NoCursor)
      /\ \A p \in Priorities : b.groups[p] = <<>>
  <2>1. b.left = order /\ b.seeking = (cursor # NoCursor) /\ b.groups = [p \in Priorities |-> <<>>]
    BY DEF Begin, NoScan
  <2> HIDE DEF b
  <2> QED BY <2>1
<1> HIDE DEF b
<1>4. DOMAIN <<>> = {}
  OBVIOUS
<1>5. \A p \in Priorities : DOMAIN b.groups[p] = {} /\ TidyGroup(b.groups[p])
  BY <1>3, <1>4 DEF TidyGroup
<1>6. ASSUME NEW i \in 1..Cardinality(Files), NEW j \in 1..Cardinality(Files), i < j
      PROVE  Place(order[i]) < Place(order[j])
  <2>1. order[i] \in Files /\ order[j] \in Files
    BY <1>1, <1>6 DEF OrderOK
  <2>2. FilePlace(order[i]) = i
    BY <1>1, <1>2, <2>1, FilePlaceIs DEF OrderOK
  <2>3. FilePlace(order[j]) = j
    BY <1>1, <1>2, <2>1, FilePlaceIs DEF OrderOK
  <2> QED BY <1>6, <2>2, <2>3 DEF Place
<1>7. \A h \in D : h.file \in ToSet(b.left)
  BY <1>1, <1>2, <1>3, MatchIs DEF OrderOK, ToSet
<1>8. Arranged(b, D)
  BY <1>2, <1>3, <1>5, <1>6, <1>7 DEF Arranged
<1> QED BY <1>8 DEF b

LEMMA SearchInOrder ==
  ASSUME InOrder, NEW limit \in Limits, SearchArchive(limit) \/ SearchBranch(limit)
  PROVE  InOrder'
<1>1. /\ walk = "ready" /\ walk' = "scanning" /\ due' = DueNow
      /\ UNCHANGED sessionVars /\ all' = all /\ cursor' = cursor
      /\ shown' = shown /\ page' = page /\ calm' = calm
      /\ order' = order /\ branch' = branch /\ active' = active
  BY DEF SearchArchive, SearchBranch, sessionVars
<1>2. Sound /\ Sound' /\ Grown /\ DuesOK /\ Matches' = Matches
  BY <1>1, SearchSound, SessionStays DEF InOrder, Sound
<1>3. /\ (cursor = NoCursor <=> page = <<>>) /\ LogOK /\ CursorOK /\ all \in BOOLEAN
  BY <1>1, <1>2 DEF Sound, SessionOK, WalkOK, Going
<1>4. due' = due \/ cursor = NoCursor
  BY <1>1 DEF DueNow
<1>5. ShownInOrder'
  BY <1>1, <1>2, <1>4, ShownInOrderStays DEF Going
<1>6. AllShown'
  BY <1>1 DEF AllShown
<1>7. /\ all => SearchArchive(limit) /\ scan' = Begin(limit, active, order)
      /\ ~all => /\ SearchBranch(limit)
                 /\ scan' = FoldLeft(AddUnlessEnough, Begin(limit, OffBranch, <<>>), OnBranch)
  BY DEF SearchArchive, SearchBranch, OnBranch, OffBranch
<1>8. all => scan'.hidden = active
  BY <1>7 DEF Begin, NoScan
<1>9. ~all => /\ scan'.hidden = OffBranch
              /\ Begin(limit, OffBranch, <<>>).hidden = OffBranch
  <2>1. SUFFICES ASSUME ~all PROVE scan'.hidden = OffBranch /\ Begin(limit, OffBranch, <<>>).hidden = OffBranch
    OBVIOUS
  <2>2. PICK b \in Scans : b = Begin(limit, OffBranch, <<>>)
    BY <1>1, <1>2, <2>1, BranchRead
  <2>3. b.hidden = OffBranch /\ ReadOnce(b, OnBranch, BranchLen) /\ \A p \in Priorities : GroupOK(b, p)
    BY <1>1, <1>2, <2>1, <2>2, BranchRead
  <2>4. PICK r : r = FoldLeft(AddUnlessEnough, b, OnBranch)
    OBVIOUS
  <2>5. Collected(b, OnBranch, BranchLen, r)
    BY <1>3, <2>3, <2>4, BranchCollected
  <2>6. r.hidden = OffBranch
    BY <2>3, <2>5 DEF Collected, SameSearch
  <2> QED BY <1>7, <2>1, <2>2, <2>3, <2>4, <2>6
<1>10. ASSUME calm, NEW h \in due'
       PROVE  /\ ~all => h.file = Current
              /\ h.file = Current => h.pos \notin active /\ (~all => h.pos \in branch)
              /\ Found(scan', h) /\ h \in Matches
  BY <1>1, <1>2, <1>8, <1>9, <1>10, DueFound
<1>11. DuesOK'
  <2>1. \A h \in due' : Found(scan, h)' <=> Found(scan', h)
    BY DEF Found
  <2> QED BY <1>1, <1>10, <2>1 DEF DuesOK
<1>12. ScanInOrder'
  <2>1. SUFFICES ASSUME Hopeful(scan)' PROVE Arranged(scan, due)'
    BY DEF ScanInOrder
  <2>2. PICK s : s = scan'
    OBVIOUS
  <2>3. PICK D : D = due'
    OBVIOUS
  <2>4. calm /\ Hopeful(s) /\ (cursor # NoCursor => Found(s, cursor.hit))
    BY <1>1, <2>1, <2>2 DEF Hopeful, Found
  <2>5. \A h \in D : Found(s, h) /\ h \in Matches /\ (~all => h.file = Current)
    BY <1>10, <2>2, <2>3, <2>4
  <2>6. D \in SUBSET Matches
    BY <2>5
  <2>7. Arranged(s, D)
    <3>1. CASE all
      BY <1>2, <1>7, <2>2, <2>6, <3>1, ArchiveArranged
    <3>2. CASE ~all
      <4>1. \A h : Found(s, h) <=> Found(Begin(limit, OffBranch, <<>>), h)
        BY <1>9, <2>2, <3>2 DEF Found
      <4> QED BY <1>1, <1>2, <1>7, <2>2, <2>4, <2>5, <2>6, <3>2, <4>1, BranchArranged
    <3> QED BY <3>1, <3>2
  <2>8. SearchOK(s)
    <3>1. CASE all
      BY <1>1, <1>2, <1>7, <2>2, <3>1, ArchiveBegins
    <3>2. CASE ~all
      BY <1>1, <1>2, <1>7, <2>2, <3>2, BranchSearched
    <3> QED BY <3>1, <3>2
  <2>9. Arranged(s, D)'
    BY <1>1, <1>2, <2>6, <2>7, <2>8, ArrangedStays
  <2> QED BY <2>2, <2>3, <2>9 DEF Arranged, TidyGroup, Leads, Covered, Enough
<1> QED BY <1>2, <1>5, <1>6, <1>11, <1>12 DEF InOrder

LEMMA ScanFileInOrder ==
  ASSUME InOrder, ScanFile
  PROVE  InOrder'
<1>1. /\ walk = "scanning" /\ walk' = walk /\ scan.left # <<>> /\ scan' = NextScan
      /\ UNCHANGED sessionVars /\ all' = all /\ cursor' = cursor
      /\ due' = due /\ shown' = shown /\ page' = page /\ calm' = calm
      /\ order' = order /\ branch' = branch /\ active' = active
  BY DEF ScanFile, historyVars, NextScan, AfterFile, Rest, NextFile, Both, sessionVars
<1>2. Sound /\ Sound' /\ Grown /\ DuesOK
  BY <1>1, ScanFileSound, SessionStays DEF InOrder, Sound
<1>3. ShownInOrder'
  BY <1>1, <1>2, ShownInOrderStays DEF Going
<1>4. AllShown'
  BY <1>1 DEF AllShown
<1>5. NextScan.hidden = scan.hidden
  BY <1>1, <1>2, NextScanIs
<1>6. \A h : Found(NextScan, h) <=> Found(scan, h)
  BY <1>5 DEF Found
<1>7. PICK s : s = scan'
  OBVIOUS
<1>8. \A h : (Found(s, h)' <=> Found(s, h)) /\ (Found(s, h) <=> Found(scan, h)) /\ (Found(scan, h)' <=> Found(s, h))
  BY <1>1, <1>6, <1>7 DEF Found
<1>9. DuesOK'
  <2>1. (Started' <=> Started) /\ (Going' <=> Going)
    BY <1>1 DEF Started, Going
  <2> QED BY <1>1, <1>2, <1>8, <2>1 DEF DuesOK
<1>10. ScanInOrder'
  <2>1. SUFFICES ASSUME Hopeful(scan)' PROVE Arranged(scan, due)'
    BY DEF ScanInOrder
  <2>2. PICK D : D = due
    OBVIOUS
  <2>3. calm /\ Hopeful(scan)
    BY <1>1, <1>8, <2>1 DEF Hopeful
  <2>4. Arranged(scan, due)
    BY <1>1, <2>3 DEF InOrder, ScanInOrder
  <2>5. \A h \in due : Found(scan, h)
    BY <1>1, <1>2, <2>3 DEF DuesOK, Started, Going
  <2>6. Arranged(s, D) /\ SearchOK(s)
    BY <1>1, <1>2, <1>7, <2>2, <2>3, <2>4, <2>5, FileArranged, FileSearched
  <2>7. D \in SUBSET Matches
    BY <1>2, <2>2 DEF Sound, ShownOK
  <2>8. Arranged(s, D)'
    BY <1>1, <1>2, <2>6, <2>7, ArrangedStays
  <2> QED BY <1>1, <1>7, <2>2, <2>8 DEF Arranged, TidyGroup, Leads, Covered, Enough
<1> QED BY <1>2, <1>3, <1>4, <1>9, <1>10 DEF InOrder

LEMMA InitInOrder == Init => InOrder
<1> SUFFICES ASSUME Init PROVE InOrder
  OBVIOUS
<1>1. Sound
  BY InitSound
<1> QED BY <1>1 DEF Init, InOrder, DuesOK, ShownInOrder, ScanInOrder, AllShown, Started

\* The cursor behind a page names its last fragment, and where that ends.
LEMMA NextCursor ==
  ASSUME Sound, NEW room \in Rooms, Deliver(room), walk' # "done"
  PROVE  /\ Parts(room).next # NoCursor /\ walk' = "ready"
         /\ Len(page') \in Nat /\ Len(page') > 0
         /\ cursor'.hit = page'[Len(page')].hit /\ cursor'.offset = page'[Len(page')].to
         /\ page'[Len(page')].hit \in Matches
         /\ Offset(cursor'.hit) < cursor'.offset
<1>1. PICK p : p = Parts(room)
  OBVIOUS
<1>2. /\ Scanned /\ page' = p.parts /\ p.next # NoCursor /\ walk' = "ready" /\ cursor' = p.next
      /\ Filled(Ranked(scan), RankedLen, RankedLen, p)
  BY <1>1, DeliverIs
<1>3. PICK m : m = Len(p.parts)
  OBVIOUS
<1>4. /\ m \in Nat /\ m > 0
      /\ \A i \in 1..m :
           /\ p.parts[i].hit = Ranked(scan)[i] /\ Ranked(scan)[i] \in Matches
           /\ Offset(Ranked(scan)[i]) < p.parts[i].to
      /\ p.next = [hit |-> Ranked(scan)[m], offset |-> p.parts[m].to]
  BY <1>2, <1>3, PageEnds
<1>5. m \in 1..m
  BY <1>4
<1>6. cursor'.hit = Ranked(scan)[m] /\ cursor'.offset = p.parts[m].to
  BY <1>2, <1>4
<1> QED BY <1>1, <1>2, <1>3, <1>4, <1>5, <1>6

LEMMA DeliverInOrder ==
  ASSUME InOrder, NEW room \in Rooms, Deliver(room)
  PROVE  InOrder'
<1>1. Sound /\ Sound' /\ DuesOK
  BY DeliverSound DEF InOrder
<1>2. /\ Scanned /\ ~Lost /\ UNCHANGED sessionVars /\ all' = all /\ due' = due /\ calm' = calm
      /\ (walk' = "done" /\ Parts(room).next = NoCursor) \/ walk' = "ready"
      /\ order' = order /\ branch' = branch /\ active' = active
  BY <1>1, DeliverIs DEF sessionVars
<1>3. /\ walk = "scanning" /\ Going /\ Started /\ Grown /\ SessionOK /\ due \subseteq Matches
      /\ cursor = NoCursor => \A h \in Hit : shown[h] = 0
  BY <1>1, <1>2, SessionStays DEF Sound, ShownOK, Scanned, Going, Started
<1>4. DuesOK'
  BY <1>1, <1>2, <1>3 DEF DuesOK, Going
<1>5. ScanInOrder'
  BY <1>2 DEF ScanInOrder
<1>6. \A h \in due : SizeOf(h)' = SizeOf(h)
  BY <1>3 DEF Grown
<1>7. ASSUME calm
      PROVE  /\ \A i \in 1..Len(page') : shown'[page'[i].hit] = page'[i].to /\ page'[i].hit \in Matches
             /\ \A h \in Hit : (\A i \in 1..Len(page') : page'[i].hit # h) => shown'[h] = shown[h]
             /\ \A i, j \in 1..Len(page') : i < j => Ahead(page'[i].hit, page'[j].hit)
             /\ cursor # NoCursor => \A i \in 1..Len(page') :
                  page'[i].hit = cursor.hit \/ Ahead(cursor.hit, page'[i].hit)
             /\ \A h \in due :
                  \/ shown'[h] = SizeOf(h)
                  \/ Parts(room).next # NoCursor /\ \A i \in 1..Len(page') : page'[i].hit = h \/ Ahead(page'[i].hit, h)
  BY <1>7, PageInOrder
<1>8. AllShown'
  BY <1>2, <1>6, <1>7 DEF AllShown
<1>9. ShownInOrder'
  <2>1. PICK d : d = cursor'
    OBVIOUS
  <2>2. PICK c : c = d.hit
    OBVIOUS
  <2>. SUFFICES ASSUME calm, walk' = "ready"
                PROVE  /\ shown'[c] = d.offset
                       /\ \A h \in Hit : shown'[h] > 0 => h = c \/ Ahead(h, c)'
                       /\ \A h \in due : Ahead(h, c)' => shown'[h] = SizeOf(h)
    <3>1. \A h : Ahead(h, cursor.hit)' <=> Ahead(h, c)'
      BY <2>1, <2>2 DEF Ahead, PriorityOf
    <3> QED BY <1>2, <1>6, <2>1, <2>2, <3>1 DEF ShownInOrder, Going
  <2>3. PICK m : m = Len(page')
    OBVIOUS
  <2>4. /\ m \in Nat /\ m > 0 /\ m \in 1..m /\ c = page'[m].hit /\ d.offset = page'[m].to
        /\ c \in Matches
    BY <1>1, <2>1, <2>2, <2>3, NextCursor
  <2>5. shown'[c] = d.offset
    BY <1>7, <2>1, <2>3, <2>4
  <2>6. ASSUME NEW h \in Hit, shown'[h] > 0 PROVE h = c \/ Ahead(h, c)
    <3>1. CASE \E i \in 1..m : page'[i].hit = h
      <4>1. PICK i \in 1..m : page'[i].hit = h
        BY <3>1
      <4>2. i < m \/ i = m
        BY <2>4
      <4> QED BY <1>7, <2>1, <2>3, <2>4, <4>1, <4>2
    <3>2. CASE \A i \in 1..m : page'[i].hit # h
      <4>1. shown[h] > 0
        BY <1>7, <2>1, <2>3, <2>6, <3>2
      <4>2. cursor # NoCursor
        BY <1>3, <4>1
      <4>3. /\ h = cursor.hit \/ Ahead(h, cursor.hit)
            /\ h \in Matches /\ cursor.hit \in Matches
        BY <1>1, <1>3, <2>1, <4>1, <4>2 DEF InOrder, ShownInOrder, Sound, ShownOK, WalkOK, CursorOK
      <4>4. c = cursor.hit \/ Ahead(cursor.hit, c)
        BY <1>7, <2>1, <2>3, <2>4, <4>2
      <4> QED BY <1>3, <2>4, <4>3, <4>4, AheadIs
    <3> QED BY <3>1, <3>2
  <2>7. ASSUME NEW h \in due, Ahead(h, c) PROVE shown'[h] = SizeOf(h)
    <3>1. SUFFICES ASSUME \A i \in 1..m : page'[i].hit = h \/ Ahead(page'[i].hit, h) PROVE FALSE
      BY <1>7, <2>1, <2>3
    <3>2. c = h \/ Ahead(c, h)
      BY <2>4, <3>1
    <3> QED BY <1>3, <2>4, <2>7, <3>2, AheadIs
  <2>8. \A h \in Matches : Ahead(h, c)' <=> Ahead(h, c)
    BY <1>2, <1>3, <2>4, OrderStays
  <2>9. \A h \in Hit : shown'[h] > 0 => h \in Matches
    BY <1>1, <1>2 DEF Sound, ShownOK, sessionVars, Matches, Positions
  <2>10. /\ \A h \in Hit : shown'[h] > 0 => h = c \/ Ahead(h, c)'
         /\ \A h \in due : Ahead(h, c)' => shown'[h] = SizeOf(h)
    BY <1>3, <2>6, <2>7, <2>8, <2>9
  <2> QED BY <2>5, <2>10
<1> QED BY <1>1, <1>4, <1>5, <1>8, <1>9 DEF InOrder

LEMMA InOrderStep == InOrder /\ [Next]_vars => InOrder'
<1> SUFFICES ASSUME InOrder, [Next]_vars PROVE InOrder'
  OBVIOUS
<1>1. CASE \E limit \in Limits : SearchArchive(limit) \/ SearchBranch(limit)
  BY <1>1, SearchInOrder
<1>2. CASE ScanFile
  BY <1>2, ScanFileInOrder
<1>3. CASE Fail \/ Refuse
  BY <1>3, FailInOrder
<1>4. CASE \E room \in Rooms : Deliver(room)
  BY <1>4, DeliverInOrder
<1>5. CASE \E f \in Files : Write(f)
  BY <1>5, WriteInOrder
<1>6. CASE Leave \/ Navigate \/ UNCHANGED vars
  BY <1>6, MoveInOrder
<1> QED BY <1>1, <1>2, <1>3, <1>4, <1>5, <1>6 DEF Next

LEMMA AlwaysInOrder == Spec => []InOrder
<1>1. InOrder /\ [Next]_vars => InOrder'
  BY InOrderStep
<1> QED BY <1>1, InitInOrder, PTL DEF Spec

(* A walk to its last page shows every hit there was when it began, whole, *)
(* however its pages cut the hits (history-pages.ts:24).                   *)
THEOREM NothingIsLeftOut == Spec => []AllShown
<1>1. InOrder => AllShown
  BY DEF InOrder
<1> QED BY <1>1, AlwaysInOrder, PTL

LEMMA OthersKeepThePage ==
  ASSUME [Next]_vars, \A room \in Rooms : ~Deliver(room)
  PROVE  page' = page /\ cursor' = cursor
<1>1. CASE \E limit \in Limits : SearchArchive(limit) \/ SearchBranch(limit)
  BY <1>1 DEF SearchArchive, SearchBranch
<1>2. CASE ScanFile
  BY <1>2 DEF ScanFile, historyVars
<1>3. CASE Fail \/ Refuse
  BY <1>3 DEF Fail, Refuse, historyVars
<1>4. CASE \E f \in Files : Write(f)
  BY <1>4 DEF Write
<1>5. CASE Leave \/ Navigate
  BY <1>5 DEF Leave, Navigate, historyVars
<1>6. CASE UNCHANGED vars
  BY <1>6 DEF vars
<1> QED BY <1>1, <1>2, <1>3, <1>4, <1>5, <1>6 DEF Next

\* The action properties of a walk, as steps.
Continues == calm => \A i \in DOMAIN page' : page' = page \/ page'[i].from = shown[page'[i].hit]

Prefers ==
  calm /\ page' # page /\ (\E i \in DOMAIN page' : PriorityOf(page'[i].hit) = 1)
    => \A h \in due : PriorityOf(h) = 0 => shown'[h] = SizeOf(h)

Advances == calm /\ cursor # NoCursor /\ cursor' # cursor => Precedes(cursor, cursor')

LEMMA PagePositions ==
  ASSUME Sound, NEW room \in Rooms, Deliver(room)
  PROVE  DOMAIN page' = 1..Len(page') /\ Len(page') \in Nat
<1>1. page' \in Seq(Fragments)
  BY DeliverIs
<1> QED BY <1>1

LEMMA StepContinues == InOrder /\ [Next]_vars => Continues
<1> SUFFICES ASSUME InOrder, [Next]_vars, calm, page' # page, NEW i \in DOMAIN page'
             PROVE  page'[i].from = shown[page'[i].hit]
  BY DEF Continues
<1>1. PICK room \in Rooms : Deliver(room)
  BY OthersKeepThePage
<1>2. i \in 1..Len(page')
  BY <1>1, PagePositions DEF InOrder
<1> QED BY <1>1, <1>2, PageInOrder

LEMMA StepPrefers == InOrder /\ [Next]_vars => Prefers
<1> SUFFICES ASSUME InOrder, [Next]_vars, calm, page' # page,
                    NEW i \in DOMAIN page', PriorityOf(page'[i].hit) = 1,
                    NEW h \in due, PriorityOf(h) = 0
             PROVE  shown'[h] = SizeOf(h)
  BY DEF Prefers
<1>1. PICK room \in Rooms : Deliver(room)
  BY OthersKeepThePage
<1>2. i \in 1..Len(page')
  BY <1>1, PagePositions DEF InOrder
<1>3. shown'[h] = SizeOf(h) \/ page'[i].hit = h \/ Ahead(page'[i].hit, h)
  BY <1>1, <1>2, PageInOrder
<1> QED BY <1>3 DEF Ahead

LEMMA StepAdvances == InOrder /\ [Next]_vars => Advances
<1> SUFFICES ASSUME InOrder, [Next]_vars, calm, cursor # NoCursor, cursor' # cursor
             PROVE  Precedes(cursor, cursor')
  BY DEF Advances
<1>1. PICK room \in Rooms : Deliver(room)
  BY OthersKeepThePage
<1>2. Sound /\ SessionOK /\ LogOK
  BY DEF InOrder, Sound, SessionOK
<1>3. walk' # "done"
  BY <1>1, <1>2, DeliverIs
<1>4. PICK c : c = cursor'
  OBVIOUS
<1>5. PICK m : m = Len(page')
  OBVIOUS
<1>6. /\ m \in 1..m /\ c.hit = page'[m].hit /\ c.hit \in Matches
      /\ Offset(c.hit) < c.offset
  BY <1>1, <1>2, <1>3, <1>4, <1>5, NextCursor
<1>7. c.hit = cursor.hit \/ Ahead(cursor.hit, c.hit)
  BY <1>1, <1>5, <1>6, PageInOrder
<1>8. CASE c.hit = cursor.hit
  <2>1. cursor.offset < c.offset
    BY <1>6, <1>8 DEF Offset, Anchor
  <2> QED BY <1>4, <1>8, <2>1 DEF Precedes
<1>9. CASE Ahead(cursor.hit, c.hit)
  <2>1. CASE all
    BY <1>4, <1>9, <2>1 DEF Precedes, Ahead, Place
  <2>2. CASE ~all
    BY <1>4, <1>9, <2>2 DEF Precedes, Ahead, Place
  <2> QED BY <2>1, <2>2
<1> QED BY <1>7, <1>8, <1>9

(* A page goes on where the pages before it stopped, in every hit that it  *)
(* shows: no character is left out or shown twice (history-pages.ts:47).   *)
THEOREM PagesContinue == Spec => ContinuesExactly
<1>1. Spec => [][Continues]_vars
  BY StepContinues, AlwaysInOrder, PTL DEF Spec
<1> QED BY <1>1, PTL DEF ContinuesExactly, Continues

(* An echo is shown only when no original is left to show, however recent  *)
(* the echo is (docs/reference.md:122).                                    *)
THEOREM EchoesWait == Spec => OriginalsFirst
<1>1. Spec => [][Prefers]_vars
  BY StepPrefers, AlwaysInOrder, PTL DEF Spec
<1> QED BY <1>1, PTL DEF OriginalsFirst, Prefers

(* Every cursor lies behind the one before it, so what is appended while a *)
(* walk goes on cannot keep it alive (docs/reference.md:122).              *)
THEOREM CursorsAdvance == Spec => CursorAdvances
<1>1. Spec => [][Advances]_vars
  BY StepAdvances, AlwaysInOrder, PTL DEF Spec
<1> QED BY <1>1, PTL DEF CursorAdvances, Advances
============================================================================
