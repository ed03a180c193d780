------------------------ MODULE ReminderLookupProofs ------------------------
(***************************************************************************)
(* Proofs about ReminderLookup for any sessions and policies, and trees of *)
(* any size.                                                               *)
(***************************************************************************)
EXTENDS ReminderLookup, FiniteSetTheorems, WellFoundedInduction, TLAPS

----------------------------------------------------------------------------
(* The last of a set of entries. *)

LEMMA Least ==
  ASSUME NEW T \in SUBSET Nat, NEW n \in T
  PROVE  \E x \in T : \A y \in T : x <= y
<1> DEFINE Below == OpToRel(<, Nat)
<1>1. Below = {ss \in Nat \X Nat : ss[1] < ss[2]}
  BY DEF OpToRel
<1>2. IsWellFoundedOn(Below, Nat)
  BY NatLessThanWellFounded
<1> HIDE DEF Below
<1>3. \A x, y \in Nat : y < x => <<y, x>> \in Below
  BY <1>1
<1>4. PICK x \in T : \A y \in T : ~ (<<y, x>> \in Below)
  BY <1>2, WFMin
<1>5. \A y \in T : ~ (y < x)
  BY <1>3, <1>4
<1>6. \A y \in T : x <= y
  BY <1>5
<1> QED BY <1>6

LEMMA LastFacts ==
  ASSUME NEW n \in Nat, NEW S \in SUBSET (1..n), S # {}
  PROVE  LastOf(S) \in S /\ \A e \in S : e <= LastOf(S)
<1> DEFINE Gaps == {n - e : e \in S}
<1>1. Gaps \in SUBSET Nat /\ \E g \in Gaps : TRUE
  OBVIOUS
<1>2. PICK g \in Gaps : \A h \in Gaps : g <= h
  BY <1>1, Least
<1>3. PICK e \in S : g = n - e
  BY <1>2
<1>4. \A f \in S : f <= e
  BY <1>2, <1>3
<1> QED BY <1>4 DEF LastOf

\* It is determined by the bound it is.
LEMMA LastUnique ==
  ASSUME NEW n \in Nat, NEW S \in SUBSET (1..n), NEW e \in S, \A f \in S : f <= e
  PROVE  LastOf(S) = e
<1>1. LastOf(S) \in S /\ e <= LastOf(S)
  BY LastFacts
<1>2. LastOf(S) <= e /\ LastOf(S) \in 1..n /\ e \in 1..n
  BY <1>1
<1> QED BY <1>1, <1>2

LEMMA LastNone == LastOf({}) = None
BY DEF LastOf

LEMMA LastIsNat ==
  ASSUME NEW n \in Nat, NEW S \in SUBSET (1..n)
  PROVE  LastOf(S) \in 0..n /\ (LastOf(S) = None <=> S = {})
<1>1. CASE S = {}
  BY <1>1, LastNone DEF None
<1>2. CASE S # {}
  <2>1. LastOf(S) \in S
    BY <1>2, LastFacts
  <2>2. LastOf(S) \in 1..n
    BY <2>1
  <2>3. LastOf(S) \in 0..n /\ LastOf(S) # 0
    BY <2>2
  <2> QED BY <1>2, <2>3 DEF None
<1> QED BY <1>1, <1>2

----------------------------------------------------------------------------
(* Two ways to the same answer. *)

Remembered(S) == {e \in Active(S) : IsReminder(e)}

\* The walk down a path may stop where the window and the kept range are known.
LEMMA RescanExact ==
  ASSUME NEW S \in SUBSET (1..Len(tree)), Len(tree) \in Nat
  PROVE  /\ LastWindow(Visited(S)) = LastWindow(S)
         /\ Remembered(Visited(S)) = Remembered(S)
<1> DEFINE stops == {e \in S : LastWindow(S) >= e /\ Kept(S, e)}
<1>1. CASE stops = {}
  BY <1>1 DEF Visited
<1>2. CASE stops # {}
  <2> DEFINE j == LastOf(stops)
             V == {e \in S : e >= j}
             b == LastBoundary(S)
             w == LastWindow(S)
  <2>1. stops \in SUBSET (1..Len(tree))
    OBVIOUS
  <2>2. j \in stops
    BY <1>2, <2>1, LastFacts
  <2>3. Visited(S) = V
    BY <1>2 DEF Visited
  <2>4. w \in 0..Len(tree) /\ b \in 0..Len(tree)
    BY LastIsNat DEF LastWindow, LastBoundary
  <2>5. j \in S /\ w >= j /\ b # None /\ j <= b
    BY <2>2 DEF Kept
  <2>6. w \in Nat /\ b \in Nat /\ j \in Nat /\ w # None
         /\ \A e \in S : e \in Nat
    <3>1. \A e \in S : e \in Nat /\ 0 < e
      OBVIOUS
    <3> HIDE DEF w, b, j
    <3>2. w \in Nat /\ b \in Nat /\ j \in Nat /\ 0 < j /\ w >= j
      BY <2>4, <2>5, <3>1
    <3> QED BY <3>1, <3>2 DEF None
  <2>7. w \in {e \in S : IsWindow(e)} /\ \A e \in S : IsWindow(e) => e <= w
    <3> DEFINE W == {e \in S : IsWindow(e)}
    <3>1. W \in SUBSET (1..Len(tree)) /\ W # {}
      BY <2>6, LastNone DEF LastWindow
    <3> QED BY <3>1, LastFacts DEF LastWindow
  <2>8. b \in {e \in S : IsBoundary(e)} /\ \A e \in S : IsBoundary(e) => e <= b
    <3> DEFINE B == {e \in S : IsBoundary(e)}
    <3>1. B \in SUBSET (1..Len(tree)) /\ B # {}
      BY <2>5, LastNone DEF LastBoundary
    <3> QED BY <3>1, LastFacts DEF LastBoundary
  <2>9. LastWindow(V) = w
    <3>1. w \in {e \in V : IsWindow(e)} /\ \A e \in {f \in V : IsWindow(f)} : e <= w
      BY <2>5, <2>7
    <3>2. {e \in V : IsWindow(e)} \in SUBSET (1..Len(tree))
      OBVIOUS
    <3> HIDE DEF V, w
    <3> QED BY <3>1, <3>2, LastUnique DEF LastWindow
  <2>10. LastBoundary(V) = b
    <3>1. b \in {e \in V : IsBoundary(e)} /\ \A e \in {f \in V : IsBoundary(f)} : e <= b
      BY <2>4, <2>5, <2>8
    <3>2. {e \in V : IsBoundary(e)} \in SUBSET (1..Len(tree))
      OBVIOUS
    <3> HIDE DEF V, b
    <3> QED BY <3>1, <3>2, LastUnique DEF LastBoundary
  <2>11. tree[b].kind = "legacy" \/ (tree[b].kept \in S /\ j <= tree[b].kept)
    BY <2>2 DEF Kept
  <2>12. Active(V) = Active(S)
    <3>1. CASE tree[b].kind = "legacy"
      <4>1. Active(V) = {e \in V : e > b}
        BY <2>5, <2>10, <3>1 DEF Active
      <4>2. Active(S) = {e \in S : e > b}
        BY <2>5, <3>1 DEF Active
      <4>3. \A e \in S : e > b => e >= j
        <5> HIDE DEF b, j
        <5> QED BY <2>5, <2>6
      <4> QED BY <4>1, <4>2, <4>3
    <3>2. CASE tree[b].kind # "legacy"
      <4>1. tree[b].kept \in S /\ tree[b].kept \in V /\ j <= tree[b].kept
        BY <2>11, <3>2
      <4>2. Active(V) = {e \in V : e >= tree[b].kept}
        BY <2>5, <2>10, <3>2, <4>1 DEF Active
      <4>3. Active(S) = {e \in S : e >= tree[b].kept}
        BY <2>5, <3>2, <4>1 DEF Active
      <4>4. \A e \in S : e >= tree[b].kept => e >= j
        BY <2>5, <4>1
      <4> QED BY <4>2, <4>3, <4>4
    <3> QED BY <3>1, <3>2
  <2> QED BY <2>3, <2>9, <2>12 DEF Remembered
<1> QED BY <1>1, <1>2

\* Below a known answer only the reminders since then are missing.
LEMMA ExtensionExact ==
  ASSUME NEW S \in SUBSET (1..Len(tree)), Len(tree) \in Nat,
         NEW p \in S, LastBoundary(S) <= p,
         \A e \in S : tree[e].kept \in Nat /\ tree[e].kept < e,
         NEW P, P = {e \in S : e <= p}
  PROVE  /\ LastWindow(S) = LastWindow(P)
         /\ Remembered(S) = Remembered(P) \cup {e \in S : e > p /\ IsReminder(e)}
<1> DEFINE b == LastBoundary(S)
<1>0. p \in Nat /\ \A e \in S : e \in Nat
  OBVIOUS
<1>1. b \in 0..Len(tree) /\ (b = None <=> {e \in S : IsBoundary(e)} = {})
  BY LastIsNat DEF LastBoundary
<1>2. \A e \in S : IsBoundary(e) => e <= p
  <2>1. CASE b = None
    BY <1>1, <2>1
  <2>2. CASE b # None
    <3> DEFINE B == {e \in S : IsBoundary(e)}
    <3>1. B \in SUBSET (1..Len(tree)) /\ B # {}
      BY <1>1, <2>2
    <3>2. \A e \in B : e <= b
      BY <3>1, LastFacts DEF LastBoundary
    <3> QED BY <1>1, <3>2
  <2> QED BY <2>1, <2>2
<1>3. {e \in S : IsBoundary(e)} = {e \in P : IsBoundary(e)}
  BY <1>2
<1>4. {e \in S : IsWindow(e)} = {e \in P : IsWindow(e)}
  BY <1>2 DEF IsWindow, IsBoundary, Boundaries
<1>5. LastBoundary(P) = b /\ LastWindow(S) = LastWindow(P)
  BY <1>3, <1>4 DEF LastBoundary, LastWindow
<1>6. b # None => b \in S /\ b <= p
  <2> DEFINE B == {e \in S : IsBoundary(e)}
  <2>1. B \in SUBSET (1..Len(tree))
    OBVIOUS
  <2> QED BY <1>1, <2>1, LastFacts DEF LastBoundary
<1> HIDE DEF b
<1>7. CASE b = None
  <2>1. Active(S) = S /\ Active(P) = P
    BY <1>5, <1>7 DEF Active, b
  <2>2. \A e \in S : e <= p \/ e > p
    BY <1>0
  <2> QED BY <1>5, <2>1, <2>2 DEF Remembered
<1>8. CASE b # None /\ tree[b].kind # "legacy" /\ tree[b].kept \in S
  <2>1. tree[b].kept \in P /\ tree[b].kept < b
    BY <1>1, <1>6, <1>8
  <2>2. Active(S) = {e \in S : e >= tree[b].kept}
    BY <1>8 DEF Active, b
  <2>3. Active(P) = {e \in P : e >= tree[b].kept}
    BY <1>5, <1>8, <2>1 DEF Active
  <2>4. \A e \in S : e > p => e >= tree[b].kept
    BY <1>1, <1>6, <1>8, <2>1
  <2>5. \A e \in S : (e >= tree[b].kept) <=> (e <= p /\ e >= tree[b].kept) \/ e > p
    BY <1>0, <2>4
  <2>6. Active(S) = Active(P) \cup {e \in S : e > p}
    BY <2>2, <2>3, <2>5
  <2> QED BY <1>5, <2>6 DEF Remembered
<1>9. CASE b # None /\ ~(tree[b].kind # "legacy" /\ tree[b].kept \in S)
  <2>1. Active(S) = {e \in S : e > b}
    BY <1>9 DEF Active, b
  <2>2. Active(P) = {e \in P : e > b}
    BY <1>5, <1>9 DEF Active
  <2>3. \A e \in S : e > p => e > b
    BY <1>1, <1>6, <1>9
  <2>4. \A e \in S : (e > b) <=> (e <= p /\ e > b) \/ e > p
    BY <1>0, <2>3
  <2>5. Active(S) = Active(P) \cup {e \in S : e > p}
    BY <2>1, <2>2, <2>4
  <2> QED BY <1>5, <2>5 DEF Remembered
<1> QED BY <1>7, <1>8, <1>9

----------------------------------------------------------------------------
(* The invariant. *)

\* Numbers grow along a path, and the path of an ancestor is a prefix.
Ancestry ==
  \A e \in 1..Len(tree) :
    /\ e \in tree[e].path
    /\ tree[e].kept < e
    /\ \A a \in tree[e].path : a <= e /\ tree[a].path = {x \in tree[e].path : x <= a}

PathOf(l) == IF l = None THEN {} ELSE tree[l].path

\* A state whose leaf is an entry object of the tree has the facts of its path.
Certified ==
  cache # Undefined =>
    /\ cache.load <= load
    /\ (cache.leaf = None \/ cache.load = load) =>
         /\ cache.leaf \in 0..Len(tree)
         /\ cache.windowId = LastWindow(PathOf(cache.leaf))
         /\ cache.reminders = Remembered(PathOf(cache.leaf))

Exact(state) ==
  /\ state.windowId = LastWindow(Path)
  /\ state.reminders = Remembered(Path)

LEMMA TreeFacts ==
  ASSUME TypeOK
  PROVE  /\ Len(tree) \in Nat /\ leaf \in 0..Len(tree)
         /\ \A e \in 1..Len(tree) :
              /\ tree[e] \in Entries /\ tree[e].kept \in Nat
              /\ tree[e].path \in SUBSET (1..MaxEntries)
<1>1. tree \in Seq(Entries) /\ leaf \in 0..Len(tree)
  BY DEF TypeOK
<1>2. Len(tree) \in Nat /\ \A e \in 1..Len(tree) : tree[e] \in Entries
  BY <1>1
<1>3. \A x \in Entries : x.kept \in Nat /\ x.path \in SUBSET (1..MaxEntries)
  BY BoundsAssumption DEF Entries
<1> QED BY <1>1, <1>2, <1>3

LEMMA PathFacts ==
  ASSUME TypeOK, Ancestry, NEW l \in 0..Len(tree)
  PROVE  /\ PathOf(l) \in SUBSET (1..Len(tree))
         /\ \A e \in PathOf(l) :
              /\ tree[e].kept \in Nat /\ tree[e].kept < e
              /\ PathOf(e) = {x \in PathOf(l) : x <= e}
<1>1. CASE l = None
  BY <1>1 DEF PathOf
<1>2. CASE l # None
  <2>1. l \in 1..Len(tree) /\ PathOf(l) = tree[l].path /\ Len(tree) \in Nat
    BY <1>2, TreeFacts DEF PathOf, None
  <2>2. \A e \in PathOf(l) : e \in 1..MaxEntries /\ e <= l
    BY <2>1, TreeFacts DEF Ancestry
  <2>3. \A e \in PathOf(l) : e \in 1..Len(tree) /\ e # None
    BY <2>1, <2>2, BoundsAssumption DEF None
  <2>4. \A e \in PathOf(l) : PathOf(e) = {x \in PathOf(l) : x <= e}
    BY <2>1, <2>3 DEF Ancestry, PathOf
  <2> QED BY <2>3, <2>4, TreeFacts DEF Ancestry
<1> QED BY <1>1, <1>2

\* The lookup is exact in every state of the invariant.
LEMMA ReadExact ==
  ASSUME TypeOK, Ancestry, Certified
  PROVE  Exact(Read)
<1>1. Path = PathOf(leaf) /\ leaf \in 0..Len(tree) /\ Len(tree) \in Nat
  BY TreeFacts DEF Path, PathOf
<1>2. Path \in SUBSET (1..Len(tree))
  BY <1>1, PathFacts
<1>3. CASE SameLeaf(Previous)
  <2>1. cache # Undefined /\ Previous = cache /\ cache.leaf = leaf
        /\ (cache.leaf = None \/ cache.load = load)
    BY <1>3 DEF SameLeaf, Previous
  <2> QED BY <1>1, <1>3, <2>1 DEF Certified, Exact, Read
<1>4. CASE ~SameLeaf(Previous) /\ Extends(Path, Previous)
  <2>1. /\ cache # Undefined /\ Previous = cache /\ cache.load = load
        /\ cache.leaf \in Path /\ LastBoundary(Path) <= cache.leaf
    BY <1>4 DEF Extends, Previous
  <2>2. cache.windowId = LastWindow(PathOf(cache.leaf))
        /\ cache.reminders = Remembered(PathOf(cache.leaf))
    BY <2>1 DEF Certified
  <2>3. /\ PathOf(cache.leaf) = {x \in Path : x <= cache.leaf}
        /\ \A e \in Path : tree[e].kept \in Nat /\ tree[e].kept < e
    BY <1>1, <2>1, PathFacts
  <2>4. LastWindow(Path) = LastWindow(PathOf(cache.leaf))
        /\ Remembered(Path) = Remembered(PathOf(cache.leaf))
                               \cup {e \in Path : e > cache.leaf /\ IsReminder(e)}
    BY <1>1, <1>2, <2>1, <2>3, ExtensionExact
  <2>5. Read = Extended(Path, cache)
    BY <1>4, <2>1 DEF Read
  <2> QED BY <2>2, <2>4, <2>5 DEF Extended, State, Exact
<1>5. CASE ~SameLeaf(Previous) /\ ~Extends(Path, Previous)
  <2>1. Read = Rescanned(Path)
    BY <1>5 DEF Read
  <2>2. Read.windowId = LastWindow(Visited(Path))
        /\ Read.reminders = Remembered(Visited(Path))
    BY <2>1 DEF Rescanned, State, Remembered
  <2> QED BY <1>1, <1>2, <2>2, RescanExact DEF Exact
<1> QED BY <1>3, <1>4, <1>5

\* The answer about a path does not change while its entries do not.
LEMMA FactsFrame ==
  ASSUME \A e \in 1..Len(tree) : tree'[e] = tree[e], Len(tree) \in Nat,
         NEW S \in SUBSET (1..Len(tree))
  PROVE  /\ LastWindow(S)' = LastWindow(S)
         /\ Remembered(S)' = Remembered(S)
<1>1. \A e \in S : tree'[e] = tree[e]
  OBVIOUS
<1>2. /\ {e \in S : IsWindow(e)}' = {e \in S : IsWindow(e)}
      /\ {e \in S : IsBoundary(e)}' = {e \in S : IsBoundary(e)}
  BY <1>1 DEF IsWindow, IsBoundary
<1>3. LastWindow(S)' = LastWindow(S) /\ LastBoundary(S)' = LastBoundary(S)
  BY <1>2 DEF LastWindow, LastBoundary
<1>4. LastBoundary(S) # None => LastBoundary(S) \in S
  <2> DEFINE B == {e \in S : IsBoundary(e)}
  <2>1. B \in SUBSET (1..Len(tree))
    OBVIOUS
  <2>2. B # {} => LastOf(B) \in B
    BY <2>1, LastFacts
  <2> QED BY <2>2, LastNone DEF LastBoundary
<1>5. Active(S)' = Active(S)
  BY <1>1, <1>3, <1>4 DEF Active
<1>6. \A e \in S : IsReminder(e)' <=> IsReminder(e)
  BY <1>1 DEF IsReminder
<1>7. Active(S) \subseteq S
  BY DEF Active
<1> QED BY <1>3, <1>5, <1>6, <1>7 DEF Remembered

\* The empty path has no window and no reminder.
LEMMA NoFacts == LastWindow({}) = None /\ Remembered({}) = {}
<1>1. LastWindow({}) = None /\ LastBoundary({}) = None
  BY LastNone DEF LastWindow, LastBoundary
<1> QED BY <1>1 DEF Remembered, Active

LEMMA Initially == Init => TypeOK /\ Ancestry /\ Certified
<1> SUFFICES ASSUME Init PROVE TypeOK /\ Ancestry /\ Certified
  OBVIOUS
<1>1. TypeOK
  BY BoundsAssumption DEF Init, TypeOK, None
<1>2. Ancestry /\ Certified
  BY DEF Init, Ancestry, Certified
<1> QED BY <1>1, <1>2

\* The state that a lookup leaves behind.
LEMMA ReadStep ==
  ASSUME TypeOK, Ancestry, Certified, cache' = Read,
         UNCHANGED <<session, tree, load, leaf>>
  PROVE  Certified' /\ Ancestry' /\ cache' \in States \cup {Undefined} /\ Read \in States
<1>1. Exact(Read)
  BY ReadExact
<1>2. Path = PathOf(leaf) /\ leaf \in 0..Len(tree) /\ Len(tree) \in Nat
  BY TreeFacts DEF Path, PathOf
<1>3. Read # Undefined /\ Read.leaf = leaf /\ Read.load <= load
      /\ Read.session = session
  <2>1. CASE SameLeaf(Previous)
    BY <2>1 DEF Read, SameLeaf, Previous, Certified
  <2>2. CASE ~SameLeaf(Previous)
    <3>1. \A w, r : State(w, r) # Undefined /\ State(w, r).leaf = leaf
                    /\ State(w, r).load = load /\ State(w, r).session = session
      BY DEF State, Undefined
    <3>2. load <= load
      BY DEF TypeOK
    <3> QED BY <2>2, <3>1, <3>2 DEF Read, Extended, Rescanned
  <2> QED BY <2>1, <2>2
<1>4. LastWindow(Path)' = LastWindow(Path) /\ Remembered(Path)' = Remembered(Path)
      /\ PathOf(leaf)' = PathOf(leaf)
  BY DEF LastWindow, LastBoundary, Remembered, Active, IsWindow, IsBoundary, IsReminder, Path, PathOf
<1>5. Certified'
  BY <1>1, <1>2, <1>3, <1>4 DEF Certified, Exact, Path, PathOf
<1>6. Ancestry'
  BY DEF Ancestry
<1>7. Read \in States
  <2>1. Path \in SUBSET (1..Len(tree)) /\ Path \in SUBSET (1..MaxEntries)
    BY <1>2, TreeFacts, PathFacts DEF TypeOK, PathOf, None
  <2>2. LastWindow(Path) \in 0..MaxEntries
    BY <2>1, LastIsNat, BoundsAssumption DEF LastWindow
  <2>3. Remembered(Path) \in SUBSET (1..MaxEntries)
    BY <2>1 DEF Remembered, Active
  <2>4. CASE SameLeaf(Previous)
    BY <2>4 DEF Read, SameLeaf, Previous, TypeOK
  <2>5. CASE ~SameLeaf(Previous)
    <3>1. PICK w, r : Read = State(w, r)
      BY <2>5 DEF Read, Extended, Rescanned
    <3>2. w \in 0..MaxEntries /\ r \in SUBSET (1..MaxEntries)
      BY <1>1, <2>2, <2>3, <3>1 DEF Exact, State
    <3>3. session \in Sessions /\ load \in 0..MaxLoads /\ leaf \in 0..MaxEntries
      BY BoundsAssumption, <1>2 DEF TypeOK
    <3> QED BY <3>1, <3>2, <3>3 DEF State, States
  <2> QED BY <2>4, <2>5
<1> QED BY <1>5, <1>6, <1>7

----------------------------------------------------------------------------
(* The steps. *)

IInv == TypeOK /\ Ancestry /\ Certified

\* What an append below the leaf leaves of the invariant.
LEMMA AppendStep ==
  ASSUME IInv, NEW kind \in Kinds, NEW kept \in 0..Len(tree),
         NEW details \in Fingerprints \cup {NoReminder},
         AppendEntry(New(kind, kept, details)), queue' \in Seq(Fingerprints)
  PROVE  IInv'
<1> DEFINE n == Len(tree) + 1
           entry == New(kind, kept, details)
<1>1. TypeOK /\ Ancestry /\ Certified
  BY DEF IInv
<1>2. Len(tree) \in Nat /\ leaf \in 0..Len(tree) /\ Path = PathOf(leaf)
  BY <1>1, TreeFacts DEF Path, PathOf
<1>3. Path \in SUBSET (1..Len(tree)) /\ \A e \in Path : PathOf(e) = {x \in Path : x <= e}
  BY <1>1, <1>2, PathFacts
<1>4. n <= MaxEntries /\ tree' = Append(tree, entry) /\ leaf' = n
      /\ UNCHANGED <<session, load, policy, cache>> /\ shown' = {}
  BY <1>2, BoundsAssumption DEF AppendEntry
<1>5. entry.path = Path \cup {n} /\ entry.kept = kept /\ entry \in Entries
  BY <1>2, <1>3, <1>4, BoundsAssumption DEF New, Entries
<1> HIDE DEF entry
<1>6. /\ Len(tree') = n /\ tree'[n] = entry
      /\ \A e \in 1..Len(tree) : tree'[e] = tree[e]
      /\ tree' \in Seq(Entries)
  BY <1>1, <1>4, <1>5 DEF TypeOK
<1>7. TypeOK'
  BY <1>1, <1>2, <1>4, <1>6 DEF TypeOK
<1>8. Ancestry'
  <2> SUFFICES ASSUME NEW e \in 1..n
               PROVE  /\ e \in tree'[e].path
                      /\ tree'[e].kept < e
                      /\ \A a \in tree'[e].path :
                           a <= e /\ tree'[a].path = {x \in tree'[e].path : x <= a}
    BY <1>6 DEF Ancestry
  <2>1. CASE e = n
    <3>1. \A a \in Path : a \in 1..Len(tree) /\ a # None /\ tree'[a].path = {x \in Path : x <= a}
      BY <1>3, <1>6 DEF PathOf, None
    <3>2. \A a \in Path : {x \in Path \cup {n} : x <= a} = {x \in Path : x <= a}
      BY <1>2, <1>3
    <3>3. {x \in Path \cup {n} : x <= n} = Path \cup {n}
      BY <1>2, <1>3
    <3>4. n \notin Path /\ kept < n /\ \A a \in Path : a <= n
      BY <1>2, <1>3
    <3> QED BY <1>5, <1>6, <2>1, <3>1, <3>2, <3>3, <3>4
  <2>2. CASE e # n
    <3>1. e \in 1..Len(tree)
      BY <1>2, <2>2
    <3>2. PathOf(e) \in SUBSET (1..Len(tree)) /\ PathOf(e) = tree[e].path
      BY <1>1, <1>2, <3>1, PathFacts DEF PathOf, None
    <3> QED BY <1>1, <1>6, <3>1, <3>2 DEF Ancestry
  <2> QED BY <2>1, <2>2
<1>9. Certified'
  <2> SUFFICES ASSUME cache # Undefined, cache.leaf = None \/ cache.load = load
               PROVE  /\ cache.leaf \in 0..n
                      /\ cache.windowId = LastWindow(PathOf(cache.leaf))'
                      /\ cache.reminders = Remembered(PathOf(cache.leaf))'
    BY <1>1, <1>4, <1>6 DEF Certified
  <2>1. /\ cache.leaf \in 0..Len(tree)
        /\ cache.windowId = LastWindow(PathOf(cache.leaf))
        /\ cache.reminders = Remembered(PathOf(cache.leaf))
    BY <1>1 DEF Certified
  <2>2. PICK S \in SUBSET (1..Len(tree)) : S = PathOf(cache.leaf)
    BY <1>1, <2>1, PathFacts
  <2>3. PathOf(cache.leaf)' = S
    BY <1>2, <1>4, <1>6, <2>1, <2>2 DEF PathOf, None
  <2>4. LastWindow(S)' = LastWindow(S) /\ Remembered(S)' = Remembered(S)
    BY <1>2, <1>6, FactsFrame
  <2>5. LastWindow(PathOf(cache.leaf))' = LastWindow(S)'
        /\ Remembered(PathOf(cache.leaf))' = Remembered(S)'
    BY <2>3 DEF LastWindow, LastBoundary, Remembered, Active
  <2> QED BY <1>2, <2>1, <2>2, <2>4, <2>5
<1> QED BY <1>7, <1>8, <1>9 DEF IInv

LEMMA AppendsStep ==
  ASSUME IInv,
         \/ AppendMessage \/ AppendLegacyWindow \/ Deliver
         \/ \E kind \in {"native", "posthorse"}, kept \in 0..MaxEntries : Compact(kind, kept)
  PROVE  IInv'
<1>1. TypeOK /\ Ancestry /\ Len(tree) \in Nat /\ leaf \in 0..Len(tree)
  BY TreeFacts DEF IInv
<1>2. None \in 0..Len(tree) /\ NoReminder \in Fingerprints \cup {NoReminder}
      /\ queue \in Seq(Fingerprints)
  BY <1>1 DEF TypeOK, None
<1>3. CASE AppendMessage
  BY <1>2, <1>3, AppendStep DEF AppendMessage, Kinds
<1>4. CASE AppendLegacyWindow
  BY <1>2, <1>4, AppendStep DEF AppendLegacyWindow, Kinds
<1>5. CASE Deliver
  <2>1. Head(queue) \in Fingerprints /\ queue' \in Seq(Fingerprints)
    BY <1>2, <1>5 DEF Deliver
  <2> QED BY <1>2, <1>5, <2>1, AppendStep DEF Deliver, Kinds
<1>6. ASSUME NEW kind \in {"native", "posthorse"}, NEW kept \in 0..MaxEntries,
             Compact(kind, kept)
      PROVE  IInv'
  <2>1. Path = PathOf(leaf)
    BY DEF Path, PathOf
  <2>2. Path \in SUBSET (1..Len(tree))
    BY <1>1, <2>1, PathFacts
  <2>3. kept \in 0..Len(tree)
    BY <1>1, <1>2, <1>6, <2>2 DEF Compact, Active
  <2> QED BY <1>2, <1>6, <2>3, AppendStep DEF Compact, Kinds
<1> QED BY <1>3, <1>4, <1>5, <1>6

\* Moves of the leaf, the session and the policy leave cached facts valid, or
\* uncertified.
LEMMA MovesStep ==
  ASSUME IInv,
         \/ Reset \/ Reload
         \/ \E e \in 0..Len(tree) : Navigate(e)
         \/ \E s \in Sessions : Switch(s) \/ Fork(s)
         \/ \E p \in Budgets \cup {Off} : ChangePolicy(p)
         \/ UNCHANGED vars
  PROVE  IInv'
<1>1. TypeOK /\ Ancestry /\ Certified /\ Len(tree) \in Nat /\ load \in Nat
  BY TreeFacts, BoundsAssumption DEF IInv, TypeOK
<1>2. CASE UNCHANGED tree /\ load' >= load /\ cache' \in {cache, Undefined} /\ TypeOK'
  <2>1. Ancestry'
    BY <1>1, <1>2 DEF Ancestry
  <2>2. Certified'
    <3> SUFFICES ASSUME cache' = cache, cache # Undefined
                 PROVE  Certified'
      BY <1>2 DEF Certified
    <3>1. cache.load <= load /\ cache.load \in Nat /\ load' \in Nat
      BY <1>1, <1>2, BoundsAssumption DEF Certified, TypeOK, States
    <3>2. cache.load <= load' /\ (cache.load = load' => cache.load = load)
      BY <1>1, <1>2, <3>1
    <3>3. /\ LastWindow(PathOf(cache.leaf))' = LastWindow(PathOf(cache.leaf))
          /\ Remembered(PathOf(cache.leaf))' = Remembered(PathOf(cache.leaf))
      BY <1>2 DEF LastWindow, LastBoundary, Remembered, Active, IsWindow, IsBoundary,
                  IsReminder, PathOf
    <3> QED BY <1>1, <1>2, <3>2, <3>3 DEF Certified
  <2> QED BY <1>2, <2>1, <2>2 DEF IInv
<1>3. CASE Reset \/ UNCHANGED vars
  <2>1. UNCHANGED hostVars /\ cache' \in {cache, Undefined} /\ shown' \subseteq 1..MaxEntries
    BY <1>1, <1>3 DEF Reset, vars, hostVars, TypeOK
  <2> QED BY <1>1, <1>2, <2>1 DEF hostVars, TypeOK
<1>4. CASE Reload
  <2>1. load' = load + 1 /\ load' \in 0..MaxLoads /\ leaf' = Len(tree) /\ shown' = {}
        /\ UNCHANGED <<session, tree, policy, queue, cache>>
    BY <1>1, <1>4, BoundsAssumption DEF Reload, TypeOK
  <2>2. TypeOK'
    BY <1>1, <2>1 DEF TypeOK
  <2> QED BY <1>1, <1>2, <2>1, <2>2
<1>5. ASSUME NEW e \in 0..Len(tree), Navigate(e)
      PROVE  IInv'
  BY <1>1, <1>2, <1>5 DEF Navigate, TypeOK
<1>6. ASSUME NEW s \in Sessions, Fork(s)
      PROVE  IInv'
  BY <1>1, <1>2, <1>6 DEF Fork, TypeOK
<1>7. ASSUME NEW s \in Sessions, Switch(s)
      PROVE  IInv'
  <2>1. /\ session' = s /\ tree' = <<>> /\ load' = load + 1 /\ load' \in 0..MaxLoads
        /\ leaf' = 0 /\ shown' = {} /\ UNCHANGED <<policy, queue, cache>>
    BY <1>1, <1>7, BoundsAssumption DEF Switch, TypeOK, None
  <2>2. TypeOK'
    BY <1>1, <2>1, BoundsAssumption DEF TypeOK
  <2>3. Ancestry'
    BY <2>1 DEF Ancestry
  <2>4. Certified'
    <3> SUFFICES ASSUME cache # Undefined
                 PROVE  Certified'
      BY <2>1 DEF Certified
    <3>1. cache.load <= load /\ cache.load \in Nat
      BY <1>1, BoundsAssumption DEF Certified, TypeOK, States
    <3>2. cache.load <= load' /\ cache.load # load'
      BY <1>1, <2>1, <3>1
    <3>3. cache.leaf = None => cache.windowId = None /\ cache.reminders = {}
      BY <1>1, NoFacts DEF Certified, PathOf
    <3>4. LastWindow({})' = None /\ Remembered({})' = {}
      BY NoFacts DEF LastWindow, LastBoundary, Remembered, Active, IsWindow, IsBoundary, IsReminder, LastOf
    <3>5. cache.leaf = None =>
            LastWindow(PathOf(cache.leaf))' = None /\ Remembered(PathOf(cache.leaf))' = {}
      BY <2>1, <3>4 DEF PathOf, LastWindow, LastBoundary, Remembered, Active
    <3>6. 0 \in 0..Len(tree')
      BY <2>1
    <3>7. CASE cache.leaf = None
      BY <2>1, <3>2, <3>3, <3>5, <3>6, <3>7 DEF Certified, None
    <3>8. CASE cache.leaf # None
      BY <2>1, <3>2, <3>8 DEF Certified
    <3> QED BY <3>7, <3>8
  <2> QED BY <2>2, <2>3, <2>4 DEF IInv
<1>8. ASSUME NEW p \in Budgets \cup {Off}, ChangePolicy(p)
      PROVE  IInv'
  BY <1>1, <1>2, <1>8 DEF ChangePolicy, TypeOK
<1> QED BY <1>3, <1>4, <1>5, <1>6, <1>7, <1>8

\* A turn's end and a request read the lookup.
LEMMA ReadsStep ==
  ASSUME IInv, TurnEnd \/ FilterRequest
  PROVE  IInv'
<1>1. TypeOK /\ Ancestry /\ Certified
  BY DEF IInv
<1>2. CASE TurnEnd
  <2>1. Certified' /\ Ancestry' /\ cache' \in States \cup {Undefined} /\ Read \in States
    BY <1>1, <1>2, ReadStep DEF TurnEnd
  <2>2. Current(Read) \in Fingerprints
    BY <1>1, <1>2, <2>1 DEF TurnEnd, Current, Fingerprints, States, TypeOK
  <2>3. queue' \in Seq(Fingerprints)
    BY <1>1, <1>2, <2>2 DEF TurnEnd, TypeOK
  <2>4. TypeOK'
    BY <1>1, <1>2, <2>1, <2>3 DEF TurnEnd, TypeOK
  <2> QED BY <2>1, <2>4 DEF IInv
<1>3. CASE FilterRequest /\ cache' = Read
  <2>1. Certified' /\ Ancestry' /\ cache' \in States \cup {Undefined}
    BY <1>1, <1>3, ReadStep DEF FilterRequest, hostVars
  <2>2. shown' \in SUBSET (1..MaxEntries)
    <3>1. Path \in SUBSET (1..MaxEntries)
      BY <1>1, TreeFacts, BoundsAssumption DEF Path, None
    <3>2. shown' \subseteq Projected(Path)
      BY <1>3 DEF FilterRequest
    <3> QED BY <3>1, <3>2 DEF Projected
  <2>3. TypeOK'
    BY <1>1, <1>3, <2>1, <2>2 DEF FilterRequest, hostVars, TypeOK
  <2> QED BY <2>1, <2>3 DEF IInv
<1>4. CASE FilterRequest /\ cache' = cache /\ shown' = {}
  <2>1. Reset \/ UNCHANGED hostVars
    BY <1>4 DEF FilterRequest
  <2>2. TypeOK'
    BY <1>1, <1>4 DEF FilterRequest, hostVars, TypeOK
  <2>3. Ancestry' /\ Certified'
    BY <1>1, <1>4 DEF FilterRequest, hostVars, Ancestry, Certified, LastWindow, LastBoundary,
       Remembered, Active, IsWindow, IsBoundary, IsReminder, PathOf
  <2> QED BY <2>2, <2>3 DEF IInv
<1> QED BY <1>2, <1>3, <1>4 DEF FilterRequest

LEMMA Invariance == Spec => []IInv
<1>1. Init => IInv
  BY Initially DEF IInv
<1>2. IInv /\ [Next]_vars => IInv'
  BY AppendsStep, MovesStep, ReadsStep DEF Next
<1> QED BY <1>1, <1>2, PTL DEF Spec

\* Every state of the lookup, the tree and the queue has its type.
THEOREM TypeCorrect == Spec => []TypeOK
BY Invariance, PTL DEF IInv

\* The answer of the lookup is the answer of a scan of the whole path, for trees
\* of any size and any order of appends, moves, reloads and changes of session.
THEOREM LookupAlwaysExact == Spec => []LookupExact
<1>1. IInv => LookupExact
  BY ReadExact DEF IInv, Exact, LookupExact, Remembered
<1> QED BY <1>1, Invariance, PTL

\* A request shows no reminder of another window or policy.
THEOREM OnlyCurrentShown == Spec => ShownIsCurrent
<1>1. IInv /\ [Next]_vars => [ShowsOnlyCurrent]_vars
  <2> SUFFICES ASSUME IInv, Next, NEW e \in shown'
               PROVE  /\ policy # Off
                      /\ tree[e].details = [window |-> LastWindow(Path), budget |-> policy]
    BY DEF ShowsOnlyCurrent
  <2>1. FilterRequest
    BY DEF Next, TurnEnd, Reset, AppendMessage, Compact, AppendLegacyWindow, Deliver,
           AppendEntry, Navigate, Reload, Switch, Fork, ChangePolicy
  <2>2. ~Stale(e, Read)
    BY <2>1 DEF FilterRequest
  <2>3. Read.windowId = LastWindow(Path)
    BY ReadExact DEF IInv, Exact
  <2> QED BY <2>2, <2>3 DEF Stale, Current
<1> QED BY <1>1, Invariance, PTL DEF Spec, ShownIsCurrent

----------------------------------------------------------------------------
(* One reminder. *)

\* Reminders of the active context differ, whichever entry is the leaf.
Single(S) == \A e, f \in Remembered(S) : tree[e].details = tree[f].details => e = f

Singles == \A l \in 0..Len(tree) : Single(PathOf(l))

\* Those on their way differ, from one another and from the active ones.
QueueDiffers ==
  /\ \A i, j \in DOMAIN queue : queue[i] = queue[j] => i = j
  /\ \A e \in Remembered(Path) : \A i \in DOMAIN queue : tree[e].details # queue[i]

\* An entry below the leaf adds at most itself to the active context.
LEMMA ActiveGrows ==
  ASSUME NEW S \in SUBSET (1..Len(tree)), Len(tree) \in Nat,
         \A e \in S : tree[e].kept \in Nat /\ tree[e].kept < e,
         NEW n, n = Len(tree) + 1, NEW entry, tree'[n] = entry,
         \A e \in S : tree'[e] = tree[e], entry.kept \in Active(S) \cup {None}
  PROVE  Active(S \cup {n})' \subseteq Active(S) \cup {n}
<1> DEFINE T == S \cup {n}
           before == {e \in S : IsBoundary(e)}
           after == {e \in T : tree'[e].kind \in Boundaries}
           b == LastBoundary(S)
           kept == tree'[LastOf(after)].kept
<1>1. T \in SUBSET (1..n) /\ n \in Nat /\ \A e \in S : e \in Nat /\ e # 0 /\ e < n
  <2>1. n \in Nat /\ \A e \in S : e \in 1..Len(tree)
    OBVIOUS
  <2>2. \A e \in S : e \in Nat /\ e # 0 /\ e < n /\ e \in 1..n
    BY <2>1
  <2>3. n \in 1..n
    BY <2>1
  <2> QED BY <2>1, <2>2, <2>3
<1>2. Active(S \cup {n})' = IF LastOf(after) = None THEN T
                            ELSE IF tree'[LastOf(after)].kind # "legacy" /\ kept \in T
                                 THEN {e \in T : e >= kept}
                                 ELSE {e \in T : e > LastOf(after)}
  BY DEF Active, LastBoundary, IsBoundary, LastOf, None
<1>3. b \in 0..Len(tree) /\ (b # None => b \in S)
  <2>1. before \in SUBSET (1..Len(tree))
    OBVIOUS
  <2>2. before # {} => LastOf(before) \in before
    BY <2>1, LastFacts
  <2> QED BY <2>1, <2>2, LastIsNat DEF LastBoundary
<1>4. CASE entry.kind \in Boundaries
  <2>1. after \in SUBSET (1..n) /\ n \in after /\ \A e \in after : e <= n
    BY <1>1, <1>4
  <2> HIDE DEF after
  <2>2. LastOf(after) = n
    BY <1>1, <2>1, LastUnique
  <2>3. n # None /\ kept = entry.kept
    BY <1>1, <2>2 DEF None
  <2>4. CASE entry.kind # "legacy" /\ entry.kept \in T
    <3>1. Active(S \cup {n})' = {e \in T : e >= entry.kept}
      BY <1>2, <2>2, <2>3, <2>4
    <3>2. entry.kept \in Active(S)
      BY <1>1, <2>4 DEF None
    <3>3. \A e \in S : e >= entry.kept => e \in Active(S)
      <4>1. entry.kept \in S /\ entry.kept \in Nat
        BY <1>1, <3>2 DEF Active
      <4>2. CASE b = None
        BY <4>2 DEF Active
      <4>3. CASE b # None /\ tree[b].kind # "legacy" /\ tree[b].kept \in S
        <5>1. Active(S) = {e \in S : e >= tree[b].kept} /\ tree[b].kept \in Nat
          BY <1>1, <4>3 DEF Active
        <5> QED BY <1>1, <3>2, <4>1, <5>1
      <4>4. CASE b # None /\ ~(tree[b].kind # "legacy" /\ tree[b].kept \in S)
        <5>1. Active(S) = {e \in S : e > b} /\ b \in Nat
          BY <1>1, <1>3, <4>4 DEF Active
        <5> HIDE DEF b
        <5> QED BY <1>1, <3>2, <4>1, <5>1
      <4> QED BY <4>2, <4>3, <4>4
    <3> QED BY <3>1, <3>3
  <2>5. CASE ~(entry.kind # "legacy" /\ entry.kept \in T)
    <3>1. Active(S \cup {n})' = {e \in T : e > n}
      BY <1>2, <2>2, <2>3, <2>5
    <3>2. \A e \in T : ~ (e > n)
      BY <1>1
    <3> QED BY <3>1, <3>2
  <2> QED BY <2>4, <2>5
<1>5. CASE entry.kind \notin Boundaries
  <2>1. after = before
    BY <1>5 DEF IsBoundary
  <2>2. LastOf(after) = b
    BY <2>1, Zenon DEF LastBoundary
  <2> HIDE DEF after, before
  <2>3. CASE b = None
    BY <1>2, <2>2, <2>3 DEF Active
  <2>4. CASE b # None
    <3>1. b \in S /\ tree'[b] = tree[b] /\ tree[b].kept \in Nat /\ tree[b].kept < n
      BY <1>1, <1>3, <2>4
    <3>2. tree[b].kept \in T <=> tree[b].kept \in S
      BY <3>1
    <3>3. CASE tree[b].kind # "legacy" /\ tree[b].kept \in S
      <4>1. Active(S) = {e \in S : e >= tree[b].kept}
        BY <2>4, <3>3 DEF Active
      <4>2. Active(S \cup {n})' = {e \in T : e >= tree[b].kept}
        BY <1>2, <2>2, <2>4, <3>1, <3>2, <3>3
      <4> QED BY <4>1, <4>2
    <3>4. CASE ~(tree[b].kind # "legacy" /\ tree[b].kept \in S)
      <4>1. Active(S) = {e \in S : e > b}
        BY <2>4, <3>4 DEF Active
      <4>2. Active(S \cup {n})' = {e \in T : e > b}
        BY <1>2, <2>2, <2>4, <3>1, <3>2, <3>4
      <4> QED BY <4>1, <4>2
    <3> QED BY <3>3, <3>4
  <2> QED BY <2>3, <2>4
<1> QED BY <1>4, <1>5

\* What an append leaves of the active reminders.
LEMMA RemindersGrow ==
  ASSUME IInv, NEW kind, NEW kept \in Active(Path) \cup {None}, NEW details,
         AppendEntry(New(kind, kept, details))
  PROVE  /\ \A e \in Remembered(Path)' :
              \/ e \in Remembered(Path) /\ tree'[e] = tree[e]
              \/ e = Len(tree) + 1 /\ kind = "reminder" /\ tree'[e].details = details
         /\ Len(tree') = Len(tree) + 1 /\ Len(tree) \in Nat
         /\ \A e \in 1..Len(tree) : tree'[e] = tree[e]
         /\ leaf' = Len(tree) + 1
<1> DEFINE n == Len(tree) + 1
           entry == New(kind, kept, details)
<1>1. TypeOK /\ Ancestry /\ Len(tree) \in Nat /\ leaf \in 0..Len(tree) /\ Path = PathOf(leaf)
  BY TreeFacts DEF IInv, Path, PathOf
<1>2. Path \in SUBSET (1..Len(tree)) /\ \A e \in Path : tree[e].kept \in Nat /\ tree[e].kept < e
  BY <1>1, PathFacts
<1>3. /\ Len(tree') = n /\ tree'[n] = entry /\ leaf' = n
      /\ \A e \in 1..Len(tree) : tree'[e] = tree[e]
  BY <1>1 DEF AppendEntry, TypeOK
<1>4. entry.kept = kept /\ entry.kind = kind /\ entry.details = details /\ entry.path = Path \cup {n}
  BY DEF New
<1> HIDE DEF entry
<1>5. PICK S \in SUBSET (1..Len(tree)) : S = Path
  BY <1>2
<1>6. Path' = S \cup {n}
  <2>1. leaf' # 0 /\ tree'[leaf'] = entry
    BY <1>1, <1>3
  <2> QED BY <1>4, <1>5, <2>1 DEF Path, None
<1>7. PICK m : m = n
  OBVIOUS
<1>8. Active(S \cup {m})' \subseteq Active(S) \cup {m}
  BY <1>1, <1>2, <1>3, <1>4, <1>5, <1>7, ActiveGrows
<1>9. Active(Path)' = Active(S \cup {m})'
  BY <1>6, <1>7 DEF Active, LastBoundary, IsBoundary
<1>10. Active(S) \subseteq S /\ Active(S) = Active(Path)
  BY <1>5 DEF Active
<1>11. ASSUME NEW e \in Remembered(Path)'
       PROVE  \/ e \in Remembered(Path) /\ tree'[e] = tree[e]
              \/ e = n /\ kind = "reminder" /\ tree'[e].details = details
  <2>1. e \in Active(Path)' /\ tree'[e].kind = "reminder"
    BY DEF Remembered, IsReminder
  <2>2. CASE e = n
    BY <1>3, <1>4, <2>1, <2>2
  <2>3. CASE e # n
    <3>1. e \in Active(S) /\ e \in S
      BY <1>7, <1>8, <1>9, <1>10, <2>1, <2>3
    <3>2. tree'[e] = tree[e]
      BY <1>3, <3>1
    <3> QED BY <1>10, <2>1, <3>1, <3>2 DEF Remembered, IsReminder
  <2> QED BY <2>2, <2>3
<1> QED BY <1>1, <1>3, <1>6, <1>11

\* A reminder that is appended differs from the active ones.
LEMMA SinglesAppend ==
  ASSUME IInv, Singles, NEW kind, NEW kept \in Active(Path) \cup {None}, NEW details,
         AppendEntry(New(kind, kept, details)),
         kind = "reminder" => \A e \in Remembered(Path) : tree[e].details # details
  PROVE  Singles'
<1> DEFINE n == Len(tree) + 1
<1>1. TypeOK /\ Ancestry /\ leaf \in 0..Len(tree) /\ Path = PathOf(leaf)
  BY TreeFacts DEF IInv, Path, PathOf
<1>2. /\ \A e \in Remembered(Path)' :
           \/ e \in Remembered(Path) /\ tree'[e] = tree[e]
           \/ e = n /\ kind = "reminder" /\ tree'[e].details = details
      /\ Len(tree') = n /\ Len(tree) \in Nat
      /\ \A e \in 1..Len(tree) : tree'[e] = tree[e]
      /\ leaf' = n
  BY RemindersGrow
<1>3. Single(Path)
  BY <1>1 DEF Singles
<1>4. \A e, f \in Remembered(Path)' : tree'[e].details = tree'[f].details => e = f
  BY <1>2, <1>3 DEF Single
<1>5. ASSUME NEW l, l = leaf'
      PROVE  Single(PathOf(l))'
  <2>1. Path' = PathOf(l)'
    BY <1>5 DEF Path, PathOf
  <2>2. Remembered(Path)' = Remembered(PathOf(l))'
    BY <2>1 DEF Remembered, Active, LastBoundary, IsBoundary
  <2> QED BY <1>4, <2>2 DEF Single
<1>6. ASSUME NEW l \in 0..Len(tree)
      PROVE  Single(PathOf(l))'
  <2>1. PICK S \in SUBSET (1..Len(tree)) : S = PathOf(l)
    BY <1>1, PathFacts
  <2>2. PathOf(l)' = S
    BY <1>2, <2>1 DEF PathOf, None
  <2>3. Remembered(S)' = Remembered(S)
    BY <1>2, FactsFrame
  <2>4. Remembered(PathOf(l))' = Remembered(S)'
    BY <2>2 DEF Remembered, Active, LastBoundary, IsBoundary
  <2>5. Remembered(S) \subseteq S
    BY DEF Remembered, Active
  <2>6. Single(S)
    BY <2>1 DEF Singles
  <2> QED BY <1>2, <2>3, <2>4, <2>5, <2>6 DEF Single
<1>7. \A l \in 0..Len(tree') : l \in 0..Len(tree) \/ l = leaf'
  BY <1>2
<1> QED BY <1>5, <1>6, <1>7 DEF Singles

LEMMA OneStep ==
  ASSUME IInv, Singles, QueueDiffers, Next
  PROVE  Singles' /\ QueueDiffers'
<1>1. TypeOK /\ Ancestry /\ Certified /\ Len(tree) \in Nat /\ queue \in Seq(Fingerprints) /\ Len(queue) \in Nat
  BY TreeFacts DEF IInv, TypeOK
<1>2. ASSUME NEW kind, kind # "reminder", NEW kept \in Active(Path) \cup {None}, NEW details,
             AppendEntry(New(kind, kept, details)), queue' = queue
      PROVE  Singles' /\ QueueDiffers'
  <2>1. Singles'
    BY <1>2, SinglesAppend
  <2>2. \A e \in Remembered(Path)' : e \in Remembered(Path) /\ tree'[e] = tree[e]
    BY <1>2, RemindersGrow
  <2> QED BY <1>2, <2>1, <2>2 DEF QueueDiffers
<1>3. CASE AppendMessage
  BY <1>2, <1>3 DEF AppendMessage
<1>4. CASE AppendLegacyWindow
  BY <1>2, <1>4 DEF AppendLegacyWindow
<1>5. CASE \E kind \in {"native", "posthorse"}, kept \in 0..MaxEntries : Compact(kind, kept)
  BY <1>2, <1>5 DEF Compact
<1>6. CASE Deliver
  <2>1. /\ queue # <<>> /\ queue' = Tail(queue)
        /\ AppendEntry(New("reminder", None, Head(queue)))
    BY <1>6 DEF Deliver
  <2>2. 1 \in DOMAIN queue /\ Head(queue) = queue[1]
    BY <1>1, <2>1
  <2>3. /\ \A i \in DOMAIN queue' : i + 1 \in DOMAIN queue /\ queue'[i] = queue[i + 1] /\ i + 1 # 1
        /\ \A i, j \in DOMAIN queue' : i + 1 = j + 1 => i = j
    BY <1>1, <2>1
  <2>4. \A e \in Remembered(Path) : tree[e].details # Head(queue)
    BY <2>2 DEF QueueDiffers
  <2>5. Singles'
    BY <2>1, <2>4, SinglesAppend
  <2>6. \A e \in Remembered(Path)' :
          \/ e \in Remembered(Path) /\ tree'[e] = tree[e]
          \/ tree'[e].details = Head(queue)
    BY <2>1, RemindersGrow
  <2>7. \A i, j \in DOMAIN queue' : queue'[i] = queue'[j] => i = j
    BY <2>3 DEF QueueDiffers
  <2>8. \A e \in Remembered(Path)' : \A i \in DOMAIN queue' : tree'[e].details # queue'[i]
    <3> SUFFICES ASSUME NEW e \in Remembered(Path)', NEW i \in DOMAIN queue'
                 PROVE  tree'[e].details # queue'[i]
      OBVIOUS
    <3>1. CASE e \in Remembered(Path) /\ tree'[e] = tree[e]
      BY <2>3, <3>1 DEF QueueDiffers
    <3>2. CASE tree'[e].details = Head(queue)
      BY <2>2, <2>3, <3>2 DEF QueueDiffers
    <3> QED BY <2>6, <3>1, <3>2
  <2> QED BY <2>5, <2>7, <2>8 DEF QueueDiffers
<1>7. ASSUME UNCHANGED tree
      PROVE  Singles' /\ \A S : (Remembered(S))' = Remembered(S)
  <2>1. \A S : (Remembered(S))' = Remembered(S)
    BY <1>7 DEF Remembered, Active, LastBoundary, IsBoundary, IsReminder
  <2> QED BY <1>7, <2>1 DEF Singles, Single, PathOf
<1>8. CASE TurnEnd
  <2>1. UNCHANGED <<tree, leaf>> /\ Path' = Path
    BY <1>8 DEF TurnEnd, Path
  <2>2. Singles' /\ Remembered(Path)' = Remembered(Path)
    BY <1>7, <2>1 DEF Remembered, Active, LastBoundary, IsBoundary, IsReminder
  <2>3. CASE queue' = queue
    BY <2>1, <2>2, <2>3 DEF QueueDiffers
  <2>4. CASE queue' # queue
    <3>1. queue' = Append(queue, Current(Read)) /\ ~AlreadyPresent(Read)
      BY <1>8, <2>4 DEF TurnEnd
    <3>2. Read.reminders = Remembered(Path)
      BY <1>1, ReadExact DEF Exact
    <3>3. /\ \A e \in Remembered(Path) : tree[e].details # Current(Read)
          /\ \A i \in DOMAIN queue : queue[i] # Current(Read)
      BY <3>1, <3>2 DEF AlreadyPresent
    <3>4. \A i \in DOMAIN queue' :
            \/ i \in DOMAIN queue /\ queue'[i] = queue[i]
            \/ i = Len(queue) + 1 /\ queue'[i] = Current(Read)
      BY <1>1, <3>1
    <3>5. \A i, j \in DOMAIN queue' : queue'[i] = queue'[j] => i = j
      BY <3>3, <3>4 DEF QueueDiffers
    <3>6. \A e \in Remembered(Path)' : \A i \in DOMAIN queue' : tree'[e].details # queue'[i]
      BY <2>1, <2>2, <3>3, <3>4 DEF QueueDiffers
    <3> QED BY <2>2, <3>5, <3>6 DEF QueueDiffers
  <2> QED BY <2>3, <2>4
<1>9. CASE FilterRequest \/ Reset \/ \E p \in Budgets \cup {Off} : ChangePolicy(p)
  <2>1. UNCHANGED <<tree, leaf, queue>> /\ Path' = Path
    BY <1>9 DEF FilterRequest, Reset, ChangePolicy, hostVars, Path
  <2>2. Singles' /\ Remembered(Path)' = Remembered(Path)
    BY <1>7, <2>1 DEF Remembered, Active, LastBoundary, IsBoundary, IsReminder
  <2> QED BY <2>1, <2>2 DEF QueueDiffers
<1>10. ASSUME queue' = <<>>
       PROVE  QueueDiffers'
  BY <1>10 DEF QueueDiffers
<1>11. CASE Reload \/ \E e \in 0..Len(tree) : Navigate(e)
  BY <1>7, <1>10, <1>11 DEF Reload, Navigate
<1>12. CASE \E s \in Sessions : Fork(s)
  BY <1>7, <1>10, <1>12 DEF Fork
<1>13. CASE \E s \in Sessions : Switch(s)
  <2>1. tree' = <<>> /\ queue' = <<>>
    BY <1>13 DEF Switch
  <2>2. Remembered({})' = {}
    BY NoFacts DEF Remembered, Active, LastBoundary, IsBoundary, IsReminder, LastOf
  <2>3. \A l \in 0..Len(tree') : l = None
    BY <2>1 DEF None
  <2>4. Singles'
    BY <2>2, <2>3 DEF Singles, Single, PathOf
  <2> QED BY <1>10, <2>1, <2>4
<1> QED BY <1>3, <1>4, <1>5, <1>6, <1>8, <1>9, <1>11, <1>12, <1>13 DEF Next

LEMMA OneInvariance == Spec => [](IInv /\ Singles /\ QueueDiffers)
<1>1. Init => Singles /\ QueueDiffers
  <2> SUFFICES ASSUME Init PROVE Singles /\ QueueDiffers
    OBVIOUS
  <2>1. tree = <<>> /\ queue = <<>> /\ \A l \in 0..Len(tree) : l = None
    BY DEF Init, None
  <2> QED BY <2>1, NoFacts DEF Singles, Single, PathOf, QueueDiffers
<1>2. IInv /\ Singles /\ QueueDiffers /\ [Next]_vars => Singles' /\ QueueDiffers'
  <2> SUFFICES ASSUME IInv, Singles, QueueDiffers, [Next]_vars PROVE Singles' /\ QueueDiffers'
    OBVIOUS
  <2>1. CASE UNCHANGED vars
    <3>1. \A S : (Remembered(S))' = Remembered(S)
      BY <2>1 DEF vars, Remembered, Active, LastBoundary, IsBoundary, IsReminder
    <3>2. Path' = Path /\ Remembered(Path)' = Remembered(Path)
      BY <2>1 DEF vars, Path, Remembered, Active, LastBoundary, IsBoundary, IsReminder
    <3>3. Singles'
      <4>1. tree' = tree
        BY <2>1 DEF vars
      <4> QED BY <3>1, <4>1 DEF Singles, Single, PathOf
    <3> QED BY <2>1, <3>2, <3>3 DEF vars, QueueDiffers
  <2> QED BY <2>1, OneStep
<1> QED BY <1>1, <1>2, Invariance, PTL DEF Spec

LEMMA AtMostOne ==
  ASSUME NEW S, \A x, y \in S : x = y
  PROVE  \/ S = {} /\ Cardinality(S) = 0
         \/ S # {} /\ Cardinality(S) = 1
<1>1. CASE S = {}
  <2>1. Cardinality({}) = 0
    BY FS_EmptySet
  <2>2. Cardinality(S) = Cardinality({})
    BY <1>1, Zenon
  <2> QED BY <1>1, <2>1, <2>2
<1>2. CASE S # {}
  <2>1. PICK x : S = {x}
    BY <1>2
  <2> QED BY <1>2, <2>1, FS_Singleton
<1> QED BY <1>1, <1>2

\* At most one reminder for a window and a budget is active or on its way, for any number of turns
\* that end before it is delivered.
THEOREM ReminderIsSingle == Spec => []OneReminder
<1>1. IInv /\ Singles /\ QueueDiffers => OneReminder
  <2> SUFFICES ASSUME IInv, Singles, QueueDiffers, NEW f
               PROVE  Cardinality({e \in Active(Path) : IsReminder(e) /\ tree[e].details = f})
                        + Cardinality({i \in DOMAIN queue : queue[i] = f}) <= 1
    BY DEF OneReminder
  <2> DEFINE A == {e \in Active(Path) : IsReminder(e) /\ tree[e].details = f}
             Q == {i \in DOMAIN queue : queue[i] = f}
  <2>1. Single(Path)
    BY TreeFacts DEF IInv, Singles, Path, PathOf
  <2>2. \A x, y \in A : x = y
    BY <2>1 DEF Single, Remembered
  <2>3. \A x, y \in Q : x = y
    BY DEF QueueDiffers
  <2>4. A = {} \/ Q = {}
    BY DEF QueueDiffers, Remembered
  <2> HIDE DEF A, Q
  <2>5. (A = {} /\ Cardinality(A) = 0) \/ (A # {} /\ Cardinality(A) = 1)
    BY <2>2, AtMostOne
  <2>6. (Q = {} /\ Cardinality(Q) = 0) \/ (Q # {} /\ Cardinality(Q) = 1)
    BY <2>3, AtMostOne
  <2>7. Cardinality(A) + Cardinality(Q) <= 1
    BY <2>4, <2>5, <2>6
  <2> QED BY <2>7 DEF A, Q
<1> QED BY <1>1, OneInvariance, PTL
============================================================================
