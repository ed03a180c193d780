--------------------------- MODULE RolloverProofs ---------------------------
(***************************************************************************)
(* Proofs about Rollover for any sizes, bounds and sessions.               *)
(***************************************************************************)
EXTENDS Rollover, FiniteSetTheorems, SequenceTheorems, WellFoundedInduction, TLAPS

----------------------------------------------------------------------------
(* The first and the last of a set of positions. *)

LEMMA Least ==
  ASSUME NEW T \in SUBSET Nat, NEW n \in T
  PROVE  \E x \in T : \A y \in T : x <= y
<1> DEFINE Below == OpToRel(<, Nat)
<1>1. Below = {ss \in Nat \X Nat : ss[1] < ss[2]}
  BY DEF OpToRel
<1>2. IsWellFoundedOn(Below, Nat)
  BY NatLessThanWellFounded
<1> HIDE DEF Below
<1>3. \A x, y \in Nat : y < x => <<y, x>> \in Below
  BY <1>1
<1>4. PICK x \in T : \A y \in T : ~ (<<y, x>> \in Below)
  BY <1>2, WFMin
<1>5. \A y \in T : ~ (y < x)
  BY <1>3, <1>4
<1>6. \A y \in T : x <= y
  BY <1>5
<1> QED BY <1>6

LEMMA MinFacts ==
  ASSUME NEW S \in SUBSET Nat, S # {}
  PROVE  Min(S) \in S /\ \A i \in S : Min(S) <= i
<1>1. PICK x \in S : \A y \in S : x <= y
  BY Least
<1> QED BY <1>1 DEF Min

LEMMA MaxFacts ==
  ASSUME NEW n \in Nat, NEW S \in SUBSET (1..n), S # {}
  PROVE  Max(S) \in S /\ \A i \in S : i <= Max(S)
<1> DEFINE Gaps == {n - e : e \in S}
<1>1. \A e \in S : n - e \in Nat
  OBVIOUS
<1>2. Gaps \in SUBSET Nat /\ \E g \in Gaps : TRUE
  BY <1>1
<1>3. PICK g \in Gaps : \A h \in Gaps : g <= h
  BY <1>2, Least
<1>4. PICK e \in S : g = n - e
  BY <1>3
<1>5. \A f \in S : e >= f
  BY <1>3, <1>4
<1> QED BY <1>5 DEF Max

LEMMA MaxUnique ==
  ASSUME NEW n \in Nat, NEW S \in SUBSET (1..n), NEW e \in S, \A f \in S : f <= e
  PROVE  Max(S) = e
<1>1. Max(S) \in S /\ e <= Max(S)
  BY MaxFacts
<1>2. Max(S) <= e /\ Max(S) \in 1..n /\ e \in 1..n
  BY <1>1
<1> QED BY <1>1, <1>2

LEMMA BoundsAreNat ==
  /\ MaxEntries \in Nat /\ MaxCalls \in Nat /\ MaxQueue \in Nat
  /\ Line \in Nat /\ Margin \in Nat /\ Overhead \in Nat /\ MaxHandoff \in Nat /\ MinRecord \in Nat
  /\ InputCost \in Nat
BY SizesAssumption

LEMMA PendingIsNat ==
  ASSUME TypeOK
  PROVE  Pending \in Nat
<1> DEFINE Queued(role) == Cardinality({i \in DOMAIN queue : queue[i].role = role})
<1>1. ASSUME NEW role
      PROVE  Queued(role) \in Nat
  <2>1. Len(queue) \in Nat /\ DOMAIN queue = 1..Len(queue)
    BY LenProperties DEF TypeOK
  <2>2. IsFiniteSet(DOMAIN queue)
    BY <2>1, FS_Interval
  <2> QED BY <2>2, FS_Subset, FS_CardinalityType
<1>2. \A a, b, c \in Nat : a * b + c \in Nat
  OBVIOUS
<1>3. InputCost \in Nat
  BY BoundsAreNat
<1>4. Queued("user") \in Nat /\ Queued("reminder") \in Nat
  BY <1>1
<1>5. Pending = InputCost * Queued("user") + Queued("reminder")
  BY DEF Pending
<1> HIDE DEF Queued
<1> QED BY <1>2, <1>3, <1>4, <1>5

----------------------------------------------------------------------------
(* The cost of a set of entries: a fold, by the fact that it is one. *)

OneOf(s) == CHOOSE x \in s : TRUE

\* g gives the sums of the costs in l of the subsets of S.
IsSums(l, S, g) ==
  g = [s \in SUBSET S |-> IF s = {} THEN 0 ELSE l[OneOf(s)].cost + g[s \ {OneOf(s)}]]

Sums(l, S) == CHOOSE g : IsSums(l, S, g)

LEMMA CostIsSum ==
  ASSUME NEW S
  PROVE  Cost(S) = Sums(log, S)[S]
BY DEF Cost, MapThenSumSet, MapThenFoldSet, Sums, IsSums, OneOf

LEMMA NothingIsFree == \A l : Sums(l, {})[{}] = 0
<1> SUFFICES ASSUME NEW l PROVE Sums(l, {})[{}] = 0
  OBVIOUS
<1> DEFINE G == [s \in SUBSET {} |-> 0]
<1>1. SUBSET {} = {{}}
  OBVIOUS
<1>2. G = [s \in SUBSET {} |-> IF s = {} THEN 0 ELSE l[OneOf(s)].cost + G[s \ {OneOf(s)}]]
  BY <1>1
<1> HIDE DEF G
<1>3. IsSums(l, {}, G)
  BY <1>2 DEF IsSums
<1>4. IsSums(l, {}, Sums(l, {}))
  BY <1>3 DEF Sums
<1>5. {} \in SUBSET {}
  OBVIOUS
<1> QED BY <1>4, <1>5 DEF IsSums

\* Entries that two sessions share cost the same in both.
LEMMA SameCost ==
  ASSUME NEW l, NEW m, NEW S, \A i \in S : l[i] = m[i]
  PROVE  Sums(l, S) = Sums(m, S)
<1>1. \A s \in SUBSET S : s # {} => OneOf(s) \in S
  BY DEF OneOf
<1>2. \A g : [s \in SUBSET S |-> IF s = {} THEN 0 ELSE l[OneOf(s)].cost + g[s \ {OneOf(s)}]]
           = [s \in SUBSET S |-> IF s = {} THEN 0 ELSE m[OneOf(s)].cost + g[s \ {OneOf(s)}]]
  BY <1>1
<1>3. \A g : IsSums(l, S, g) <=> IsSums(m, S, g)
  BY <1>2 DEF IsSums
<1> QED BY <1>3, Zenon DEF Sums


----------------------------------------------------------------------------
(* The invariant of the session: what each entry is by its place in it. *)

\* Of the entry at i: a compaction keeps entries before it, and a boundary of
\* Posthorse's that announces no tail keeps nothing, or the sentinel before it.
EntryOK(l, i) ==
  /\ l[i].role = "compaction" => l[i].kept < i
  /\ l[i].posthorse =>
       /\ l[i].role = "compaction"
       /\ \/ l[i].marked
          \/ l[i].kept = None
          \/ l[i].kept = i - 1 /\ l[i - 1].role = "sentinel"

LogOK(l) ==
  /\ l \in Seq(Entries) /\ Len(l) <= MaxEntries
  /\ \A i \in DOMAIN l : EntryOK(l, i)

LEMMA BoundaryFacts ==
  LogOK(log) =>
    /\ Boundary \in 0..Len(log)
    /\ Boundary # None => log[Boundary].role = "compaction" /\ log[Boundary].kept < Boundary
    /\ \A i \in DOMAIN log : log[i].role = "compaction" => i <= Boundary
<1> SUFFICES ASSUME LogOK(log) PROVE BoundaryFacts!2
  OBVIOUS
<1> DEFINE C == {i \in DOMAIN log : IsCompaction(i)}
<1>1. Len(log) \in Nat /\ DOMAIN log = 1..Len(log)
  BY LenProperties DEF LogOK
<1>2. C \in SUBSET (1..Len(log))
  BY <1>1
<1>3. Boundary = IF C = {} THEN None ELSE Max(C)
  BY DEF Boundary
<1>4. \A i \in C : log[i].role = "compaction" /\ log[i].kept < i
  BY DEF LogOK, EntryOK, IsCompaction
<1>5. CASE C = {}
  BY <1>1, <1>3, <1>5 DEF None, IsCompaction
<1>6. CASE C # {}
  <2>1. Max(C) \in C /\ \A i \in C : i <= Max(C)
    BY <1>1, <1>2, <1>6, MaxFacts
  <2> HIDE DEF C
  <2>2. Boundary \in C /\ \A i \in C : i <= Boundary
    BY <2>1, <1>3, <1>6
  <2>3. Boundary \in 1..Len(log)
    BY <2>2, <1>2
  <2> QED BY <2>2, <2>3, <1>1, <1>4 DEF None, C, IsCompaction
<1> QED BY <1>5, <1>6

LEMMA WindowFacts == LogOK(log) => Window \in 0..MaxEntries
<1> SUFFICES ASSUME LogOK(log) PROVE Window \in 0..MaxEntries
  OBVIOUS
<1> DEFINE P == {i \in DOMAIN log : log[i].posthorse}
<1>1. Len(log) \in Nat /\ Len(log) <= MaxEntries /\ P \in SUBSET (1..Len(log))
  BY LenProperties DEF LogOK
<1>2. Window = IF P = {} THEN None ELSE Max(P)
  BY DEF Window
<1> HIDE DEF P
<1>3. CASE P = {}
  <2>1. Window = None
    BY <1>2, <1>3
  <2> QED BY <2>1, BoundsAreNat DEF None
<1>4. CASE P # {}
  <2>1. Max(P) \in 1..Len(log)
    BY <1>1, <1>4, MaxFacts
  <2>2. Window = Max(P)
    BY <1>2, <1>4
  <2>3. PICK k \in Nat : k = Len(log)
    BY <1>1
  <2>4. Window \in 1..k /\ k <= MaxEntries
    BY <1>1, <2>1, <2>2, <2>3
  <2> QED BY <2>4, BoundsAreNat
<1> QED BY <1>3, <1>4

LEMMA InDomain ==
  LogOK(log) => Active \in SUBSET (1..Len(log)) /\ Visible \in SUBSET (1..Len(log))
<1> SUFFICES ASSUME LogOK(log) PROVE InDomain!2
  OBVIOUS
<1>1. Len(log) \in Nat /\ DOMAIN log = 1..Len(log)
  BY LenProperties DEF LogOK
<1>2. /\ Boundary \in 0..Len(log)
      /\ Boundary # None => Boundary \in DOMAIN log
  BY <1>1, BoundaryFacts DEF None
<1>3. Boundary # None => log[Boundary].kept \in Nat
  <2>1. Boundary # None => log[Boundary] \in Entries
    BY <1>1, <1>2, ElementOfSeq DEF LogOK
  <2>2. \A k \in 0..MaxEntries : k \in Nat
    BY BoundsAreNat
  <2> QED BY <2>1, <2>2 DEF Entries
<1>4. KeptRange \in SUBSET (1..Len(log))
  BY <1>1, <1>2, <1>3 DEF KeptRange, None
<1>5. Active \in SUBSET (1..Len(log))
  <2>1. (Boundary + 1) .. Len(log) \in SUBSET (1..Len(log))
    BY <1>1, <1>2
  <2> QED BY <1>4, <2>1 DEF Active
<1> QED BY <1>5 DEF Visible

\* What an entry appended last must be for the session to stay as it should.
Fits(l, e) ==
  /\ e \in Entries
  /\ e.role = "compaction" => e.kept <= Len(l)
  /\ e.posthorse =>
       /\ e.role = "compaction"
       /\ \/ e.marked
          \/ e.kept = None
          \/ e.kept = Len(l) /\ l[Len(l)].role = "sentinel"

LEMMA OneMoreIs ==
  ASSUME NEW l \in Seq(Entries), NEW e \in Entries
  PROVE  /\ l \o <<e>> \in Seq(Entries)
         /\ Len(l \o <<e>>) = Len(l) + 1
         /\ \A i \in 1..Len(l) : (l \o <<e>>)[i] = l[i]
         /\ (l \o <<e>>)[Len(l) + 1] = e
         /\ Len(l) \in Nat
         /\ DOMAIN l = 1..Len(l)
         /\ DOMAIN (l \o <<e>>) = 1..(Len(l) + 1)
<1>1. <<e>> \in Seq(Entries) /\ Len(<<e>>) = 1 /\ <<e>>[1] = e
  OBVIOUS
<1>2. Len(l) \in Nat /\ DOMAIN l = 1..Len(l)
  BY LenProperties
<1>3. /\ l \o <<e>> \in Seq(Entries)
      /\ Len(l \o <<e>>) = Len(l) + 1
      /\ \A i \in 1 .. Len(l) + 1 :
           (l \o <<e>>)[i] = IF i <= Len(l) THEN l[i] ELSE <<e>>[i - Len(l)]
  BY <1>1, ConcatProperties
<1>4. DOMAIN (l \o <<e>>) = 1..(Len(l) + 1)
  BY <1>3, LenProperties
<1> HIDE DEF Entries
<1>5. \A i \in 1..Len(l) : (l \o <<e>>)[i] = l[i]
  BY <1>2, <1>3
<1>6. (l \o <<e>>)[Len(l) + 1] = e
  BY <1>1, <1>2, <1>3
<1> QED BY <1>2, <1>3, <1>4, <1>5, <1>6

LEMMA OneMore ==
  ASSUME NEW l, LogOK(l), NEW e, Fits(l, e), Len(l) < MaxEntries
  PROVE  LogOK(l \o <<e>>)
<1>1. l \in Seq(Entries) /\ e \in Entries
  BY DEF LogOK, Fits
<1>2. PICK m : m = l \o <<e>>
  OBVIOUS
<1>3. /\ m \in Seq(Entries) /\ Len(m) = Len(l) + 1
      /\ \A i \in 1..Len(l) : m[i] = l[i]
      /\ m[Len(l) + 1] = e
      /\ Len(l) \in Nat /\ DOMAIN l = 1..Len(l) /\ DOMAIN m = 1..(Len(l) + 1)
  BY <1>1, <1>2, OneMoreIs
<1>4. Len(m) <= MaxEntries
  BY <1>3, SizesAssumption
<1>5. ASSUME NEW i \in 1..Len(l) PROVE EntryOK(m, i)
  <2>1. EntryOK(l, i) /\ m[i] = l[i]
    BY <1>3 DEF LogOK
  <2>2. i = 1 \/ m[i - 1] = l[i - 1]
    BY <1>3
  <2>3. CASE i = 1
    BY <2>1, <2>3 DEF EntryOK, None
  <2>4. CASE m[i - 1] = l[i - 1]
    BY <2>1, <2>4 DEF EntryOK
  <2> QED BY <2>2, <2>3, <2>4
<1>6. EntryOK(m, Len(l) + 1)
  <2>1. Len(l) + 1 - 1 = Len(l)
    BY <1>3
  <2>2. e.role = "compaction" => e.kept < Len(l) + 1
    BY <1>1, <1>3 DEF Fits, Entries
  <2>3. Len(l) = 0 \/ m[Len(l)] = l[Len(l)]
    BY <1>3
  <2>4. ASSUME e.posthorse
        PROVE  /\ e.role = "compaction"
               /\ \/ e.marked
                  \/ e.kept = None
                  \/ e.kept = Len(l) /\ m[Len(l)].role = "sentinel"
    BY <2>3, <2>4 DEF Fits, None
  <2> QED BY <1>3, <2>1, <2>2, <2>4 DEF EntryOK
<1> QED BY <1>2, <1>3, <1>4, <1>5, <1>6 DEF LogOK

\* A session that ends with a compaction shows what the compaction keeps.
LEMMA AtBoundary ==
  LogOK(log) /\ Len(log) # 0 /\ IsCompaction(Len(log)) =>
    /\ Boundary = Len(log) /\ Boundary # None
    /\ Active = IF log[Len(log)].kept = None THEN {} ELSE log[Len(log)].kept .. (Len(log) - 1)
<1> SUFFICES ASSUME LogOK(log), Len(log) # 0, IsCompaction(Len(log)) PROVE AtBoundary!2
  OBVIOUS
<1>1. Len(log) \in Nat /\ DOMAIN log = 1..Len(log)
  BY LenProperties DEF LogOK
<1>2. Boundary \in 0..Len(log) /\ Len(log) <= Boundary
  BY <1>1, BoundaryFacts DEF IsCompaction
<1>3. Boundary = Len(log) /\ Boundary # None
  <2>1. \A n \in Nat : \A b \in 0..n : n <= b => b = n
    OBVIOUS
  <2>2. Boundary = Len(log)
    BY <1>1, <1>2, <2>1
  <2> QED BY <2>2 DEF None
<1>4. (Boundary + 1) .. Len(log) = {}
  BY <1>1, <1>3
<1> QED BY <1>3, <1>4 DEF Active, KeptRange

----------------------------------------------------------------------------
(* The tail of an automatic rollover. *)

\* A tail that may be kept: it starts at an entry that may start it, fits and is paired.
TailOK(tail, room) ==
  /\ tail \in Active /\ tail # None /\ SafeStart(tail)
  /\ Cost(Suffix(tail)) \in 1..room /\ Paired(Suffix(tail))

LEMMA BoundedTailOK ==
  LogOK(log) => \A start, max : BoundedTail(start, max) = None \/ TailOK(BoundedTail(start, max), max)
<1> SUFFICES ASSUME LogOK(log), NEW start, NEW max, BoundedTail(start, max) # None
             PROVE  TailOK(BoundedTail(start, max), max)
  OBVIOUS
<1> DEFINE fits == {i \in Active : /\ i >= start /\ SafeStart(i)
                                   /\ Cost(Suffix(i)) \in 1..max /\ Paired(Suffix(i))}
<1>1. BoundedTail(start, max) = IF fits = {} THEN None ELSE Min(fits)
  BY DEF BoundedTail
<1>2. fits # {} /\ BoundedTail(start, max) = Min(fits)
  BY <1>1
<1>3. Active \in SUBSET Nat
  <2>1. \A i \in 1..Len(log) : i \in Nat
    BY LenProperties DEF LogOK
  <2> QED BY <2>1, InDomain
<1>4. fits \in SUBSET Nat
  BY <1>3
<1>5. Min(fits) \in fits
  <2> HIDE DEF fits
  <2> QED BY <1>2, <1>4, MinFacts
<1> QED BY <1>2, <1>5 DEF TailOK

LEMMA TailsOK ==
  LogOK(log) =>
    \A prepared, pending : \A tail \in Tails(prepared, pending) :
      tail = None \/ TailOK(tail, TailRoom(pending))
<1> SUFFICES ASSUME LogOK(log), NEW prepared, NEW pending, NEW tail \in Tails(prepared, pending),
                    tail # None
             PROVE  TailOK(tail, TailRoom(pending))
  OBVIOUS
<1>1. PICK s \in Starts(prepared) : tail = BoundedTail(s, TailRoom(pending))
  BY DEF Tails
<1>2. BoundedTail(s, TailRoom(pending)) = None \/ TailOK(BoundedTail(s, TailRoom(pending)), TailRoom(pending))
  BY BoundedTailOK
<1> QED BY <1>1, <1>2

\* From a tail on, nothing that is projected is left out when all is kept.
LEMMA SuffixIs ==
  LogOK(log) => \A tail \in Active :
    /\ tail \in 1..Len(log)
    /\ Suffix(tail) = {i \in (tail..Len(log)) \ omitted : log[i].role \notin {"compaction", "sentinel"}}
<1> SUFFICES ASSUME LogOK(log), NEW tail \in Active
             PROVE  /\ tail \in 1..Len(log)
                    /\ Suffix(tail) = {i \in (tail..Len(log)) \ omitted :
                                         log[i].role \notin {"compaction", "sentinel"}}
  OBVIOUS
<1>1. Len(log) \in Nat /\ DOMAIN log = 1..Len(log)
  BY LenProperties DEF LogOK
<1>2. /\ Active \in SUBSET (1..Len(log))
      /\ Boundary \in 0..Len(log)
      /\ Boundary # None => log[Boundary].role = "compaction"
      /\ Boundary # None => log[Boundary].kept < Boundary
  BY InDomain, BoundaryFacts
<1>3. tail \in 1..Len(log)
  BY <1>2
<1>4. \A i \in tail..Len(log) : i = Boundary \/ i \in Active
  <2>1. Boundary # None => log[Boundary].kept \in Nat
    <3>1. Boundary # None => log[Boundary] \in Entries
      BY <1>1, <1>2, ElementOfSeq DEF LogOK, None
    <3>2. \A k \in 0..MaxEntries : k \in Nat
      BY BoundsAreNat
    <3> QED BY <3>1, <3>2 DEF Entries
  <2> SUFFICES ASSUME NEW i \in tail..Len(log), i # Boundary PROVE i \in Active
    OBVIOUS
  <2>2. CASE i > Boundary
    BY <1>1, <1>2, <1>3, <2>2 DEF Active
  <2>3. CASE i < Boundary
    <3>1. tail \in KeptRange
      BY <1>1, <1>2, <1>3, <2>3 DEF Active
    <3>2. /\ Boundary # None /\ log[Boundary].kept # None
          /\ KeptRange = log[Boundary].kept .. (Boundary - 1)
      BY <3>1 DEF KeptRange
    <3>3. i \in KeptRange
      BY <1>2, <1>3, <2>1, <2>3, <3>1, <3>2
    <3> QED BY <3>3 DEF Active
  <2> QED BY <1>1, <1>2, <1>3, <2>2, <2>3
<1>5. \A i \in Active : i >= tail => i \in tail..Len(log)
  BY <1>1, <1>2, <1>3
<1>6. \A i \in tail..Len(log) : i >= tail
  BY <1>1, <1>3
<1>7. Boundary \in tail..Len(log) => log[Boundary].role = "compaction"
  BY <1>2, <1>3 DEF None
<1> QED BY <1>3, <1>4, <1>5, <1>6, <1>7 DEF Suffix, Visible

----------------------------------------------------------------------------
(* What a step appends. *)

LEMMA MessageIs ==
  ASSUME NEW role \in Roles \ {"compaction"}
  PROVE  Message(role) \in Entries /\ Message(role).role = role /\ Message(role).posthorse = FALSE
<1>1. /\ 1 \in Nat /\ 0 \in 0..MaxCalls /\ None \in 0..MaxEntries
      /\ <<0, 0>> \in (0..MaxEntries) \X (0..MaxCalls) /\ FALSE \in BOOLEAN
  BY BoundsAreNat DEF None
<1> QED BY <1>1 DEF Message, Entries

LEMMA CompactionIs ==
  ASSUME NEW cost \in Nat, NEW kept \in 0..MaxEntries, NEW p \in BOOLEAN, NEW m \in BOOLEAN
  PROVE  LET e == Compaction(cost, kept, p, m)
         IN  /\ e \in Entries /\ e.role = "compaction" /\ e.cost = cost
             /\ e.kept = kept /\ e.posthorse = p /\ e.marked = m
<1>1. /\ 0 \in 0..MaxCalls /\ <<0, 0>> \in (0..MaxEntries) \X (0..MaxCalls)
      /\ "compaction" \in Roles /\ None \in 0..MaxEntries
  BY BoundsAreNat DEF Roles, None
<1> QED BY <1>1 DEF Compaction, Entries

LEMMA MessageFits ==
  ASSUME NEW l, NEW role \in Roles \ {"compaction"}
  PROVE  Fits(l, Message(role)) /\ Message(role).posthorse = FALSE
BY MessageIs DEF Fits

LEMMA QueuedFits ==
  ASSUME NEW l, NEW e \in Queueable
  PROVE  Fits(l, e) /\ e.posthorse = FALSE
<1>1. "user" \in Roles \ {"compaction"} /\ "reminder" \in Roles \ {"compaction"}
  BY DEF Roles
<1>2. ASSUME e = Input
      PROVE  Fits(l, e) /\ e.posthorse = FALSE
  <2>1. Message("user") \in Entries /\ Message("user").role = "user"
        /\ Message("user").posthorse = FALSE
    BY <1>1, MessageIs
  <2>2. PICK d : d = Message("user")
    OBVIOUS
  <2>3. e = [d EXCEPT !.cost = InputCost]
    BY <1>2, <2>2 DEF Input
  <2>4. e \in Entries /\ e.role = "user" /\ e.posthorse = FALSE
    BY <2>1, <2>2, <2>3, BoundsAreNat DEF Entries
  <2> QED BY <2>4 DEF Fits
<1>3. ASSUME NEW w \in 0..MaxEntries, e = Reminder(w)
      PROVE  Fits(l, e) /\ e.posthorse = FALSE
  <2>1. Message("reminder") \in Entries /\ Message("reminder").role = "reminder"
        /\ Message("reminder").posthorse = FALSE
    BY <1>1, MessageIs
  <2>2. PICK d : d = Message("reminder")
    OBVIOUS
  <2>3. e = [d EXCEPT !.window = w]
    BY <1>3, <2>2 DEF Reminder
  <2>4. e \in Entries /\ e.role = "reminder" /\ e.posthorse = FALSE
    BY <2>1, <2>2, <2>3 DEF Entries
  <2> QED BY <2>4 DEF Fits
<1> QED BY <1>2, <1>3 DEF Queueable

\* A boundary of Posthorse's that announces m.
LEMMA RecordFits ==
  ASSUME NEW l, LogOK(l), Len(l) < MaxEntries, NEW cost \in Nat, NEW kept \in 0..Len(l), NEW m \in BOOLEAN,
         m \/ kept = None \/ (kept = Len(l) /\ l[Len(l)].role = "sentinel")
  PROVE  Fits(l, Compaction(cost, kept, TRUE, m))
<1>1. Len(l) \in Nat
  BY LenProperties DEF LogOK
<1>2. kept \in 0..MaxEntries /\ kept <= Len(l)
  BY <1>1, BoundsAreNat
<1>3. PICK e : e = Compaction(cost, kept, TRUE, m)
  OBVIOUS
<1>4. e \in Entries /\ e.role = "compaction" /\ e.kept = kept /\ e.marked = m
  <2>1. TRUE \in BOOLEAN /\ m \in BOOLEAN /\ cost \in Nat
    OBVIOUS
  <2>2. e \in Entries /\ e.role = "compaction" /\ e.kept = kept
    <3>1. \A k \in 0..MaxEntries : Compaction(cost, k, TRUE, m) \in Entries
      <4>1. /\ 0 \in 0..MaxCalls /\ <<0, 0>> \in (0..MaxEntries) \X (0..MaxCalls)
            /\ "compaction" \in Roles /\ None \in 0..MaxEntries
        BY BoundsAreNat DEF Roles, None
      <4> QED BY <2>1, <4>1 DEF Compaction, Entries
    <3> QED BY <1>2, <1>3, <3>1 DEF Compaction
  <2>3. e.marked = m
    BY <1>3, <2>1 DEF Compaction
  <2> QED BY <2>2, <2>3
<1>5. Fits(l, e)
  BY <1>2, <1>4 DEF Fits
<1> QED BY <1>3, <1>5

\* A boundary that is not Posthorse's.
LEMMA ForeignFits ==
  ASSUME NEW l, LogOK(l), Len(l) < MaxEntries, NEW kept \in 0..Len(l)
  PROVE  /\ Fits(l, Compaction(1, kept, FALSE, FALSE))
         /\ Compaction(1, kept, FALSE, FALSE).posthorse = FALSE
<1>1. Len(l) \in Nat
  BY LenProperties DEF LogOK
<1>2. kept \in 0..MaxEntries /\ kept <= Len(l)
  BY <1>1, BoundsAreNat
<1>3. PICK e : e = Compaction(1, kept, FALSE, FALSE)
  OBVIOUS
<1>4. e \in Entries /\ e.role = "compaction" /\ e.kept = kept /\ e.posthorse = FALSE
  <2>1. 1 \in Nat /\ FALSE \in BOOLEAN
    OBVIOUS
  <2> QED BY <1>2, <1>3, <2>1, CompactionIs, Zenon
<1>5. Fits(l, e)
  BY <1>2, <1>4 DEF Fits
<1> QED BY <1>3, <1>4, <1>5

\* The session goes on with e.
Ends(l, e) ==
  /\ Len(log') = Len(l) + 1 /\ log'[Len(l) + 1] = e
  /\ \A i \in 1..Len(l) : log'[i] = l[i]

LEMMA EndIsLast ==
  ASSUME NEW l, NEW e, Len(l) \in Nat, Ends(l, e)
  PROVE  /\ Len(log') = Len(l) + 1 /\ log'[Len(log')] = e
         /\ Len(log') # 0 /\ Len(log') - 1 = Len(l)
BY DEF Ends

LEMMA AppendOne ==
  ASSUME NEW l, LogOK(l), NEW e, Fits(l, e), log' = l \o <<e>>, Len(log') <= MaxEntries
  PROVE  LogOK(log') /\ Ends(l, e) /\ Len(l) \in Nat /\ Len(l) < MaxEntries
<1>1. l \in Seq(Entries) /\ e \in Entries
  BY DEF LogOK, Fits
<1>2. /\ Len(log') = Len(l) + 1 /\ log'[Len(l) + 1] = e
      /\ \A i \in 1..Len(l) : log'[i] = l[i]
      /\ Len(l) \in Nat
  BY <1>1, OneMoreIs
<1>3. Len(l) < MaxEntries
  <2>1. \A n \in Nat : n + 1 <= MaxEntries => n < MaxEntries
    BY BoundsAreNat
  <2> QED BY <1>2, <2>1
<1> QED BY <1>2, <1>3, OneMore DEF Ends

\* Two entries are appended one after the other.
LEMMA TwoAreOneAndOne ==
  ASSUME NEW l, LogOK(l), NEW d \in Entries, NEW e \in Entries, NEW m,
         m = l \o (<<d>> \o <<e>>) \/ m = l \o <<d, e>>, Len(m) <= MaxEntries
  PROVE  m = (l \o <<d>>) \o <<e>> /\ Len(l \o <<d>>) < MaxEntries /\ Len(l) < MaxEntries
<1>1. l \in Seq(Entries) /\ <<d>> \in Seq(Entries) /\ <<e>> \in Seq(Entries)
  BY DEF LogOK
<1>2. <<d>> \o <<e>> = <<d, e>>
  <2>1. <<d, e>> \in Seq(Entries) /\ Len(<<d, e>>) = 2 /\ <<d, e>>[1] = d /\ <<d, e>>[2] = e
    OBVIOUS
  <2>2. Len(<<d>>) = 1 /\ Len(<<e>>) = 1 /\ <<d>>[1] = d /\ <<e>>[1] = e
    OBVIOUS
  <2>3. PICK f : f = <<d>> \o <<e>>
    OBVIOUS
  <2>4. /\ f \in Seq(Entries) /\ Len(f) = 2
        /\ \A i \in 1..2 : f[i] = IF i <= 1 THEN <<d>>[i] ELSE <<e>>[i - 1]
    BY <1>1, <2>2, <2>3, ConcatProperties
  <2>5. f[1] = d /\ f[2] = e
    BY <2>2, <2>4
  <2>6. \A i \in 1..2 : i = 1 \/ i = 2
    OBVIOUS
  <2>7. f = <<d, e>>
    BY <2>1, <2>4, <2>5, <2>6, SeqEqual
  <2> QED BY <2>3, <2>7
<1>3. m = (l \o <<d>>) \o <<e>>
  <2>1. m = l \o (<<d>> \o <<e>>)
    BY <1>2
  <2>2. (l \o <<d>>) \o <<e>> = l \o (<<d>> \o <<e>>)
    BY <1>1, ConcatAssociative, SMT
  <2> QED BY <2>1, <2>2
<1>4. PICK k : k = l \o <<d>>
  OBVIOUS
<1>5. k \in Seq(Entries) /\ Len(k) = Len(l) + 1 /\ Len(l) \in Nat
  BY <1>1, <1>4, OneMoreIs
<1>6. Len(m) = Len(k) + 1
  BY <1>3, <1>4, <1>5, OneMoreIs
<1>7. Len(l) < MaxEntries /\ Len(k) < MaxEntries
  <2>1. \A n \in Nat : n + 1 + 1 <= MaxEntries => n < MaxEntries /\ n + 1 < MaxEntries
    BY BoundsAreNat
  <2> QED BY <1>5, <1>6, <2>1
<1> QED BY <1>3, <1>4, <1>7

LEMMA AppendNone ==
  ASSUME LogOK(log), log' = log \o <<>>
  PROVE  log' = log
BY ConcatEmptySeq DEF LogOK

----------------------------------------------------------------------------
(* A step that commits a boundary of Posthorse's. *)

PendingNow == IF phase = "tools" THEN Pending ELSE 0

\* It keeps a tail that may be kept, or nothing; the room is that of the pending input.
RollsOver(record, tail) ==
  /\ record \in Records /\ record <= Limit(PendingNow)
  /\ tail = None \/ TailOK(tail, TailRoom(PendingNow))
  /\ tail # None => omitted' = omitted
  /\ \A i \in 1..Len(log) : log'[i] = log[i]
  /\ Len(log') # 0
  /\ LET e == log'[Len(log')]
     IN  /\ e.role = "compaction" /\ e.cost = record
         /\ tail # None => Len(log') = Len(log) + 1 /\ e.kept = tail /\ e.marked = TRUE
         /\ tail = None =>
              /\ e.marked = FALSE
              /\ \/ e.kept = None
                 \/ e.kept = Len(log') - 1 /\ log'[Len(log') - 1].role = "sentinel"

\* What a step does to the session.
Outcome ==
  /\ LogOK(log')
  /\ \A i \in 1..Len(log) : i \in 1..Len(log') /\ log'[i] = log[i]
  /\ Commits => \E record \in Records : \E tail : RollsOver(record, tail)

LEMMA Unwritten ==
  ASSUME LogOK(log), log' = log
  PROVE  Outcome
<1>1. Len(log) \in Nat /\ Len(log') = Len(log)
  BY LenProperties DEF LogOK
<1>2. ~Commits
  BY <1>1 DEF Commits
<1> QED BY <1>1, <1>2 DEF Outcome

\* l is the session, and perhaps an entry more.
Extends(l) ==
  /\ LogOK(l) /\ Len(l) < MaxEntries
  /\ \A i \in 1..Len(log) : i \in 1..Len(l) /\ l[i] = log[i]

LEMMA NotedAfter ==
  ASSUME NEW l, Extends(l), NEW e, Fits(l, e), e.posthorse = FALSE,
         log' = l \o <<e>>, Len(log') <= MaxEntries
  PROVE  Outcome
<1>1. LogOK(log') /\ Ends(l, e) /\ Len(l) \in Nat
  BY AppendOne DEF Extends
<1>2. log'[Len(log')] = e
  BY <1>1, EndIsLast
<1>3. ~Commits
  BY <1>2 DEF Commits
<1>4. \A i \in 1..Len(log) : i \in 1..Len(log') /\ log'[i] = log[i]
  BY <1>1 DEF Ends, Extends
<1> QED BY <1>1, <1>3, <1>4 DEF Outcome

LEMMA Noted ==
  ASSUME LogOK(log), NEW e, Fits(log, e), e.posthorse = FALSE, Append2(<<e>>)
  PROVE  Outcome
<1>1. log' = log \o <<e>> /\ Len(log') <= MaxEntries
  BY DEF Append2
<1>2. Len(log) < MaxEntries
  BY <1>1, AppendOne
<1>3. Extends(log)
  BY <1>2 DEF Extends
<1> QED BY <1>1, <1>3, NotedAfter

\* A message, a sentinel included.
LEMMA MessageStep ==
  ASSUME LogOK(log), NEW role \in Roles \ {"compaction"}, Append2(<<Message(role)>>)
  PROVE  Outcome
<1>1. Fits(log, Message(role)) /\ Message(role).posthorse = FALSE
  BY MessageFits
<1> QED BY <1>1, Noted

LEMMA ForeignStep ==
  ASSUME LogOK(log), NEW kept \in 0..Len(log), Append2(<<Compaction(1, kept, FALSE, FALSE)>>)
  PROVE  Outcome
<1>1. Len(log) < MaxEntries
  <2>1. PICK e : e = Compaction(1, kept, FALSE, FALSE)
    OBVIOUS
  <2>2. log \in Seq(Entries) /\ log' = log \o <<e>> /\ Len(log') <= MaxEntries
    BY <2>1 DEF LogOK, Append2
  <2>3. kept \in 0..MaxEntries
    <3>1. Len(log) \in Nat /\ Len(log) <= MaxEntries
      BY LenProperties DEF LogOK
    <3> QED BY <3>1, BoundsAreNat
  <2>4. e \in Entries
    <3>1. 1 \in Nat /\ FALSE \in BOOLEAN
      OBVIOUS
    <3> QED BY <2>1, <2>3, <3>1, CompactionIs, Zenon
  <2>5. Len(log') = Len(log) + 1 /\ Len(log) \in Nat
    BY <2>2, <2>4, OneMoreIs
  <2>6. \A n \in Nat : n + 1 <= MaxEntries => n < MaxEntries
    BY BoundsAreNat
  <2> QED BY <2>2, <2>5, <2>6
<1>2. Fits(log, Compaction(1, kept, FALSE, FALSE)) /\ Compaction(1, kept, FALSE, FALSE).posthorse = FALSE
  BY <1>1, ForeignFits
<1> QED BY <1>2, Noted

\* A boundary of Posthorse's after l, which is the session or the session and an entry more.
LEMMA RecordStep ==
  ASSUME LogOK(log), NEW l, Extends(l),
         NEW record \in Records, record <= Limit(PendingNow),
         NEW tail, NEW kept \in 0..Len(l), NEW m \in BOOLEAN,
         log' = l \o <<Compaction(record, kept, TRUE, m)>>, Len(log') <= MaxEntries,
         tail # None => omitted' = omitted,
         \/ /\ tail # None /\ TailOK(tail, TailRoom(PendingNow))
            /\ kept = tail /\ m = TRUE /\ l = log
         \/ /\ tail = None /\ m = FALSE
            /\ kept = None \/ (kept = Len(l) /\ l[Len(l)].role = "sentinel")
  PROVE  Outcome
<1>1. PICK e : e = Compaction(record, kept, TRUE, m)
  OBVIOUS
<1>2. record \in Nat
  BY SizesAssumption
<1>3. Fits(l, e)
  BY <1>1, <1>2, RecordFits DEF Extends
<1>4. LogOK(log') /\ Ends(l, e) /\ Len(l) \in Nat
  BY <1>1, <1>3, AppendOne DEF Extends
<1>5. e.role = "compaction" /\ e.cost = record /\ e.kept = kept /\ e.marked = m
  BY <1>1 DEF Compaction
<1>6. \A i \in 1..Len(log) : i \in 1..Len(log') /\ log'[i] = log[i]
  BY <1>4 DEF Ends, Extends
<1>7. Len(log') = Len(l) + 1 /\ log'[Len(log')] = e /\ Len(log') # 0 /\ Len(log') - 1 = Len(l)
  BY <1>4, EndIsLast
<1>8. kept = Len(l) /\ kept # None => log'[Len(l)] = l[Len(l)]
  BY <1>4 DEF Ends, None
<1>9. RollsOver(record, tail)
  BY <1>4, <1>5, <1>6, <1>7, <1>8 DEF RollsOver
<1> QED BY <1>4, <1>6, <1>9 DEF Outcome

LEMMA ForeignIsEntry ==
  ASSUME NEW kept \in 0..MaxEntries
  PROVE  Compaction(1, kept, FALSE, FALSE) \in Entries
<1>1. 1 \in Nat /\ FALSE \in BOOLEAN
  OBVIOUS
<1> QED BY <1>1, CompactionIs, Zenon

\* An earlier handler's boundary, if any, and then e.
LEMMA AfterEarlier ==
  ASSUME LogOK(log), NEW drafted \in Drafts, NEW e \in Entries,
         Append2(Earlier(drafted) \o <<e>>)
  PROVE  \E l : Extends(l) /\ log' = l \o <<e>> /\ Len(log') <= MaxEntries
<1>1. log' = log \o (Earlier(drafted) \o <<e>>) /\ Len(log') <= MaxEntries
  BY DEF Append2
<1>2. log \in Seq(Entries) /\ <<e>> \in Seq(Entries) /\ Len(log) \in Nat
  BY LenProperties DEF LogOK
<1>3. CASE drafted = "boundary"
  <2>1. PICK d : d = Compaction(1, None, FALSE, FALSE)
    OBVIOUS
  <2>2. None \in 0..MaxEntries /\ None \in 0..Len(log)
    BY <1>2, BoundsAreNat DEF None
  <2>3. d \in Entries
    BY <2>1, <2>2, ForeignIsEntry
  <2>4. log' = log \o (<<d>> \o <<e>>)
    BY <1>1, <1>3, <2>1 DEF Earlier
  <2>5. log' = (log \o <<d>>) \o <<e>> /\ Len(log \o <<d>>) < MaxEntries /\ Len(log) < MaxEntries
    BY <1>1, <2>3, <2>4, TwoAreOneAndOne
  <2>6. Fits(log, d)
    BY <2>1, <2>2, <2>5, ForeignFits
  <2>7. PICK l : l = log \o <<d>>
    OBVIOUS
  <2>8. LogOK(l)
    BY <2>5, <2>6, <2>7, OneMore
  <2>9. \A i \in 1..Len(log) : i \in 1..Len(l) /\ l[i] = log[i]
    BY <1>2, <2>3, <2>7, OneMoreIs
  <2> QED BY <1>1, <2>5, <2>7, <2>8, <2>9 DEF Extends
<1>4. CASE drafted # "boundary"
  <2>1. Earlier(drafted) \o <<e>> = <<e>>
    BY <1>2, <1>4, ConcatEmptySeq DEF Earlier
  <2>2. log' = log \o <<e>>
    BY <1>1, <2>1
  <2>3. Len(log') = Len(log) + 1
    BY <1>2, <2>2, OneMoreIs
  <2>4. \A n \in Nat : n + 1 <= MaxEntries => n < MaxEntries
    BY BoundsAreNat
  <2>5. Len(log) < MaxEntries
    BY <1>1, <1>2, <2>3, <2>4
  <2> QED BY <1>1, <2>2, <2>5 DEF Extends
<1> QED BY <1>3, <1>4

LEMMA EarlierStep ==
  ASSUME LogOK(log), NEW drafted \in Drafts, Append2(Earlier(drafted))
  PROVE  Outcome
<1>1. CASE drafted = "boundary"
  <2>1. None \in 0..Len(log)
    BY LenProperties DEF LogOK, None
  <2>2. Append2(<<Compaction(1, None, FALSE, FALSE)>>)
    BY <1>1 DEF Earlier
  <2> QED BY <2>1, <2>2, ForeignStep
<1>2. CASE drafted # "boundary"
  <2>1. log' = log \o <<>>
    BY <1>2 DEF Earlier, Append2
  <2> QED BY <2>1, AppendNone, Unwritten
<1> QED BY <1>1, <1>2

LEMMA LimitIsNat ==
  ASSUME NEW pending \in Nat
  PROVE  /\ Limit(pending) \in Nat /\ TailRoom(pending) \in Int /\ Payload(pending) \in Nat
         /\ Limit(pending) <= Payload(pending)
         /\ Payload(pending) # 0 => 2 * Payload(pending) <= Line - Margin - Overhead - pending
<1>1. /\ Payload(pending) \in Nat
      /\ Payload(pending) # 0 => 2 * Payload(pending) <= Line - Margin - Overhead - pending
  BY BoundsAreNat DEF Payload, AtLeast0
<1>2. Limit(pending) \in Nat /\ Limit(pending) <= Payload(pending)
  BY <1>1, BoundsAreNat DEF Limit, Smaller
<1> QED BY <1>1, <1>2 DEF TailRoom

LEMMA ExplicitResetStep ==
  ASSUME LogOK(log), phase = "tools", Pending \in Nat, NEW handoff \in Records, NEW drafted \in Drafts,
         ExplicitReset(handoff, drafted)
  PROVE  Outcome
<1>1. CASE handoff > Limit(Pending)
  <2>1. Append2(Earlier(drafted) \o <<Message("custom")>>)
    BY <1>1 DEF ExplicitReset
  <2>2. "custom" \in Roles \ {"compaction"}
    BY DEF Roles
  <2>3. Message("custom") \in Entries
    BY <2>2, MessageIs
  <2>4. PICK l : Extends(l) /\ log' = l \o <<Message("custom")>> /\ Len(log') <= MaxEntries
    BY <2>1, <2>3, AfterEarlier
  <2>5. Fits(l, Message("custom")) /\ Message("custom").posthorse = FALSE
    BY <2>2, MessageFits
  <2> QED BY <2>4, <2>5, NotedAfter
<1>2. CASE ~(handoff > Limit(Pending))
  <2>1. Append2(Earlier(drafted) \o <<Compaction(handoff, None, TRUE, FALSE)>>)
    BY <1>2 DEF ExplicitReset
  <2>2. handoff \in Nat /\ handoff <= Limit(PendingNow)
    <3>1. Limit(Pending) \in Nat
      BY LimitIsNat
    <3>2. handoff \in Nat
      BY SizesAssumption
    <3>3. PendingNow = Pending
      BY DEF PendingNow
    <3>4. \A m, n \in Nat : ~(m > n) => m <= n
      OBVIOUS
    <3> QED BY <1>2, <3>1, <3>2, <3>3, <3>4
  <2>3. Compaction(handoff, None, TRUE, FALSE) \in Entries
    <3>1. TRUE \in BOOLEAN /\ FALSE \in BOOLEAN /\ None \in 0..MaxEntries
      BY BoundsAreNat DEF None
    <3>2. /\ 0 \in 0..MaxCalls /\ <<0, 0>> \in (0..MaxEntries) \X (0..MaxCalls)
          /\ "compaction" \in Roles /\ None \in 0..MaxEntries
      BY BoundsAreNat DEF Roles, None
    <3> QED BY <2>2, <3>1, <3>2 DEF Compaction, Entries
  <2>4. PICK l : /\ Extends(l) /\ log' = l \o <<Compaction(handoff, None, TRUE, FALSE)>>
                 /\ Len(log') <= MaxEntries
    BY <2>1, <2>3, AfterEarlier
  <2>5. None \in 0..Len(l)
    BY <2>4, LenProperties DEF Extends, LogOK, None
  <2>6. FALSE \in BOOLEAN
    OBVIOUS
  <2> QED BY <2>2, <2>4, <2>5, <2>6, RecordStep
<1> QED BY <1>1, <1>2

LEMMA FallbackStep ==
  ASSUME LogOK(log), phase = "tools", Pending \in Nat, Fallback, omitted' = omitted
  PROVE  Outcome
<1>1. PICK record \in Records, tail \in Tails(None, Pending) :
        Recoverable(record, Pending) /\ Append2(<<Compaction(record, tail, TRUE, tail # None)>>)
  BY DEF Fallback
<1>2. PendingNow = Pending /\ record <= Limit(PendingNow)
  BY <1>1 DEF PendingNow, Recoverable
<1>3. tail = None \/ TailOK(tail, TailRoom(PendingNow))
  BY <1>2, TailsOK
<1>4. PICK m \in BOOLEAN : m = (tail # None)
  OBVIOUS
<1>5. log' = log \o <<Compaction(record, tail, TRUE, m)>> /\ Len(log') <= MaxEntries
  BY <1>1, <1>4 DEF Append2
<1>6. Len(log) \in Nat /\ tail \in 0..Len(log)
  <2>1. Len(log) \in Nat
    BY LenProperties DEF LogOK
  <2>2. tail = None \/ tail \in 1..Len(log)
    BY <1>3, InDomain DEF TailOK
  <2> QED BY <2>1, <2>2 DEF None
<1>7. Len(log) < MaxEntries
  <2>1. PICK e : e = Compaction(record, tail, TRUE, m)
    OBVIOUS
  <2>2. log \in Seq(Entries) /\ Len(log) <= MaxEntries
    BY DEF LogOK
  <2>3. e \in Entries
    <3>1. TRUE \in BOOLEAN /\ tail \in 0..MaxEntries /\ record \in Nat
      BY <1>6, <2>2, BoundsAreNat, SizesAssumption
    <3>2. /\ 0 \in 0..MaxCalls /\ <<0, 0>> \in (0..MaxEntries) \X (0..MaxCalls)
          /\ "compaction" \in Roles /\ None \in 0..MaxEntries
      BY BoundsAreNat DEF Roles, None
    <3> QED BY <2>1, <3>1, <3>2 DEF Compaction, Entries
  <2>4. Len(log') = Len(log) + 1
    BY <1>5, <2>1, <2>2, <2>3, OneMoreIs
  <2>5. \A n \in Nat : n + 1 <= MaxEntries => n < MaxEntries
    BY BoundsAreNat
  <2> QED BY <1>5, <1>6, <2>4, <2>5
<1>8. Extends(log)
  BY <1>7 DEF Extends
<1>9. CASE tail = None
  <2>1. m = FALSE
    BY <1>4, <1>9
  <2> QED BY <1>2, <1>5, <1>6, <1>8, <1>9, <2>1, RecordStep
<1>10. CASE tail # None
  <2>1. m = TRUE
    BY <1>4, <1>10
  <2> QED BY <1>2, <1>3, <1>5, <1>6, <1>8, <1>10, <2>1, RecordStep
<1> QED BY <1>9, <1>10

LEMMA DraftStep ==
  ASSUME LogOK(log), phase # "tools", omitted' = omitted,
         NEW prepared, NEW record \in Records, Recoverable(record, 0),
         NEW tail \in Tails(prepared, 0), Append2(Draft(prepared, record, tail))
  PROVE  Outcome
<1>1. PendingNow = 0 /\ record <= Limit(PendingNow)
  BY DEF PendingNow, Recoverable
<1>2. tail = None \/ TailOK(tail, TailRoom(PendingNow))
  BY <1>1, TailsOK
<1>3. log \in Seq(Entries) /\ Len(log) \in Nat /\ Len(log) <= MaxEntries
  BY LenProperties DEF LogOK
<1>4. record \in Nat
  BY SizesAssumption
<1>5. \A k \in 0..MaxEntries, m \in BOOLEAN : Compaction(record, k, TRUE, m) \in Entries
  <2>1. /\ 0 \in 0..MaxCalls /\ <<0, 0>> \in (0..MaxEntries) \X (0..MaxCalls)
        /\ "compaction" \in Roles /\ None \in 0..MaxEntries /\ TRUE \in BOOLEAN
    BY BoundsAreNat DEF Roles, None
  <2> QED BY <1>4, <2>1 DEF Compaction, Entries
<1>6. CASE tail # None
  <2>1. TRUE \in BOOLEAN /\ tail \in 0..Len(log) /\ tail \in 0..MaxEntries
    <3>1. tail \in 1..Len(log)
      BY <1>2, <1>6, InDomain DEF TailOK
    <3> QED BY <1>3, <3>1, BoundsAreNat
  <2>2. log' = log \o <<Compaction(record, tail, TRUE, TRUE)>> /\ Len(log') <= MaxEntries
    BY <1>6 DEF Append2, Draft
  <2>3. Len(log') = Len(log) + 1
    BY <1>3, <1>5, <2>1, <2>2, OneMoreIs
  <2>4. Len(log) < MaxEntries
    <3>1. \A n \in Nat : n + 1 <= MaxEntries => n < MaxEntries
      BY BoundsAreNat
    <3> QED BY <1>3, <2>2, <2>3, <3>1
  <2>5. Extends(log)
    BY <2>4 DEF Extends
  <2> QED BY <1>1, <1>2, <1>6, <2>1, <2>2, <2>5, RecordStep
<1>7. CASE tail = None
  <2>1. PICK d : d = Message("sentinel")
    OBVIOUS
  <2>2. d \in Entries /\ d.role = "sentinel" /\ Fits(log, d)
    <3>1. "sentinel" \in Roles \ {"compaction"}
      BY DEF Roles
    <3> QED BY <2>1, <3>1, MessageIs, MessageFits
  <2>3. PICK l : l = log \o <<d>>
    OBVIOUS
  <2>4. /\ l \in Seq(Entries) /\ Len(l) = Len(log) + 1 /\ l[Len(log) + 1] = d
        /\ \A i \in 1..Len(log) : l[i] = log[i]
    BY <1>3, <2>2, <2>3, OneMoreIs
  <2>5. log' = log \o <<d, Compaction(record, Len(l), TRUE, FALSE)>> /\ Len(log') <= MaxEntries
    BY <1>7, <2>1, <2>4 DEF Append2, Draft
  <2>6. Len(log) < MaxEntries /\ Len(l) \in 0..MaxEntries
    <3>1. PICK e : e = Compaction(record, Len(l), TRUE, FALSE)
      OBVIOUS
    <3>2. Len(log') = Len(log) + 2
      <4>1. <<d, e>> \in Seq({d, e}) /\ Len(<<d, e>>) = 2
        OBVIOUS
      <4>2. log \in Seq(Entries \cup {d, e}) /\ <<d, e>> \in Seq(Entries \cup {d, e})
        BY <1>3, <4>1, SeqMonotonic
      <4> QED BY <2>5, <3>1, <4>1, <4>2, ConcatProperties
    <3>3. \A n \in Nat : n + 2 <= MaxEntries => n < MaxEntries /\ n + 1 \in 0..MaxEntries
      BY BoundsAreNat
    <3> QED BY <1>3, <2>4, <2>5, <3>2, <3>3
  <2>7. Compaction(record, Len(l), TRUE, FALSE) \in Entries
    <3>1. FALSE \in BOOLEAN
      OBVIOUS
    <3> QED BY <1>5, <2>6, <3>1
  <2>8. log' = l \o <<Compaction(record, Len(l), TRUE, FALSE)>> /\ Len(l) < MaxEntries
    BY <2>2, <2>3, <2>5, <2>7, TwoAreOneAndOne, ZenonT(30)
  <2>9. LogOK(l)
    BY <2>2, <2>3, <2>6, OneMore
  <2>10. \A i \in 1..Len(log) : i \in 1..Len(l) /\ l[i] = log[i]
    BY <1>3, <2>4
  <2>11. Extends(l)
    BY <2>8, <2>9, <2>10 DEF Extends
  <2>12. Len(l) \in 0..Len(l) /\ FALSE \in BOOLEAN /\ l[Len(l)].role = "sentinel"
    BY <1>3, <2>2, <2>4
  <2> QED BY <1>1, <1>7, <2>5, <2>8, <2>11, <2>12, RecordStep
<1> QED BY <1>6, <1>7

LEMMA TurnEndStep ==
  ASSUME LogOK(log), TypeOK, NEW stop, NEW outcome, NEW handoff \in Records \cup {None},
         NEW drafted \in Drafts, NEW automatic \in BOOLEAN,
         TurnEnd(stop, outcome, handoff, drafted, automatic)
  PROVE  Outcome
<1>1. phase = "tools"
  BY DEF TurnEnd
<1>2. Pending \in Nat
  BY PendingIsNat
<1>3. CASE Append2(Earlier(drafted))
  BY <1>3, EarlierStep
<1>4. CASE handoff # None /\ ExplicitReset(handoff, drafted)
  BY <1>1, <1>2, <1>4, ExplicitResetStep
<1>5. CASE drafted = "nothing" /\ Fallback
  <2>1. omitted' = omitted
    BY <1>5 DEF TurnEnd, Edited
  <2> QED BY <1>1, <1>2, <1>5, <2>1, FallbackStep
<1> QED BY <1>3, <1>4, <1>5 DEF TurnEnd, FallbackDue

LEMMA RespondStep ==
  ASSUME LogOK(log), NEW calls \in 0..MaxCalls, Respond(calls)
  PROVE  Outcome
<1>1. PICK e : e = [Message("assistant") EXCEPT !.calls = calls]
  OBVIOUS
<1>2. e \in Entries /\ e.role = "assistant" /\ e.posthorse = FALSE
  <2>1. /\ 1 \in Nat /\ None \in 0..MaxEntries
        /\ <<0, 0>> \in (0..MaxEntries) \X (0..MaxCalls) /\ FALSE \in BOOLEAN
        /\ "assistant" \in Roles
    BY BoundsAreNat DEF None, Roles
  <2> QED BY <1>1, <2>1 DEF Message, Entries
<1>3. Fits(log, e)
  BY <1>2 DEF Fits
<1>4. Append2(<<e>>)
  BY <1>1 DEF Respond, Say
<1> QED BY <1>2, <1>3, <1>4, Noted

LEMMA CallsAre ==
  ASSUME LogOK(log), NEW S \in SUBSET (1..Len(log)), NEW c \in CallsOf(S)
  PROVE  c \in (0..MaxEntries) \X (0..MaxCalls)
<1>1. Len(log) \in Nat /\ Len(log) <= MaxEntries
  BY LenProperties DEF LogOK
<1>2. c[1] \in S /\ c[2] \in 1..MaxCalls /\ c = <<c[1], c[2]>>
  BY DEF CallsOf
<1>3. c[1] \in 0..MaxEntries /\ c[2] \in 0..MaxCalls
  BY <1>1, <1>2, BoundsAreNat
<1> QED BY <1>2, <1>3

LEMMA FinishStep ==
  ASSUME LogOK(log), NEW call \in CallsOf(DOMAIN log), NEW cost \in Costs, Finish(call, cost)
  PROVE  Outcome
<1>1. PICK e : e = [Message("result") EXCEPT !.call = call, !.cost = cost]
  OBVIOUS
<1>2. call \in (0..MaxEntries) \X (0..MaxCalls)
  BY CallsAre, LenProperties DEF LogOK
<1>3. e \in Entries /\ e.role = "result" /\ e.posthorse = FALSE
  <2>1. /\ cost \in Nat /\ None \in 0..MaxEntries /\ 0 \in 0..MaxCalls /\ FALSE \in BOOLEAN
        /\ "result" \in Roles
    BY BoundsAreNat, SizesAssumption DEF None, Roles
  <2> QED BY <1>1, <1>2, <2>1 DEF Message, Entries
<1>4. Fits(log, e)
  BY <1>3 DEF Fits
<1>5. Append2(<<e>>)
  BY <1>1 DEF Finish, Say
<1> QED BY <1>3, <1>4, <1>5, Noted

LEMMA NextStep == TypeOK /\ LogOK(log) /\ [Next]_vars => Outcome
<1> SUFFICES ASSUME TypeOK, LogOK(log), [Next]_vars PROVE Outcome
  OBVIOUS
<1>1. CASE \E stop \in {"toolUse", "length", "error", "aborted"},
              outcome \in {"completed", "aborted"}, handoff \in Records \cup {None},
              drafted \in Drafts, automatic \in BOOLEAN : TurnEnd(stop, outcome, handoff, drafted, automatic)
  BY <1>1, TurnEndStep
<1>2. CASE \E prepared \in DOMAIN log, record \in Records : BeforeCompact(prepared, record)
  <2>1. PICK prepared \in DOMAIN log, record \in Records : BeforeCompact(prepared, record)
    BY <1>2
  <2>2. phase # "tools" /\ omitted' = omitted /\ Recoverable(record, 0)
    BY <2>1 DEF BeforeCompact
  <2>3. PICK tail \in Tails(prepared, 0) : Append2(Draft(prepared, record, tail))
    BY <2>1 DEF BeforeCompact
  <2> QED BY <2>2, <2>3, DraftStep
<1>3. CASE CancelDraft
  <2>1. Append2(<<Message("sentinel")>>) /\ "sentinel" \in Roles \ {"compaction"}
    BY <1>3 DEF CancelDraft, Roles
  <2> QED BY <2>1, MessageStep
<1>4. CASE \E kept \in DOMAIN log : NativeCompact(kept)
  <2>1. PICK kept \in DOMAIN log : Append2(<<Compaction(1, kept, FALSE, FALSE)>>)
    BY <1>4 DEF NativeCompact
  <2>2. kept \in 0..Len(log)
    BY <2>1, LenProperties DEF LogOK
  <2> QED BY <2>1, <2>2, ForeignStep
<1>5. CASE Request \/ Steer \/ Continue \/ Restart \/ (\E i \in DOMAIN log : Omit(i)) \/ UNCHANGED vars
  <2>1. log' = log
    BY <1>5 DEF Request, Steer, Continue, Restart, Omit, vars
  <2> QED BY <2>1, Unwritten
<1>6. CASE Prompt
  <2>1. Append2(<<Message("user")>>) /\ "user" \in Roles \ {"compaction"}
    BY <1>6 DEF Prompt, Say, Roles
  <2> QED BY <2>1, MessageStep
<1>7. CASE \E calls \in 0..MaxCalls : Respond(calls)
  BY <1>7, RespondStep
<1>8. CASE \E call \in CallsOf(DOMAIN log), cost \in Costs : Finish(call, cost)
  BY <1>8, FinishStep
<1>9. CASE Deliver
  <2>1. Append2(<<Head(queue)>>) /\ queue # <<>>
    BY <1>9 DEF Deliver, Say
  <2>2. Head(queue) \in Queueable
    BY <2>1, HeadTailProperties DEF TypeOK
  <2>3. Fits(log, Head(queue)) /\ Head(queue).posthorse = FALSE
    BY <2>2, QueuedFits
  <2> QED BY <2>1, <2>3, Noted
<1> QED BY <1>1, <1>2, <1>3, <1>4, <1>5, <1>6, <1>7, <1>8, <1>9 DEF Next

----------------------------------------------------------------------------
(* What is left after a rollover. *)

LEMMA AtNextBoundary ==
  LogOK(log)' /\ (Len(log) # 0)' /\ IsCompaction(Len(log))' =>
    /\ (Boundary = Len(log) /\ Boundary # None)'
    /\ (Active = IF log[Len(log)].kept = None THEN {} ELSE log[Len(log)].kept .. (Len(log) - 1))'
BY AtBoundary, PTL

LEMMA LeftIsTail ==
  ASSUME LogOK(log), LogOK(log'), NEW record, NEW tail, RollsOver(record, tail)
  PROVE  /\ Boundary' = Len(log') /\ Boundary' # None
         /\ Visible' = IF tail = None THEN {} ELSE Suffix(tail)
<1>1. PICK n : n = Len(log')
  OBVIOUS
<1>2. PICK e : e = log'[n]
  OBVIOUS
<1>3. /\ n # 0 /\ e.role = "compaction"
      /\ tail # None => n = Len(log) + 1 /\ e.kept = tail /\ omitted' = omitted
      /\ tail = None => e.kept = None \/ (e.kept = n - 1 /\ log'[n - 1].role = "sentinel")
  BY <1>1, <1>2 DEF RollsOver
<1>4. /\ Boundary' = n /\ Boundary' # None
      /\ Active' = IF e.kept = None THEN {} ELSE e.kept .. (n - 1)
  BY <1>1, <1>2, <1>3, AtNextBoundary DEF IsCompaction
<1>5. Visible' = {i \in Active' \ omitted' : log'[i].role \notin {"compaction", "sentinel"}}
  BY DEF Visible
<1>6. n \in Nat /\ Len(log) \in Nat
  BY <1>1, LenProperties DEF LogOK
<1>7. CASE tail = None
  <2>1. CASE e.kept = None
    BY <1>1, <1>4, <1>5, <1>7, <2>1
  <2>2. CASE e.kept # None
    <3>1. e.kept = n - 1 /\ log'[n - 1].role = "sentinel" /\ Active' = (n - 1) .. (n - 1)
      BY <1>3, <1>4, <1>7, <2>2
    <3>2. \A i \in Active' : i = n - 1
      BY <1>6, <3>1
    <3>3. Visible' = {}
      BY <1>5, <3>1, <3>2
    <3> QED BY <1>1, <1>4, <1>7, <3>3
  <2> QED BY <1>1, <1>4, <1>7, <2>1, <2>2
<1>8. CASE tail # None
  <2>1. tail \in Active
    BY <1>8 DEF RollsOver, TailOK
  <2>2. /\ tail \in 1..Len(log)
        /\ Suffix(tail) = {i \in (tail..Len(log)) \ omitted : log[i].role \notin {"compaction", "sentinel"}}
    BY <2>1, SuffixIs
  <2>3. n - 1 = Len(log) /\ e.kept = tail
    <3>1. \A m \in Nat : m + 1 - 1 = m
      OBVIOUS
    <3> QED BY <1>3, <1>6, <1>8, <3>1
  <2>4. Active' = tail .. Len(log)
    BY <1>4, <1>8, <2>3
  <2>5. \A i \in tail .. Len(log) : log'[i] = log[i]
    <3>1. \A i \in 1..Len(log) : log'[i] = log[i]
      BY DEF RollsOver
    <3>2. \A i \in tail .. Len(log) : i \in 1..Len(log)
      BY <1>6, <2>2
    <3> QED BY <3>1, <3>2
  <2>6. Visible' = Suffix(tail)
    BY <1>3, <1>5, <1>8, <2>2, <2>4, <2>5
  <2> QED BY <1>1, <1>4, <1>8, <2>6
<1> QED BY <1>7, <1>8

TailIsWholeStep ==
  Commits => Whole(Visible)' /\ (log'[Len(log')].marked <=> Visible' # {})

\* Paired messages are whole, and what is appended does not change that.
LEMMA PairedIsWhole ==
  ASSUME LogOK(log), NEW S \in SUBSET (1..Len(log)), Paired(S), \A i \in S : log'[i] = log[i]
  PROVE  Whole(S)'
<1>1. AnswersOf(S) = CallsOf(S)
  BY DEF Paired
<1>2. ASSUME NEW i \in S, NEW k \in 1..MaxCalls, log[i].role = "assistant", k <= log[i].calls
      PROVE  \E r \in S : log[r].role = "result" /\ log[r].call = <<i, k>>
  <2>1. <<i, k>> \in CallsOf(S)
    BY <1>2 DEF CallsOf
  <2> QED BY <1>1, <2>1 DEF AnswersOf
<1>3. ASSUME NEW r \in S, log[r].role = "result" PROVE log[r].call[1] \in S
  <2>1. log[r].call \in CallsOf(S)
    BY <1>1, <1>3 DEF AnswersOf
  <2> QED BY <2>1 DEF CallsOf
<1>4. ASSUME NEW i \in S, NEW k \in 1..MaxCalls, log'[i].role = "assistant", k <= log'[i].calls
      PROVE  \E r \in S : log'[r].role = "result" /\ log'[r].call = <<i, k>>
  <2>1. PICK r \in S : log[r].role = "result" /\ log[r].call = <<i, k>>
    BY <1>2, <1>4
  <2> QED BY <2>1
<1>5. ASSUME NEW r \in S, log'[r].role = "result" PROVE log'[r].call[1] \in S
  BY <1>3, <1>5
<1> QED BY <1>4, <1>5, Zenon DEF Whole

LEMMA CommitIsWhole == TypeOK /\ LogOK(log) /\ [Next]_vars => TailIsWholeStep
<1> SUFFICES ASSUME TypeOK, LogOK(log), [Next]_vars, Commits
             PROVE  Whole(Visible)' /\ (log'[Len(log')].marked <=> Visible' # {})
  BY DEF TailIsWholeStep
<1>1. PICK record \in Records : \E tail : RollsOver(record, tail)
  BY NextStep DEF Outcome
<1>2. PICK tail : RollsOver(record, tail)
  BY <1>1
<1>3. LogOK(log')
  BY NextStep DEF Outcome
<1>4. Visible' = IF tail = None THEN {} ELSE Suffix(tail)
  BY <1>2, <1>3, LeftIsTail
<1>5. /\ tail # None => log'[Len(log')].marked = TRUE
      /\ tail = None => log'[Len(log')].marked = FALSE
  BY <1>2 DEF RollsOver
<1>6. CASE tail = None
  <2>1. Visible' = {}
    BY <1>4, <1>6
  <2>2. Whole(Visible)'
    BY <2>1 DEF Whole
  <2> QED BY <1>5, <1>6, <2>1, <2>2
<1>7. CASE tail # None
  <2>1. TailOK(tail, TailRoom(PendingNow)) /\ \A i \in 1..Len(log) : log'[i] = log[i]
    BY <1>2, <1>7 DEF RollsOver
  <2>2. PICK S : S = Suffix(tail)
    OBVIOUS
  <2>3. S \in SUBSET (1..Len(log)) /\ tail \in S /\ Paired(S)
    <3>1. tail \in Visible /\ Visible \in SUBSET (1..Len(log)) /\ Paired(S)
      BY <2>1, <2>2, InDomain DEF TailOK, SafeStart
    <3>2. tail >= tail
      BY <3>1, LenProperties DEF LogOK
    <3> QED BY <2>2, <3>1, <3>2 DEF Suffix
  <2>4. Visible' = S
    BY <1>4, <1>7, <2>2
  <2>5. Whole(S)'
    BY <2>1, <2>3, PairedIsWhole
  <2>6. Whole(Visible)'
    BY <2>4, <2>5 DEF Whole
  <2> QED BY <1>5, <1>7, <2>3, <2>4, <2>6
<1> QED BY <1>6, <1>7

LEMMA NextUsage ==
  Usage' = Overhead + Sums(log', Visible')[Visible']
             + IF Boundary' = None THEN 0 ELSE log'[Boundary'].cost
BY DEF Usage, Cost, MapThenSumSet, MapThenFoldSet, Sums, IsSums, OneOf, None

HalfStaysFreeStep ==
  Commits =>
    2 * (Usage' - Overhead) + Overhead + Margin + (IF phase = "tools" THEN Pending ELSE 0) <= Line

LEMMA CommitLeavesHalf == TypeOK /\ LogOK(log) /\ [Next]_vars => HalfStaysFreeStep
<1> SUFFICES ASSUME TypeOK, LogOK(log), [Next]_vars, Commits
             PROVE  2 * (Usage' - Overhead) + Overhead + Margin + PendingNow <= Line
  BY DEF HalfStaysFreeStep, PendingNow
<1>1. PICK record \in Records : \E tail : RollsOver(record, tail)
  BY NextStep DEF Outcome
<1>2. PICK tail : RollsOver(record, tail)
  BY <1>1
<1>3. LogOK(log')
  BY NextStep DEF Outcome
<1>4. /\ Boundary' = Len(log') /\ Boundary' # None
      /\ Visible' = IF tail = None THEN {} ELSE Suffix(tail)
  BY <1>2, <1>3, LeftIsTail
<1>5. log'[Boundary'].cost = record /\ record <= Limit(PendingNow)
  BY <1>2, <1>4 DEF RollsOver
<1>6. PendingNow \in Nat /\ record \in Nat /\ record # 0
  BY PendingIsNat, SizesAssumption DEF PendingNow
<1>7. PICK c : c = Sums(log', Visible')[Visible']
  OBVIOUS
<1>8. Usage' = Overhead + c + record
  BY <1>4, <1>5, <1>7, NextUsage
<1>9. c \in Nat /\ (c = 0 \/ c <= TailRoom(PendingNow))
  <2>1. CASE tail = None
    BY <1>4, <1>7, <2>1, NothingIsFree
  <2>2. CASE tail # None
    <3>1. TailOK(tail, TailRoom(PendingNow)) /\ \A i \in 1..Len(log) : log'[i] = log[i]
      BY <1>2, <2>2 DEF RollsOver
    <3>2. PICK S : S = Suffix(tail)
      OBVIOUS
    <3>3. S \in SUBSET (1..Len(log)) /\ Cost(S) \in 1..TailRoom(PendingNow)
      BY <3>1, <3>2, InDomain DEF TailOK, Suffix
    <3>4. Sums(log', S) = Sums(log, S)
      <4>1. \A i \in S : log'[i] = log[i]
        BY <3>1, <3>3
      <4> QED BY <4>1, SameCost
    <3>5. c = Cost(S)
      BY <1>4, <1>7, <2>2, <3>2, <3>4, CostIsSum
    <3>6. TailRoom(PendingNow) \in Int
      BY <1>6, LimitIsNat
    <3>7. \A r \in Int : \A s \in 1..r : s \in Nat /\ s <= r
      OBVIOUS
    <3> QED BY <3>3, <3>5, <3>6, <3>7
  <2> QED BY <2>1, <2>2
<1>10. PICK p \in Nat : p = Payload(PendingNow)
  BY <1>6, LimitIsNat
<1>11. PICK k \in Nat : k = Limit(PendingNow)
  BY <1>6, LimitIsNat
<1>12. TailRoom(PendingNow) = p - k /\ k <= p
  BY <1>6, <1>10, <1>11, LimitIsNat DEF TailRoom
<1>13. c + record <= p /\ p # 0
  BY <1>5, <1>6, <1>9, <1>11, <1>12
<1>14. 2 * p <= Line - Margin - Overhead - PendingNow
  BY <1>6, <1>10, <1>13, LimitIsNat
<1>15. Usage' - Overhead = c + record
  BY <1>6, <1>8, <1>9, BoundsAreNat
<1> QED BY <1>6, <1>9, <1>13, <1>14, <1>15, BoundsAreNat

----------------------------------------------------------------------------
(* A set of positions in order. *)

Before(S, i) == {j \in S : j < i}

LEMMA FiniteBefore ==
  ASSUME NEW n \in Nat, NEW S \in SUBSET (1..n), NEW i
  PROVE  /\ IsFiniteSet(S) /\ IsFiniteSet(Before(S, i))
         /\ Cardinality(S) \in Nat /\ Cardinality(Before(S, i)) \in Nat
         /\ Cardinality(Before(S, i)) <= Cardinality(S)
<1>1. IsFiniteSet(1..n)
  BY FS_Interval
<1>2. IsFiniteSet(S)
  BY <1>1, FS_Subset
<1>3. Before(S, i) \in SUBSET S
  BY DEF Before
<1>4. IsFiniteSet(Before(S, i)) /\ Cardinality(Before(S, i)) <= Cardinality(S)
  BY <1>2, <1>3, FS_Subset
<1> QED BY <1>2, <1>4, FS_CardinalityType

\* The higher of two members has more before it, itself not counted.
LEMMA MoreBefore ==
  ASSUME NEW n \in Nat, NEW S \in SUBSET (1..n), NEW i \in S, NEW m \in Int, i < m
  PROVE  Cardinality(Before(S, i)) < Cardinality(Before(S, m))
<1>1. IsFiniteSet(Before(S, m)) /\ Cardinality(Before(S, m)) \in Nat /\ Cardinality(Before(S, i)) \in Nat
  BY FiniteBefore
<1>2. i \in Before(S, m)
  BY DEF Before
<1>3. /\ IsFiniteSet(Before(S, m) \ {i})
      /\ Cardinality(Before(S, m) \ {i}) = Cardinality(Before(S, m)) - 1
  BY <1>1, <1>2, FS_RemoveElement
<1>4. Before(S, i) \in SUBSET (Before(S, m) \ {i})
  <2>1. \A j \in S : j < i => j < m /\ j # i
    OBVIOUS
  <2> QED BY <2>1 DEF Before
<1>5. Cardinality(Before(S, i)) <= Cardinality(Before(S, m) \ {i})
  BY <1>3, <1>4, FS_Subset
<1> QED BY <1>1, <1>3, <1>5

LEMMA RankExists ==
  ASSUME NEW n \in Nat, NEW S \in SUBSET (1..n), NEW k \in 1..Cardinality(S)
  PROVE  \E i \in S : Cardinality(Before(S, i)) = k - 1
<1> DEFINE N == Cardinality(S)
           rank == [i \in S |-> Cardinality(Before(S, i)) + 1]
<1>1. IsFiniteSet(S) /\ N \in Nat
  BY FiniteBefore
<1>2. \A i \in S : Cardinality(Before(S, i)) \in Nat
  BY FiniteBefore
<1>3. ASSUME NEW i \in S PROVE Cardinality(Before(S, i)) + 1 \in 1..N
  <2>1. Before(S, i) \in SUBSET (S \ {i})
    <3>1. \A j \in S : j < i => j # i
      OBVIOUS
    <3> QED BY <3>1 DEF Before
  <2>2. IsFiniteSet(S \ {i}) /\ Cardinality(S \ {i}) = N - 1
    BY <1>1, FS_RemoveElement
  <2>3. Cardinality(Before(S, i)) <= N - 1
    BY <2>1, <2>2, FS_Subset
  <2> QED BY <1>1, <1>2, <2>3
<1>4. rank \in [S -> 1..N]
  BY <1>3
<1>5. ASSUME NEW i \in S, NEW j \in S, rank[i] = rank[j] PROVE i = j
  <2>1. Cardinality(Before(S, i)) = Cardinality(Before(S, j))
    BY <1>2, <1>5
  <2>2. ~(i < j) /\ ~(j < i)
    BY <1>2, <2>1, MoreBefore
  <2> QED BY <2>2
<1>6. rank \in Injection(S, 1..N)
  BY <1>4, <1>5, Zenon DEF Injection, IsInjective
<1>7. IsFiniteSet(1..N) /\ Cardinality(1..N) = N
  BY <1>1, FS_Interval
<1>8. rank \in Surjection(S, 1..N)
  <2> HIDE DEF rank
  <2> QED BY <1>6, <1>7, FS_Injection
<1>9. PICK i \in S : rank[i] = k
  <2> HIDE DEF rank, N
  <2>1. k \in 1..N
    BY DEF N
  <2> QED BY <1>8, <2>1 DEF Surjection
<1>10. Cardinality(Before(S, i)) + 1 = k
  BY <1>9
<1> QED BY <1>2, <1>10

LEMMA InOrderIs ==
  ASSUME NEW n \in Nat, NEW S \in SUBSET (1..n)
  PROVE  /\ Cardinality(S) \in Nat
         /\ InOrder(S) \in [1..Cardinality(S) -> S]
         /\ InOrder(S) \in Seq(S) /\ Len(InOrder(S)) = Cardinality(S)
         /\ \A k \in 1..Cardinality(S) : Cardinality(Before(S, InOrder(S)[k])) = k - 1
<1>1. Cardinality(S) \in Nat
  BY FiniteBefore
<1>2. ASSUME NEW k \in 1..Cardinality(S)
      PROVE  InOrder(S)[k] \in S /\ Cardinality(Before(S, InOrder(S)[k])) = k - 1
  <2>1. \E i \in S : Cardinality({j \in S : j < i}) = k - 1
    BY RankExists DEF Before
  <2>2. InOrder(S)[k] = CHOOSE i \in S : Cardinality({j \in S : j < i}) = k - 1
    BY DEF InOrder
  <2> QED BY <2>1, <2>2 DEF Before
<1>3. InOrder(S) \in [1..Cardinality(S) -> S]
  <2>1. \A k \in 1..Cardinality(S) : (CHOOSE i \in S : Cardinality({j \in S : j < i}) = k - 1) \in S
    BY <1>2 DEF InOrder
  <2> QED BY <2>1 DEF InOrder
<1>4. InOrder(S) \in Seq(S) /\ Len(InOrder(S)) = Cardinality(S)
  BY <1>1, <1>3
<1> QED BY <1>1, <1>2, <1>3, <1>4

\* An entry of S is lower than m if there are places enough below m.
LEMMA InOrderBelow ==
  ASSUME NEW n \in Nat, NEW S \in SUBSET (1..n), NEW m \in Int, m \notin S, NEW k \in 1..Cardinality(S)
  PROVE  IF k <= Cardinality(Before(S, m)) THEN InOrder(S)[k] < m ELSE m < InOrder(S)[k]
<1>1. PICK a \in S : a = InOrder(S)[k] /\ Cardinality(Before(S, a)) = k - 1
  BY InOrderIs
<1>2. a \in Int /\ a # m /\ Cardinality(Before(S, m)) \in Nat
  <2>1. Cardinality(Before(S, m)) \in Nat
    BY FiniteBefore
  <2> QED BY <2>1
<1>3. CASE a < m
  <2>1. k - 1 < Cardinality(Before(S, m))
    BY <1>1, <1>3, MoreBefore
  <2> QED BY <1>1, <1>2, <1>3, <2>1
<1>4. CASE m < a
  <2>1. Before(S, m) \in SUBSET Before(S, a)
    <3>1. \A j \in S : j < m => j < a
      BY <1>2, <1>4
    <3> QED BY <3>1 DEF Before
  <2>2. Cardinality(Before(S, m)) <= k - 1
    BY <1>1, <2>1, FiniteBefore, FS_Subset
  <2> QED BY <1>1, <1>2, <1>4, <2>2
<1> QED BY <1>2, <1>3, <1>4

----------------------------------------------------------------------------
(* The request. *)

\* s goes up, from lo and below hi.
Rising(s, lo, hi) ==
  /\ s \in Seq(Nat)
  /\ \A i, j \in 1..Len(s) : i < j => s[i] < s[j]
  /\ \A i \in 1..Len(s) : lo <= s[i] /\ s[i] < hi

LEMMA RisingConcat ==
  ASSUME NEW lo \in Nat, NEW m \in Nat, NEW hi \in Nat, lo <= m, m <= hi,
         NEW s, NEW t, Rising(s, lo, m), Rising(t, m, hi)
  PROVE  Rising(s \o t, lo, hi)
<1>1. /\ s \in Seq(Nat) /\ t \in Seq(Nat) /\ Len(s) \in Nat /\ Len(t) \in Nat
      /\ \A i \in 1..Len(s) : s[i] \in Nat
      /\ \A i \in 1..Len(t) : t[i] \in Nat
  BY LenProperties, ElementOfSeq DEF Rising
<1>2. PICK u : u = s \o t
  OBVIOUS
<1>3. /\ u \in Seq(Nat) /\ Len(u) = Len(s) + Len(t)
      /\ \A i \in 1 .. Len(s) + Len(t) : u[i] = IF i <= Len(s) THEN s[i] ELSE t[i - Len(s)]
  BY <1>1, <1>2, ConcatProperties
<1>4. \A i \in 1..Len(u) : \/ i \in 1..Len(s) /\ u[i] = s[i]
                           \/ i - Len(s) \in 1..Len(t) /\ u[i] = t[i - Len(s)]
  BY <1>1, <1>3
<1>5. ASSUME NEW i \in 1..Len(u) PROVE lo <= u[i] /\ u[i] < hi
  <2>1. CASE i \in 1..Len(s) /\ u[i] = s[i]
    <3>1. lo <= s[i] /\ s[i] < m /\ s[i] \in Nat
      BY <1>1, <2>1 DEF Rising
    <3> QED BY <2>1, <3>1
  <2>2. CASE i - Len(s) \in 1..Len(t) /\ u[i] = t[i - Len(s)]
    <3>1. m <= t[i - Len(s)] /\ t[i - Len(s)] < hi /\ t[i - Len(s)] \in Nat
      BY <1>1, <2>2 DEF Rising
    <3> QED BY <2>2, <3>1
  <2> QED BY <1>4, <2>1, <2>2
<1>6. ASSUME NEW i \in 1..Len(u), NEW j \in 1..Len(u), i < j PROVE u[i] < u[j]
  <2>1. CASE j \in 1..Len(s) /\ u[j] = s[j]
    <3>1. i \in 1..Len(s) /\ u[i] = s[i]
      BY <1>1, <1>3, <1>6, <2>1
    <3> QED BY <1>6, <2>1, <3>1 DEF Rising
  <2>2. CASE j - Len(s) \in 1..Len(t) /\ u[j] = t[j - Len(s)]
    <3>1. CASE i \in 1..Len(s) /\ u[i] = s[i]
      <4>1. s[i] < m /\ m <= t[j - Len(s)] /\ s[i] \in Nat /\ t[j - Len(s)] \in Nat
        BY <1>1, <2>2, <3>1 DEF Rising
      <4> QED BY <2>2, <3>1, <4>1
    <3>2. CASE i - Len(s) \in 1..Len(t) /\ u[i] = t[i - Len(s)]
      <4>1. i - Len(s) < j - Len(s)
        BY <1>1, <1>3, <1>6
      <4> QED BY <2>2, <3>2, <4>1 DEF Rising
    <3> QED BY <1>4, <3>1, <3>2
  <2> QED BY <1>4, <2>1, <2>2
<1> QED BY <1>2, <1>3, <1>5, <1>6 DEF Rising

LEMMA RisingOne ==
  ASSUME NEW b \in Nat
  PROVE  Rising(<<b>>, b, b + 1)
<1>1. <<b>> \in Seq(Nat) /\ Len(<<b>>) = 1 /\ <<b>>[1] = b
  OBVIOUS
<1>2. \A i \in 1..1 : i = 1
  OBVIOUS
<1>3. b <= b /\ b < b + 1
  OBVIOUS
<1> QED BY <1>1, <1>2, <1>3 DEF Rising

LEMMA InOrderRises ==
  ASSUME NEW n \in Nat, NEW S \in SUBSET (1..n)
  PROVE  \A k, l \in 1..Cardinality(S) : k < l => InOrder(S)[k] < InOrder(S)[l]
<1> SUFFICES ASSUME NEW k \in 1..Cardinality(S), NEW l \in 1..Cardinality(S), k < l
             PROVE  InOrder(S)[k] < InOrder(S)[l]
  OBVIOUS
<1>1. PICK a \in S : a = InOrder(S)[k] /\ Cardinality(Before(S, a)) = k - 1
  BY InOrderIs
<1>2. PICK c \in S : c = InOrder(S)[l] /\ Cardinality(Before(S, c)) = l - 1
  BY InOrderIs
<1>3. a \in Int /\ c \in Int /\ a # c
  BY <1>1, <1>2
<1>4. ASSUME c < a PROVE FALSE
  <2>1. Cardinality(Before(S, c)) < Cardinality(Before(S, a))
    BY <1>3, <1>4, MoreBefore
  <2>2. Cardinality(S) \in Nat
    BY FiniteBefore
  <2> QED BY <1>1, <1>2, <2>1, <2>2
<1> QED BY <1>1, <1>2, <1>3, <1>4

\* What the request keeps of the session, without stale reminders.
Fresh == {i \in Visible : ~Stale(i)}

LEMMA FreshIs ==
  LogOK(log) =>
    /\ Fresh \in SUBSET (1..Len(log)) /\ Len(log) \in Nat
    /\ Boundary # None =>
         /\ Boundary \in 1..Len(log) /\ Boundary \notin Fresh
         /\ {i \in KeptRange \cap Visible : ~Stale(i)} = Before(Fresh, Boundary)
<1> SUFFICES ASSUME LogOK(log) PROVE FreshIs!2
  OBVIOUS
<1>1. Len(log) \in Nat /\ Fresh \in SUBSET (1..Len(log))
  BY InDomain, LenProperties DEF LogOK, Fresh
<1>2. ASSUME Boundary # None
      PROVE  /\ Boundary \in 1..Len(log) /\ Boundary \notin Fresh
             /\ {i \in KeptRange \cap Visible : ~Stale(i)} = Before(Fresh, Boundary)
  <2>1. Boundary \in 1..Len(log) /\ log[Boundary].role = "compaction"
    <3>1. Boundary \in 0..Len(log) /\ log[Boundary].role = "compaction"
      BY <1>2, BoundaryFacts
    <3> QED BY <1>1, <1>2, <3>1 DEF None
  <2>2. Boundary \notin Fresh
    BY <2>1 DEF Fresh, Visible
  <2>3. \A i \in Visible : i \in KeptRange <=> i < Boundary
    <3>1. log[Boundary].kept \in Int
      <4>1. log[Boundary] \in Entries
        BY <2>1, ElementOfSeq DEF LogOK
      <4> QED BY <4>1, BoundsAreNat DEF Entries
    <3>2. \A i \in KeptRange : i < Boundary
      BY <2>1, <3>1 DEF KeptRange
    <3>3. \A i \in (Boundary + 1) .. Len(log) : ~(i < Boundary)
      BY <1>1, <2>1
    <3> QED BY <3>2, <3>3 DEF Visible, Active
  <2>4. {i \in KeptRange \cap Visible : ~Stale(i)} = {i \in Visible : ~Stale(i) /\ i < Boundary}
    BY <2>3
  <2> QED BY <2>1, <2>2, <2>4 DEF Before, Fresh
<1> QED BY <1>1, <1>2

\* Before a boundary of Posthorse's that announces no tail nothing is left.
LEMMA NoneRetained ==
  LogOK(log) /\ Boundary # None /\ log[Boundary].posthorse /\ ~log[Boundary].marked
    => RetainedCount = 0
<1> SUFFICES ASSUME LogOK(log), Boundary # None, log[Boundary].posthorse, ~log[Boundary].marked
             PROVE  RetainedCount = 0
  OBVIOUS
<1>1. Boundary \in DOMAIN log /\ Boundary \in Nat
  <2>1. Boundary \in 1..Len(log) /\ Len(log) \in Nat
    BY FreshIs
  <2> QED BY <2>1, LenProperties DEF LogOK
<1>2. \/ log[Boundary].kept = None
      \/ log[Boundary].kept = Boundary - 1 /\ log[Boundary - 1].role = "sentinel"
  BY <1>1 DEF LogOK, EntryOK
<1>3. KeptRange \cap Visible = {}
  <2>1. CASE log[Boundary].kept = None
    BY <2>1 DEF KeptRange
  <2>2. CASE log[Boundary].kept = Boundary - 1 /\ log[Boundary - 1].role = "sentinel"
    <3>1. \A i \in (Boundary - 1) .. (Boundary - 1) : i = Boundary - 1
      BY <1>1
    <3>2. \A i \in KeptRange : i = Boundary - 1
      BY <2>2, <3>1 DEF KeptRange
    <3> QED BY <2>2, <3>2 DEF Visible
  <2> QED BY <1>2, <2>1, <2>2
<1>4. {i \in KeptRange \cap Visible : ~Stale(i)} = {}
  BY <1>3
<1> QED BY <1>4, FS_EmptySet DEF RetainedCount

LEMMA FilteredIs ==
  LogOK(log) /\ Boundary # None =>
    /\ Cardinality(Fresh) \in Nat
    /\ Filtered \in Seq(1..Len(log)) /\ Len(Filtered) = Cardinality(Fresh) + 1
    /\ Filtered[1] = Boundary
    /\ \A k \in 1..Cardinality(Fresh) : Filtered[k + 1] = InOrder(Fresh)[k]
<1> SUFFICES ASSUME LogOK(log), Boundary # None PROVE FilteredIs!2
  OBVIOUS
<1>1. Fresh \in SUBSET (1..Len(log)) /\ Boundary \in 1..Len(log) /\ Len(log) \in Nat
  BY FreshIs
<1>2. PICK N \in Nat : N = Cardinality(Fresh)
  BY <1>1, FiniteBefore
<1>3. PICK s : s = InOrder(Fresh)
  OBVIOUS
<1>4. s \in Seq(1..Len(log)) /\ Len(s) = N
  <2>1. s \in Seq(Fresh) /\ Len(s) = N
    BY <1>1, <1>2, <1>3, InOrderIs
  <2> QED BY <1>1, <2>1, SeqMonotonic
<1>5. <<Boundary>> \in Seq(1..Len(log)) /\ Len(<<Boundary>>) = 1 /\ <<Boundary>>[1] = Boundary
  BY <1>1
<1>6. PICK m : m = Filtered
  OBVIOUS
<1>7. m = <<Boundary>> \o s
  BY <1>3, <1>6 DEF Filtered, Fresh
<1>8. /\ m \in Seq(1..Len(log)) /\ Len(m) = 1 + N
      /\ \A i \in 1 .. 1 + N : m[i] = IF i <= 1 THEN <<Boundary>>[i] ELSE s[i - 1]
  BY <1>4, <1>5, <1>7, ConcatProperties
<1>9. m[1] = Boundary /\ \A k \in 1..N : m[k + 1] = s[k]
  <2>1. 1 \in 1 .. 1 + N /\ 1 <= 1
    BY <1>2
  <2>2. \A k \in 1..N : k + 1 \in 1 .. 1 + N /\ ~(k + 1 <= 1) /\ k + 1 - 1 = k
    BY <1>2
  <2> QED BY <1>5, <1>8, <2>1, <2>2, SMTT(20)
<1> QED BY <1>2, <1>3, <1>6, <1>8, <1>9

\* What the request is to be.
InOrderFrom(r) ==
  /\ r \in Seq(Nat)
  /\ \A i, j \in 1..Len(r) : i < j => r[i] < r[j]
  /\ r[1] # None => log[r[1]].role # "assistant"

LEMMA ChronologicalInOrder ==
  LogOK(log) /\ Boundary # None /\ log[Boundary].posthorse => InOrderFrom(Chronological(Filtered))
<1> SUFFICES ASSUME LogOK(log), Boundary # None, log[Boundary].posthorse
             PROVE  InOrderFrom(Chronological(Filtered))
  OBVIOUS
<1>1. /\ Fresh \in SUBSET (1..Len(log)) /\ Len(log) \in Nat
      /\ Boundary \in 1..Len(log) /\ Boundary \notin Fresh
  BY FreshIs
<1>2. PICK n \in Nat : n = Len(log)
  BY <1>1
<1>3. PICK b \in 1..n : b = Boundary
  BY <1>1, <1>2
<1>4. PICK F \in SUBSET (1..n) : F = Fresh
  BY <1>1, <1>2
<1>5. PICK N \in Nat : N = Cardinality(F)
  BY FiniteBefore
<1>6. PICK s : s = InOrder(F)
  OBVIOUS
<1>7. PICK c : c = RetainedCount
  OBVIOUS
<1>8. c = Cardinality(Before(F, b))
  BY <1>3, <1>4, <1>7, FreshIs DEF RetainedCount
<1>9. c \in Nat /\ c <= N
  BY <1>5, <1>8, FiniteBefore
<1>10. \A k \in 1..N : s[k] \in 1..n
  BY <1>5, <1>6, InOrderIs
<1>11. \A k \in 1..N : IF k <= c THEN s[k] < b ELSE b < s[k]
  <2>1. b \in Int /\ b \notin F
    BY <1>1, <1>3, <1>4
  <2> QED BY <1>5, <1>6, <1>8, <2>1, InOrderBelow
<1>12. \A k, l \in 1..N : k < l => s[k] < s[l]
  BY <1>5, <1>6, InOrderRises
<1>13. PICK m : m = Filtered
  OBVIOUS
<1>14. /\ m \in Seq(1..n) /\ Len(m) = N + 1 /\ m[1] = b
       /\ \A k \in 1..N : m[k + 1] = s[k]
  BY <1>2, <1>3, <1>4, <1>5, <1>6, <1>13, FilteredIs
<1>15. PICK tail : tail = SubSeq(m, 2, c + 1)
  OBVIOUS
<1>16. PICK rest : rest = SubSeq(m, c + 2, N + 1)
  OBVIOUS
<1>17. PICK anchor : anchor = IF log[tail[1]].role = "assistant" THEN <<None>> ELSE <<>>
  OBVIOUS
<1>18. Chronological(m) =
         IF log[b].marked /\ 0 < c /\ c < N + 1
           THEN anchor \o tail \o <<m[1]>> \o rest ELSE m
  BY <1>3, <1>7, <1>14, <1>15, <1>16, <1>17 DEF Chronological
<1>19. \A i \in 2 .. N + 1 : i - 1 \in 1..N /\ m[i] = s[i - 1]
  <2>1. \A i \in 2 .. N + 1 : i - 1 \in 1..N /\ i - 1 + 1 = i
    BY <1>5
  <2> QED BY <1>14, <2>1
<1>20. /\ Rising(rest, b + 1, n + 1)
       /\ Len(rest) = N - c /\ \A i \in 1 .. N - c : rest[i] = s[c + i]
  <2>1. \A i \in c + 2 .. N + 1 : m[i] \in Nat
    <3>1. \A i \in c + 2 .. N + 1 : i \in 2 .. N + 1
      BY <1>9
    <3>2. \A i \in 1..n : i \in Nat
      OBVIOUS
    <3> QED BY <1>10, <1>19, <3>1, <3>2
  <2>2. c + 2 \in Int /\ N + 1 \in Int
    BY <1>5, <1>9
  <2>3. /\ rest \in Seq(Nat)
        /\ Len(rest) = IF c + 2 <= N + 1 THEN N + 1 - (c + 2) + 1 ELSE 0
        /\ \A i \in 1 .. N + 1 - (c + 2) + 1 : rest[i] = m[c + 2 + i - 1]
    BY <1>16, <2>1, <2>2, SubSeqProperties
  <2>4. N + 1 - (c + 2) + 1 = N - c /\ Len(rest) = N - c
    BY <1>5, <1>9, <2>3
  <2>5. \A i \in 1 .. N - c : /\ c + 2 + i - 1 \in 2 .. N + 1 /\ c + 2 + i - 1 - 1 = c + i
                              /\ c + i \in 1..N /\ ~(c + i <= c)
    BY <1>5, <1>9
  <2>6. \A i \in 1 .. N - c : rest[i] = s[c + i]
    <3> SUFFICES ASSUME NEW i \in 1 .. N - c PROVE rest[i] = s[c + i]
      OBVIOUS
    <3>1. PICK x : x = c + 2 + i - 1
      OBVIOUS
    <3>2. x \in 2 .. N + 1 /\ x - 1 = c + i
      BY <1>5, <1>9, <3>1
    <3>3. rest[i] = m[x]
      BY <2>3, <2>4, <3>1
    <3>4. m[x] = s[x - 1]
      BY <1>19, <3>2
    <3> QED BY <3>2, <3>3, <3>4
  <2>7. \A i \in 1 .. N - c : b + 1 <= rest[i] /\ rest[i] < n + 1
    <3>1. \A i \in 1 .. N - c : s[c + i] \in 1..n /\ b < s[c + i]
      BY <1>10, <1>11, <2>5
    <3>2. \A x \in 1..n : b < x => b + 1 <= x /\ x < n + 1
      OBVIOUS
    <3> QED BY <2>6, <3>1, <3>2
  <2>8. \A i, j \in 1 .. N - c : i < j => rest[i] < rest[j]
    <3>1. \A i, j \in 1 .. N - c : i < j => c + i < c + j
      BY <1>5, <1>9
    <3> QED BY <1>12, <2>5, <2>6, <3>1
  <2> QED BY <2>3, <2>4, <2>6, <2>7, <2>8 DEF Rising
<1>21. CASE log[b].marked /\ 0 < c /\ c < N + 1
  <2>1. Rising(tail, 1, b) /\ Len(tail) = c
    <3>1. \A i \in 2 .. c + 1 : m[i] \in Nat
      <4>1. \A i \in 2 .. c + 1 : i \in 2 .. N + 1
        BY <1>9
      <4>2. \A i \in 1..n : i \in Nat
        OBVIOUS
      <4> QED BY <1>10, <1>19, <4>1, <4>2
    <3>2. PICK two \in Int : two = 2
      OBVIOUS
    <3>3. tail \in Seq(Nat) /\ Len(tail) = c /\ \A i \in 1..c : tail[i] = m[i + 1]
      <4>1. PICK end \in Int : end = c + 1
        BY <1>9
      <4>2. tail = SubSeq(m, two, end) /\ \A i \in two .. end : m[i] \in Nat
        BY <1>15, <3>1, <3>2, <4>1
      <4>3. /\ tail \in Seq(Nat)
            /\ Len(tail) = IF two <= end THEN end - two + 1 ELSE 0
            /\ \A i \in 1 .. end - two + 1 : tail[i] = m[two + i - 1]
        BY <4>2, SubSeqProperties
      <4>4. two <= end /\ end - two + 1 = c
        BY <1>9, <1>21, <3>2, <4>1
      <4>5. \A i \in 1..c : two + i - 1 = i + 1
        BY <1>9, <3>2
      <4> QED BY <4>3, <4>4, <4>5
    <3>5. \A i \in 1..c : i \in 1..N /\ i <= c
      BY <1>5, <1>9
    <3>6. \A i \in 1..c : tail[i] = s[i]
      BY <1>14, <3>3, <3>5
    <3>7. \A i \in 1..c : 1 <= tail[i] /\ tail[i] < b
      <4>1. \A i \in 1..c : s[i] \in 1..n /\ s[i] < b
        BY <1>10, <1>11, <3>5
      <4> QED BY <3>6, <4>1
    <3>8. \A i, j \in 1..c : i < j => tail[i] < tail[j]
      BY <1>12, <3>5, <3>6
    <3> QED BY <3>3, <3>7, <3>8 DEF Rising
  <2>2. Rising(anchor, 0, 1)
    <3>1. Rising(<<0>>, 0, 0 + 1)
      BY RisingOne
    <3>2. Rising(<<>>, 0, 1)
      BY DEF Rising
    <3> QED BY <1>17, <3>1, <3>2 DEF None
  <2>3. Rising(anchor \o tail, 0, b)
    BY <2>1, <2>2, RisingConcat
  <2>4. Rising(<<m[1]>>, b, b + 1)
    BY <1>14, RisingOne
  <2>5. Rising(anchor \o tail \o <<m[1]>>, 0, b + 1)
    BY <2>3, <2>4, RisingConcat
  <2>6. Rising(anchor \o tail \o <<m[1]>> \o rest, 0, n + 1)
    BY <1>20, <2>5, RisingConcat
  <2>7. PICK r : r = anchor \o tail \o <<m[1]>> \o rest
    OBVIOUS
  <2>8. r[1] = IF log[tail[1]].role = "assistant" THEN None ELSE tail[1]
    <3>1. /\ anchor \in Seq(Nat) /\ tail \in Seq(Nat) /\ <<m[1]>> \in Seq(Nat) /\ rest \in Seq(Nat)
          /\ anchor \o tail \in Seq(Nat) /\ anchor \o tail \o <<m[1]>> \in Seq(Nat)
      BY <1>20, <2>1, <2>2, <2>3, <2>4, <2>5 DEF Rising
    <3>2. PICK p : p = anchor \o tail
      OBVIOUS
    <3>3. PICK q : q = p \o <<m[1]>>
      OBVIOUS
    <3>4. Len(p) = Len(anchor) + c /\ p[1] = IF 1 <= Len(anchor) THEN anchor[1] ELSE tail[1 - Len(anchor)]
      <4>1. 1 \in 1 .. Len(anchor) + c
        BY <1>9, <1>21, <3>1, LenProperties
      <4> QED BY <2>1, <3>1, <3>2, <4>1, ConcatProperties
    <3>5. Len(anchor) \in Nat /\ Len(p) \in Nat /\ 1 <= Len(p) /\ Len(<<m[1]>>) \in Nat /\ Len(rest) \in Nat
      BY <1>9, <1>21, <3>1, <3>4, LenProperties
    <3>6. Len(q) = Len(p) + Len(<<m[1]>>) /\ q[1] = p[1]
      BY <3>1, <3>2, <3>3, <3>5, ConcatProperties
    <3>7. Len(q) \in Nat /\ 1 <= Len(q)
      BY <3>5, <3>6
    <3>8. r[1] = q[1]
      BY <2>7, <3>1, <3>2, <3>3, <3>5, <3>7, ConcatProperties
    <3>9. CASE log[tail[1]].role = "assistant"
      <4>1. anchor = <<None>> /\ Len(<<None>>) = 1 /\ <<None>>[1] = None
        BY <1>17, <3>9
      <4> QED BY <3>4, <3>6, <3>8, <3>9, <4>1
    <3>10. CASE log[tail[1]].role # "assistant"
      <4>1. anchor = <<>> /\ Len(<<>>) = 0
        BY <1>17, <3>10
      <4> QED BY <3>4, <3>6, <3>8, <3>10, <4>1
    <3> QED BY <3>9, <3>10
  <2>9. r[1] # None => log[r[1]].role # "assistant"
    BY <2>8
  <2>10. InOrderFrom(r)
    BY <2>6, <2>7, <2>9 DEF InOrderFrom, Rising
  <2> QED BY <1>13, <1>18, <1>21, <2>7, <2>10
<1>22. CASE ~(log[b].marked /\ 0 < c /\ c < N + 1)
  <2>1. c = 0
    <3>1. ~log[b].marked => c = 0
      BY <1>3, <1>7, NoneRetained
    <3> QED BY <1>5, <1>9, <1>22, <3>1
  <2>2. Chronological(m) = m
    BY <1>18, <1>22
  <2>3. m \in Seq(Nat)
    <3>1. 1..n \subseteq Nat
      OBVIOUS
    <3> QED BY <1>14, <3>1, SeqMonotonic
  <2>4. ASSUME NEW i \in 1..Len(m), NEW j \in 1..Len(m), i < j PROVE m[i] < m[j]
    <3>1. j \in 2 .. N + 1 /\ (i = 1 \/ i \in 2 .. N + 1)
      BY <1>5, <1>14, <2>4
    <3>2. CASE i = 1
      <4>1. j - 1 \in 1..N /\ m[j] = s[j - 1] /\ ~(j - 1 <= 0)
        BY <1>19, <3>1
      <4>2. b < s[j - 1]
        BY <1>11, <2>1, <4>1
      <4> QED BY <1>14, <3>2, <4>1, <4>2
    <3>3. CASE i \in 2 .. N + 1
      <4>1. /\ j - 1 \in 1..N /\ m[j] = s[j - 1] /\ i - 1 \in 1..N /\ m[i] = s[i - 1]
            /\ i - 1 < j - 1
        BY <1>19, <2>4, <3>1, <3>3
      <4> QED BY <1>12, <4>1
    <3> QED BY <3>1, <3>2, <3>3
  <2>5. log[m[1]].role # "assistant"
    BY <1>3, <1>14, BoundaryFacts
  <2> QED BY <1>13, <2>2, <2>3, <2>4, <2>5 DEF InOrderFrom
<1> QED BY <1>21, <1>22

LEMMA FilteredType == LogOK(log) => Filtered \in Seq(0..MaxEntries)
<1> SUFFICES ASSUME LogOK(log) PROVE Filtered \in Seq(0..MaxEntries)
  OBVIOUS
<1>1. Fresh \in SUBSET (1..Len(log)) /\ Len(log) \in Nat
  BY FreshIs
<1>2. Len(log) <= MaxEntries
  BY DEF LogOK
<1>3. 1..Len(log) \subseteq 0..MaxEntries
  BY <1>1, <1>2, BoundsAreNat
<1>4. InOrder(Fresh) \in Seq(0..MaxEntries)
  <2>1. InOrder(Fresh) \in Seq(Fresh) /\ Fresh \subseteq 0..MaxEntries
    BY <1>1, <1>3, InOrderIs
  <2> QED BY <2>1, SeqMonotonic
<1>5. <<>> \in Seq(0..MaxEntries)
  OBVIOUS
<1>6. Boundary # None => <<Boundary>> \in Seq(0..MaxEntries)
  <2>1. Boundary # None => Boundary \in 0..MaxEntries
    BY <1>3, FreshIs
  <2> QED BY <2>1
<1>7. Filtered = (IF Boundary = None THEN <<>> ELSE <<Boundary>>) \o InOrder(Fresh)
  BY DEF Filtered, Fresh
<1>8. CASE Boundary = None
  BY <1>4, <1>5, <1>7, <1>8, ConcatProperties
<1>9. CASE Boundary # None
  BY <1>4, <1>6, <1>7, <1>9, ConcatProperties
<1> QED BY <1>8, <1>9

LEMMA ChronologicalType == LogOK(log) => Chronological(Filtered) \in Seq(0..MaxEntries)
<1> SUFFICES ASSUME LogOK(log) PROVE Chronological(Filtered) \in Seq(0..MaxEntries)
  OBVIOUS
<1>1. PICK E : E = 0..MaxEntries
  OBVIOUS
<1>2. PICK m : m = Filtered
  OBVIOUS
<1>3. m \in Seq(E) /\ Len(m) \in Nat /\ \A i \in 1..Len(m) : m[i] \in E
  BY <1>1, <1>2, FilteredType, LenProperties, ElementOfSeq
<1>4. PICK c : c = RetainedCount
  OBVIOUS
<1>5. c \in Nat
  <2>1. Visible \in SUBSET (1..Len(log)) /\ Len(log) \in Nat
    BY InDomain, LenProperties DEF LogOK
  <2>2. {i \in KeptRange \cap Visible : ~Stale(i)} \in SUBSET (1..Len(log))
    BY <2>1
  <2> QED BY <1>4, <2>1, <2>2, FiniteBefore DEF RetainedCount
<1>6. PICK tail : tail = SubSeq(m, 2, c + 1)
  OBVIOUS
<1>7. PICK rest : rest = SubSeq(m, c + 2, Len(m))
  OBVIOUS
<1>8. PICK anchor : anchor = IF log[tail[1]].role = "assistant" THEN <<None>> ELSE <<>>
  OBVIOUS
<1>9. Chronological(m) =
        IF Boundary # None /\ log[Boundary].marked /\ 0 < c /\ c < Len(m)
          THEN anchor \o tail \o <<m[1]>> \o rest ELSE m
  BY <1>4, <1>6, <1>7, <1>8 DEF Chronological
<1>10. CASE 0 < c /\ c < Len(m)
  <2>1. tail \in Seq(E)
    <3>1. \A i \in 2 .. c + 1 : i \in 1..Len(m)
      BY <1>3, <1>5, <1>10
    <3>2. \A i \in 2 .. c + 1 : m[i] \in E
      BY <1>3, <3>1
    <3>3. PICK two \in Int : two = 2
      OBVIOUS
    <3>4. PICK end \in Int : end = c + 1
      BY <1>5
    <3>5. tail = SubSeq(m, two, end) /\ \A i \in two .. end : m[i] \in E
      BY <1>6, <3>2, <3>3, <3>4
    <3> QED BY <3>5, SubSeqProperties
  <2>2. rest \in Seq(E)
    <3>1. \A i \in c + 2 .. Len(m) : i \in 1..Len(m)
      BY <1>3, <1>5
    <3>2. \A i \in c + 2 .. Len(m) : m[i] \in E
      BY <1>3, <3>1
    <3>3. PICK start \in Int : start = c + 2
      BY <1>5
    <3>4. rest = SubSeq(m, start, Len(m)) /\ \A i \in start .. Len(m) : m[i] \in E
      BY <1>7, <3>2, <3>3
    <3> QED BY <1>3, <3>4, SubSeqProperties
  <2>3. anchor \in Seq(E)
    <3>1. None \in E
      BY <1>1, BoundsAreNat DEF None
    <3>2. <<None>> \in Seq(E) /\ <<>> \in Seq(E)
      BY <3>1
    <3> QED BY <1>8, <3>2
  <2>4. <<m[1]>> \in Seq(E)
    <3>1. m[1] \in E
      BY <1>3, <1>5, <1>10
    <3> QED BY <3>1
  <2>5. anchor \o tail \in Seq(E)
    BY <2>1, <2>3, ConcatProperties
  <2>6. anchor \o tail \o <<m[1]>> \in Seq(E)
    BY <2>4, <2>5, ConcatProperties
  <2>7. anchor \o tail \o <<m[1]>> \o rest \in Seq(E)
    BY <2>2, <2>6, ConcatProperties
  <2> QED BY <1>1, <1>2, <1>3, <1>9, <2>7
<1>11. CASE ~(0 < c /\ c < Len(m))
  BY <1>1, <1>2, <1>3, <1>9, <1>11
<1> QED BY <1>10, <1>11

----------------------------------------------------------------------------
(* The theorems. *)

IInv == TypeOK /\ LogOK(log) /\ RequestInOrder

LEMMA InitInv == Init => IInv
<1> SUFFICES ASSUME Init PROVE IInv
  OBVIOUS
<1>1. log = <<>> /\ omitted = {} /\ queue = <<>> /\ phase = "idle" /\ request = <<>>
  BY DEF Init
<1>2. <<>> \in Seq(Entries) /\ <<>> \in Seq(Queueable) /\ <<>> \in Seq(0..MaxEntries)
  OBVIOUS
<1>3. Len(log) = 0 /\ Len(queue) = 0 /\ DOMAIN log = {}
  <2>1. \A i \in 1..0 : FALSE
    OBVIOUS
  <2>2. Len(<<>>) = 0 /\ DOMAIN <<>> = {}
    BY <2>1
  <2> QED BY <1>1, <2>2
<1>4. LogOK(log)
  BY <1>1, <1>2, <1>3, BoundsAreNat DEF LogOK
<1>5. TypeOK
  BY <1>1, <1>2, <1>3, BoundsAreNat DEF TypeOK
<1>6. RequestInOrder
  BY <1>1 DEF RequestInOrder
<1> QED BY <1>4, <1>5, <1>6 DEF IInv

\* What a step does to the rest of the state.
LEMMA TypeStep ==
  ASSUME TypeOK, LogOK(log), [Next]_vars
  PROVE  TypeOK'
<1>1. LogOK(log') /\ \A i \in 1..Len(log) : i \in 1..Len(log')
  BY NextStep DEF Outcome
<1>2. DOMAIN log = 1..Len(log) /\ DOMAIN log' = 1..Len(log')
  BY <1>1, LenProperties DEF LogOK
<1>3. /\ log' \in Seq(Entries) /\ Len(log') <= MaxEntries
      /\ \A i \in DOMAIN log' : log'[i].role = "compaction" => log'[i].kept < i
  BY <1>1 DEF LogOK, EntryOK
<1>4. omitted' \subseteq DOMAIN log'
  <2>1. omitted' = omitted \/ \E i \in DOMAIN log : omitted' = omitted \cup {i}
    <3>1. Visible \subseteq DOMAIN log
      BY <1>2, InDomain
    <3> QED BY <3>1 DEF Edited, Next, vars, TurnEnd, BeforeCompact, CancelDraft, NativeCompact, Request, Say, Prompt,
           Steer, Respond, Finish, Deliver, Continue, Restart, Omit
  <2> QED BY <1>1, <1>2, <2>1 DEF TypeOK
<1>5. queue' \in Seq(Queueable) /\ Len(queue') <= MaxQueue
  <2>1. \/ queue' = queue \/ queue' = <<>>
        \/ queue # <<>> /\ queue' = Tail(queue)
        \/ Len(queue) < MaxQueue /\ (\E e \in Queueable : queue' = Append(queue, e))
    <3>1. CASE \E stop \in {"toolUse", "length", "error", "aborted"},
                  outcome \in {"completed", "aborted"}, handoff \in Records \cup {None},
                  drafted \in Drafts, automatic \in BOOLEAN : TurnEnd(stop, outcome, handoff, drafted, automatic)
      <4>1. Reminder(Window) \in Queueable
        BY WindowFacts DEF Queueable
      <4> QED BY <3>1, <4>1 DEF TurnEnd
    <3>2. CASE Steer \/ Deliver \/ Restart \/ Continue
      BY <3>2 DEF Steer, Deliver, Restart, Continue, Queueable
    <3>3. CASE \E prepared \in DOMAIN log, record \in Records : BeforeCompact(prepared, record)
      BY <3>3 DEF BeforeCompact
    <3>4. CASE CancelDraft \/ Request \/ Prompt \/ UNCHANGED vars
      BY <3>4 DEF CancelDraft, Request, Prompt, Say, vars
    <3>5. CASE \/ \E kept \in DOMAIN log : NativeCompact(kept)
               \/ \E calls \in 0..MaxCalls : Respond(calls)
               \/ \E call \in CallsOf(DOMAIN log), cost \in Costs : Finish(call, cost)
               \/ \E i \in DOMAIN log : Omit(i)
      BY <3>5 DEF NativeCompact, Respond, Finish, Omit
    <3> QED BY <3>1, <3>2, <3>3, <3>4, <3>5 DEF Next
  <2>2. queue \in Seq(Queueable) /\ Len(queue) \in Nat /\ Len(queue) <= MaxQueue
    BY LenProperties DEF TypeOK
  <2>3. CASE queue' = queue
    BY <2>2, <2>3
  <2>4. CASE queue' = <<>>
    BY <2>4, BoundsAreNat
  <2>5. CASE queue # <<>> /\ queue' = Tail(queue)
    BY <2>2, <2>5, HeadTailProperties, BoundsAreNat
  <2>6. CASE Len(queue) < MaxQueue /\ (\E e \in Queueable : queue' = Append(queue, e))
    BY <2>2, <2>6, AppendProperties, BoundsAreNat
  <2> QED BY <2>1, <2>3, <2>4, <2>5, <2>6
<1>6. phase' \in {"idle", "run", "asked", "tools", "settled"}
  BY ZenonT(30) DEF TypeOK, Next, vars, TurnEnd, BeforeCompact, CancelDraft, NativeCompact, Request, Say, Prompt,
         Steer, Respond, Finish, Deliver, Continue, Restart, Omit
<1>7. request' \in Seq(0..MaxEntries)
  <2>1. request' = request \/ request' = <<>> \/ request' = Chronological(Filtered)
    BY DEF Next, vars, TurnEnd, BeforeCompact, CancelDraft, NativeCompact, Request, Say, Prompt,
           Steer, Respond, Finish, Deliver, Continue, Restart, Omit
  <2>2. <<>> \in Seq(0..MaxEntries)
    OBVIOUS
  <2> QED BY <2>1, <2>2, ChronologicalType DEF TypeOK
<1> QED BY <1>3, <1>4, <1>5, <1>6, <1>7 DEF TypeOK

LEMMA RequestStep ==
  ASSUME TypeOK, LogOK(log), RequestInOrder, [Next]_vars
  PROVE  RequestInOrder'
<1>1. \/ request' = <<>>
      \/ request' = request /\ log' = log
      \/ request' = Chronological(Filtered) /\ log' = log
  BY DEF Next, vars, TurnEnd, BeforeCompact, CancelDraft, NativeCompact, Request, Say, Prompt,
         Steer, Respond, Finish, Deliver, Continue, Restart, Omit
<1>2. CASE request' = <<>>
  BY <1>2 DEF RequestInOrder
<1>3. CASE request' = request /\ log' = log
  <2>1. Boundary' = Boundary
    BY <1>3 DEF Boundary, IsCompaction
  <2> QED BY <1>3, <2>1 DEF RequestInOrder
<1>4. CASE request' = Chronological(Filtered) /\ log' = log
  <2>1. Boundary' = Boundary
    BY <1>4 DEF Boundary, IsCompaction
  <2> SUFFICES ASSUME Boundary # None, log[Boundary].posthorse
               PROVE  /\ \A i, j \in DOMAIN request' : i < j => request'[i] < request'[j]
                      /\ request'[1] # None => log[request'[1]].role # "assistant"
    BY <1>4, <2>1 DEF RequestInOrder
  <2>2. InOrderFrom(request')
    BY <1>4, ChronologicalInOrder
  <2>3. DOMAIN request' = 1..Len(request')
    BY <2>2, LenProperties DEF InOrderFrom
  <2> QED BY <2>2, <2>3 DEF InOrderFrom
<1> QED BY <1>1, <1>2, <1>3, <1>4

LEMMA InvStep == IInv /\ [Next]_vars => IInv'
<1> SUFFICES ASSUME TypeOK, LogOK(log), RequestInOrder, [Next]_vars PROVE IInv'
  BY DEF IInv
<1>1. LogOK(log')
  BY NextStep DEF Outcome
<1> QED BY <1>1, TypeStep, RequestStep DEF IInv

LEMMA Invariant == Spec => []IInv
BY InitInv, InvStep, PTL DEF Spec

\* The session is well formed in every state: a compaction keeps entries before
\* it, and no entry, queue or request is outside its bounds.
THEOREM TypeCorrect == Spec => []TypeOK
<1>1. IInv => TypeOK
  BY DEF IInv
<1> QED BY <1>1, Invariant, PTL

\* After a rollover the model reads the session in the order in which it happened
\* (registerReminderFilter, chronologicalRetainedTail of rollover.ts).
THEOREM RequestsInOrder == Spec => []RequestInOrder
<1>1. IInv => RequestInOrder
  BY DEF IInv
<1> QED BY <1>1, Invariant, PTL

\* What a rollover keeps is whole, and its record announces a tail exactly when
\* there is one (boundedTail of retention.ts, automaticDraft of rollover.ts).
THEOREM TailsAreWhole == Spec => TailIsWhole
<1>1. IInv /\ [Next]_vars => TailIsWholeStep
  BY CommitIsWhole DEF IInv
<1>2. (Commits => Whole(Visible)' /\ (log'[Len(log')].marked <=> Visible' # {})) <=> TailIsWholeStep
  BY DEF TailIsWholeStep
<1> QED BY <1>1, <1>2, Invariant, PTL DEF Spec, TailIsWhole

\* A rollover leaves half of the window free, whatever the sizes of the record and
\* of the tail (freshPayloadChars, boundedTail of retention.ts).
THEOREM HalfIsFree == Spec => HalfStaysFree
<1>1. IInv /\ [Next]_vars => HalfStaysFreeStep
  BY CommitLeavesHalf DEF IInv
<1>2. (Commits =>
         2 * (Usage' - Overhead) + Overhead + Margin + (IF phase = "tools" THEN Pending ELSE 0)
           <= Line) <=> HalfStaysFreeStep
  BY DEF HalfStaysFreeStep
<1> QED BY <1>1, <1>2, Invariant, PTL DEF Spec, HalfStaysFree
============================================================================
