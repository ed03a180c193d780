--------------------------- MODULE RecoveryProofs ---------------------------
(***************************************************************************)
(* Proofs about Recovery for any calls and notes, and sessions of any      *)
(* length.                                                                 *)
(***************************************************************************)
EXTENDS Recovery, FiniteSetTheorems, WellFoundedInduction, TLAPS

----------------------------------------------------------------------------
(* The first and the last of a set of entries. *)

LEMMA Least ==
  ASSUME NEW T \in SUBSET Nat, NEW n \in T
  PROVE  \E x \in T : \A y \in T : x <= y
<1> DEFINE Below == OpToRel(<, Nat)
<1>1. Below = {p \in Nat \X Nat : p[1] < p[2]}
  BY DEF OpToRel
<1>2. IsWellFoundedOn(Below, Nat)
  BY NatLessThanWellFounded
<1> HIDE DEF Below
<1>3. \A x, y \in Nat : y < x => <<y, x>> \in Below
  BY <1>1
<1>4. PICK x \in T : \A y \in T : ~ (<<y, x>> \in Below)
  BY <1>2, WFMin
<1>5. \A y \in T : ~ (y < x)
  BY <1>3, <1>4
<1> QED BY <1>5

LEMMA MinFacts ==
  ASSUME NEW S \in SUBSET Nat, NEW s \in S
  PROVE  Min(S) \in S /\ \A x \in S : Min(S) <= x
<1>1. PICK x \in S : \A y \in S : x <= y
  BY Least
<1> QED BY <1>1 DEF Min

LEMMA MaxFacts ==
  ASSUME NEW n \in Nat, NEW S \in SUBSET (1..n), NEW s \in S
  PROVE  Max(S) \in S /\ \A x \in S : x <= Max(S)
<1> DEFINE Gaps == {n - x : x \in S}
<1>1. Gaps \in SUBSET Nat /\ \E g \in Gaps : TRUE
  OBVIOUS
<1>2. PICK g \in Gaps : \A h \in Gaps : g <= h
  BY <1>1, Least
<1>3. PICK x \in S : g = n - x
  BY <1>2
<1>4. \A y \in S : y <= x
  BY <1>2, <1>3
<1> QED BY <1>4 DEF Max

LEMMA LastFacts ==
  ASSUME NEW n \in Nat, NEW S \in SUBSET (1..n)
  PROVE  /\ LastOf(S) \in 0..n
         /\ LastOf(S) = None <=> S = {}
         /\ S # {} => LastOf(S) \in S
         /\ \A x \in S : x <= LastOf(S)
<1>1. CASE S = {}
  BY <1>1 DEF LastOf, None
<1>2. CASE S # {}
  <2>1. PICK s \in S : TRUE
    BY <1>2
  <2>2. Max(S) \in S /\ \A x \in S : x <= Max(S)
    BY <2>1, MaxFacts
  <2>3. Max(S) \in 1..n
    BY <2>2
  <2> QED BY <1>2, <2>2, <2>3 DEF LastOf, None
<1> QED BY <1>1, <1>2

LEMMA LastIs ==
  ASSUME NEW n \in Nat, NEW S \in SUBSET (1..n), NEW x \in S, \A y \in S : y <= x
  PROVE  LastOf(S) = x
<1>1. LastOf(S) \in S /\ x <= LastOf(S)
  BY LastFacts
<1>2. LastOf(S) <= x /\ LastOf(S) \in 1..n /\ x \in 1..n
  BY <1>1
<1> QED BY <1>1, <1>2

----------------------------------------------------------------------------
(* How a session grows. *)

Typed ==
  /\ log \in Seq(Entries) /\ Len(log) <= MaxEntries
  /\ effects \in Seq(Effects)
  /\ scope \in {"source", "fork"}
  /\ seeds \in SUBSET Notes

LEMMA Bounds ==
  /\ MaxEntries \in Nat /\ MaxCalls \in Nat
BY BoundsAssumption

LEMMA PathFacts ==
  ASSUME Typed
  PROVE  /\ Len(log) \in Nat
         /\ \A i \in Path : i \in Nat /\ log[i] \in Entries
         /\ \A b \in Path : log[b].kept \in Nat
         /\ Boundaries \in SUBSET (1..Len(log))
         /\ Messages \in SUBSET (1..Len(log))
<1>1. log \in Seq(Entries) /\ Len(log) \in Nat
  BY DEF Typed
<1>2. \A i \in Path : i \in Nat /\ log[i] \in Entries
  BY <1>1 DEF Path
<1>3. \A b \in Path : log[b].kept \in Nat
  BY <1>2, Bounds DEF Entries
<1> QED BY <1>1, <1>2, <1>3 DEF Path, Boundaries, Messages

\* An entry that a step may add.
Addition(e) ==
  /\ e \in Entries
  /\ \/ e.kind \in {"user", "edit"}
     \/ e.kind \in {"custom", "assistant"} /\ Open = {}
     \/ e.kind = "result" /\ e.call \in AllCalls /\ (~Async(e.call) => e.call \in Open)
     \/ e.kind = "boundary" /\ Open = {} /\ (e.kept = None \/ SafeStart(e.kept))

LEMMA BlankType ==
  ASSUME NEW kind \in {"user", "custom", "assistant", "result", "edit", "boundary"}
  PROVE  Blank(kind) \in Entries
BY Bounds DEF Blank, Entries, None

LEMMA GrowthFacts ==
  ASSUME Typed, NEW e \in Entries, Len(log) < MaxEntries, log' = Append(log, e)
  PROVE  /\ log' \in Seq(Entries) /\ Len(log') = Len(log) + 1 /\ Len(log') <= MaxEntries
         /\ \A i \in Path : log'[i] = log[i]
         /\ log'[Len(log) + 1] = e
         /\ Path' = Path \cup {Len(log) + 1}
<1>1. log \in Seq(Entries) /\ Len(log) \in Nat
  BY DEF Typed
<1>2. log' \in Seq(Entries) /\ Len(log') = Len(log) + 1
  BY <1>1
<1>3. \A i \in Path : log'[i] = log[i]
  BY <1>1 DEF Path
<1>4. log'[Len(log) + 1] = e
  BY <1>1
<1>5. Path' = Path \cup {Len(log) + 1}
  BY <1>1, <1>2 DEF Path
<1>6. Len(log) + 1 <= MaxEntries
  BY <1>1, Bounds
<1> QED BY <1>2, <1>3, <1>4, <1>5, <1>6

LEMMA ResponseType ==
  ASSUME NEW calls \in BoundedSeq(Calls, MaxCalls), NEW stop \in {"complete", "cut"}
  PROVE  [Blank("assistant") EXCEPT !.calls = calls, !.stop = stop] \in Entries
<1>1. calls \in Seq(Calls)
  BY Bounds DEF BoundedSeq, SeqOf
<1> QED BY <1>1, BlankType DEF Entries

LEMMA CallFacts ==
  ASSUME Typed, NEW c \in AllCalls
  PROVE  /\ c[1] \in Path /\ c[2] \in 1..MaxCalls
         /\ c \in (1..MaxEntries) \X (1..MaxCalls) /\ c \in (0..MaxEntries) \X (0..MaxCalls)
         /\ CallAt(c) \in Calls /\ CallAt(c) \in CallTypes
<1>1. c \in Path \X (1..MaxCalls) /\ c[2] <= Len(log[c[1]].calls)
  BY DEF AllCalls
<1>2. c[1] \in 1..Len(log) /\ c[2] \in 1..MaxCalls
  BY <1>1 DEF Path
<1>3. log[c[1]] \in Entries /\ Len(log) \in Nat /\ Len(log) <= MaxEntries
  BY <1>2, PathFacts DEF Typed, Path
<1>4. log[c[1]].calls \in Seq(Calls)
  BY <1>3 DEF Entries
<1>5. CallAt(c) \in Calls
  BY <1>1, <1>2, <1>4 DEF CallAt
<1>6. c[1] \in 1..MaxEntries
  BY <1>2, <1>3, Bounds
<1> QED BY <1>1, <1>2, <1>5, <1>6, Bounds, CallsAssumption

LEMMA ProjectedFacts ==
  /\ Projected \subseteq Messages
  /\ Projected \subseteq Window(Len(log))
  /\ \A i \in Projected : ~Omitted(i)
BY DEF Projected

LEMMA TailFacts ==
  ASSUME Typed, NEW tail \in Tails
  PROVE  /\ tail \subseteq Projected
         /\ AnswersOf(tail) \subseteq CallsOf(tail)
         /\ tail # {} => SafeStart(Min(tail))
<1>1. CASE tail = {}
  BY <1>1 DEF AnswersOf
<1>2. CASE tail # {}
  <2>1. PICK i \in Path : SafeStart(i) /\ AnswersOf(Suffix(i)) = CallsOf(Suffix(i)) /\ tail = Suffix(i)
    BY <1>2 DEF Tails
  <2>2. Projected \subseteq Nat /\ tail \subseteq Projected /\ i \in tail /\ \A j \in tail : j >= i
    BY <2>1, PathFacts, ProjectedFacts DEF Suffix, SafeStart
  <2>3. tail \in SUBSET Nat /\ i \in Nat
    BY <2>2
  <2>4. Min(tail) \in tail /\ Min(tail) <= i
    BY <2>2, <2>3, MinFacts
  <2>5. Min(tail) \in Nat /\ Min(tail) >= i
    BY <2>2, <2>3, <2>4
  <2>6. Min(tail) = i
    BY <2>3, <2>4, <2>5
  <2> QED BY <2>1, <2>2, <2>6
<1> QED BY <1>1, <1>2

Quiet == log' = log

Growing == Len(log) < MaxEntries /\ \E e : Addition(e) /\ log' = Append(log, e)

LEMMA SayGrows ==
  ASSUME Say PROVE Growing
BY BlankType DEF Say, Append1, Growing, Addition, Blank

LEMMA CoordinateGrows ==
  ASSUME Coordinate PROVE Growing
BY BlankType DEF Coordinate, Append1, Growing, Addition, Blank

LEMMA RespondGrows ==
  ASSUME NEW calls \in BoundedSeq(Calls, MaxCalls), NEW stop \in {"complete", "cut"}, Respond(calls, stop)
  PROVE  Growing
<1> DEFINE e == [Blank("assistant") EXCEPT !.calls = calls, !.stop = stop]
<1>1. e \in Entries
  BY ResponseType
<1>2. e.kind = "assistant"
  BY DEF Blank
<1>3. Open = {} /\ Len(log) < MaxEntries /\ log' = Append(log, e)
  BY DEF Respond, Append1
<1> HIDE DEF e
<1> QED BY <1>1, <1>2, <1>3 DEF Growing, Addition

LEMMA FinishGrows ==
  ASSUME Typed, NEW c \in AllCalls, NEW outcome \in {"ok", "error", "partly"}, Finish(c, outcome)
  PROVE  Growing
<1> DEFINE e == [Blank("result") EXCEPT !.call = c, !.outcome = outcome]
<1>1. e \in Entries
  BY BlankType, CallFacts DEF Entries
<1>2. e.kind = "result" /\ e.call = c
  BY DEF Blank
<1>3. Len(log) < MaxEntries /\ log' = Append(log, e)
  BY DEF Finish, Append1
<1>4. ~Async(c) => c \in Open
  BY DEF Finish
<1> HIDE DEF e
<1> QED BY <1>1, <1>2, <1>3, <1>4 DEF Growing, Addition

LEMMA CompleteGrows ==
  ASSUME Typed, NEW c \in AllCalls, Complete(c)
  PROVE  Growing
<1> DEFINE e == [Blank("custom") EXCEPT !.call = c]
<1>1. e \in Entries
  BY BlankType, CallFacts DEF Entries
<1>2. e.kind = "custom"
  BY DEF Blank
<1>3. Open = {} /\ Len(log) < MaxEntries /\ log' = Append(log, e)
  BY DEF Complete, Append1
<1> HIDE DEF e
<1> QED BY <1>1, <1>2, <1>3 DEF Growing, Addition

LEMMA EditGrows ==
  ASSUME Typed, NEW i \in Path, NEW text \in {"omit", "replace"}, Edit(i, text)
  PROVE  Growing
<1> DEFINE e == [Blank("edit") EXCEPT !.target = i, !.text = text]
<1>0. i \in 0..MaxEntries
  BY Bounds DEF Typed, Path
<1>1. e \in Entries
  <2>1. Blank("edit") \in Entries
    BY BlankType
  <2> QED BY <1>0, <2>1 DEF Entries
<1>2. e.kind = "edit"
  BY DEF Blank
<1>3. Len(log) < MaxEntries /\ log' = Append(log, e)
  BY DEF Edit, Append1
<1> HIDE DEF e
<1> QED BY <1>1, <1>2, <1>3 DEF Growing, Addition

LEMMA BoundaryType ==
  ASSUME Typed, NEW made \in {"auto", "reset", "native"}, NEW kept, kept = None \/ SafeStart(kept)
  PROVE  /\ [Blank("boundary") EXCEPT !.made = made, !.kept = kept] \in Entries
         /\ [Blank("boundary") EXCEPT !.kept = kept] \in Entries
         /\ [Blank("boundary") EXCEPT !.made = made] \in Entries
<1>1. kept \in 0..MaxEntries
  <2>1. CASE kept = None
    BY <2>1, Bounds DEF None
  <2>2. CASE SafeStart(kept)
    <3>1. kept \in 1..Len(log)
      BY <2>2, PathFacts, ProjectedFacts DEF SafeStart
    <3> QED BY <3>1, Bounds DEF Typed
  <2> QED BY <2>1, <2>2
<1> QED BY <1>1, BlankType, ZenonT(30) DEF Entries

LEMMA RolloverGrows ==
  ASSUME Typed, NEW tail \in Tails, NEW fit \in Fits, Rollover(tail, fit)
  PROVE  Growing
<1> DEFINE kept == IF tail = {} THEN None ELSE Min(tail)
           e == [Blank("boundary") EXCEPT !.kept = kept]
<1>1. kept = None \/ SafeStart(kept)
  BY TailFacts
<1>2. Len(log) < MaxEntries /\ log' = Append(log, e) /\ Open = {}
  BY DEF Rollover, HasMessages
<1> HIDE DEF kept
<1>4. e \in Entries
  BY <1>1, BoundaryType
<1>5. e.kind = "boundary" /\ e.kept = kept
  BY DEF Blank
<1> HIDE DEF e
<1> QED BY <1>1, <1>2, <1>4, <1>5 DEF Growing, Addition

LEMMA ResetGrows ==
  ASSUME Typed, Reset
  PROVE  Growing
<1> DEFINE e == [Blank("boundary") EXCEPT !.made = "reset"]
<1>2. e \in Entries
  BY BoundaryType
<1>3. e.kind = "boundary" /\ e.kept = None
  BY DEF Blank
<1>4. Len(log) < MaxEntries /\ log' = Append(log, e) /\ Open = {}
  BY DEF Reset, HasMessages, Append1
<1> HIDE DEF e
<1> QED BY <1>2, <1>3, <1>4 DEF Growing, Addition

LEMMA CompactGrows ==
  ASSUME Typed, NEW kept, Compact(kept)
  PROVE  Growing
<1> DEFINE e == [Blank("boundary") EXCEPT !.made = "native", !.kept = kept]
<1>1. kept = None \/ SafeStart(kept)
  BY DEF Compact
<1>2. e \in Entries
  BY <1>1, BoundaryType
<1>3. e.kind = "boundary" /\ e.kept = kept
  BY DEF Blank
<1>4. Len(log) < MaxEntries /\ log' = Append(log, e) /\ Open = {}
  BY DEF Compact, HasMessages, Append1
<1> HIDE DEF e
<1> QED BY <1>1, <1>2, <1>3, <1>4 DEF Growing, Addition

\* The session stays as it is, or an entry is added.
LEMMA LogStep ==
  ASSUME Typed, Next
  PROVE  Quiet \/ Growing
<1>1. CASE Say BY <1>1, SayGrows
<1>2. CASE Coordinate BY <1>2, CoordinateGrows
<1>3. CASE \E calls \in BoundedSeq(Calls, MaxCalls), stop \in {"complete", "cut"} : Respond(calls, stop)
  BY <1>3, RespondGrows
<1>4. CASE \E c \in AllCalls, outcome \in {"ok", "error", "partly"} : Finish(c, outcome)
  BY <1>4, FinishGrows
<1>5. CASE \E c \in AllCalls : Act(c) BY <1>5 DEF Act, Quiet
<1>6. CASE \E c \in AllCalls : Complete(c) BY <1>6, CompleteGrows
<1>7. CASE \E i \in Path, text \in {"omit", "replace"} : Edit(i, text) BY <1>7, EditGrows
<1>8. CASE \E tail \in Tails, fit \in Fits : Rollover(tail, fit) BY <1>8, RolloverGrows
<1>9. CASE Reset BY <1>9, ResetGrows
<1>10. CASE \E kept \in 0..Len(log) : Compact(kept) BY <1>10, CompactGrows
<1>11. CASE \E owned \in SUBSET Notes : Fork(owned) BY <1>11 DEF Fork, Quiet
<1> QED BY <1>1, <1>2, <1>3, <1>4, <1>5, <1>6, <1>7, <1>8, <1>9, <1>10, <1>11 DEF Next, Step

LEMMA EffectType ==
  ASSUME Typed, NEW c \in AllCalls, CallAt(c).does # "nothing"
  PROVE  EffectOf(c) \in Effects /\ EffectOf(c).call = c
<1>1. CallAt(c).note \in Notes /\ CallAt(c).does \in {"read", "full", "partial", "clear", "delete"}
  BY CallFacts DEF CallTypes
<1> QED BY <1>1, CallFacts DEF EffectOf, Effects, Typed

LEMMA EffectsStep ==
  ASSUME Typed, Next
  PROVE  \/ effects' = effects
         \/ \E e \in Effects : e.call \in AllCalls /\ effects' = Append(effects, e)
<1>1. CASE Say BY <1>1 DEF Say
<1>2. CASE Coordinate BY <1>2 DEF Coordinate
<1>3. CASE \E calls \in BoundedSeq(Calls, MaxCalls), stop \in {"complete", "cut"} : Respond(calls, stop)
  BY <1>3 DEF Respond
<1>4. CASE \E c \in AllCalls, outcome \in {"ok", "error", "partly"} : Finish(c, outcome)
  <2>1. PICK c \in AllCalls, outcome \in {"ok", "error", "partly"} : Finish(c, outcome)
    BY <1>4
  <2>2. CASE effects' = effects
    BY <2>2
  <2>3. CASE effects' # effects
    <3> DEFINE adopted == [EffectOf(c) EXCEPT !.does = "partial"]
    <3>1. CallAt(c).does # "nothing"
      BY <2>1, <2>3 DEF Finish, Adopts
    <3>2. EffectOf(c) \in Effects /\ EffectOf(c).call = c
      BY <3>1, EffectType
    <3>3. adopted \in Effects /\ adopted.call = c
      BY <3>2 DEF Effects
    <3>4. effects' = Append(effects, EffectOf(c)) \/ effects' = Append(effects, adopted)
      BY <2>1, <2>3 DEF Finish
    <3> QED BY <3>2, <3>3, <3>4
  <2> QED BY <2>2, <2>3
<1>5. CASE \E c \in AllCalls : Act(c) BY <1>5, EffectType DEF Act
<1>6. CASE \E c \in AllCalls : Complete(c) BY <1>6 DEF Complete
<1>7. CASE \E i \in Path, text \in {"omit", "replace"} : Edit(i, text) BY <1>7 DEF Edit
<1>8. CASE \E tail \in Tails, fit \in Fits : Rollover(tail, fit) BY <1>8 DEF Rollover
<1>9. CASE Reset BY <1>9 DEF Reset
<1>10. CASE \E kept \in 0..Len(log) : Compact(kept) BY <1>10 DEF Compact
<1>11. CASE \E owned \in SUBSET Notes : Fork(owned) BY <1>11 DEF Fork
<1> QED BY <1>1, <1>2, <1>3, <1>4, <1>5, <1>6, <1>7, <1>8, <1>9, <1>10, <1>11 DEF Next, Step

LEMMA ScopeStep ==
  ASSUME Typed, Next
  PROVE  scope' \in {"source", "fork"} /\ seeds' \in SUBSET Notes
<1>1. CASE Say BY <1>1 DEF Say, Typed
<1>2. CASE Coordinate BY <1>2 DEF Coordinate, Typed
<1>3. CASE \E calls \in BoundedSeq(Calls, MaxCalls), stop \in {"complete", "cut"} : Respond(calls, stop)
  BY <1>3 DEF Respond, Typed
<1>4. CASE \E c \in AllCalls, outcome \in {"ok", "error", "partly"} : Finish(c, outcome)
  BY <1>4 DEF Finish, Typed
<1>5. CASE \E c \in AllCalls : Act(c) BY <1>5 DEF Act, Typed
<1>6. CASE \E c \in AllCalls : Complete(c) BY <1>6 DEF Complete, Typed
<1>7. CASE \E i \in Path, text \in {"omit", "replace"} : Edit(i, text) BY <1>7 DEF Edit, Typed
<1>8. CASE \E tail \in Tails, fit \in Fits : Rollover(tail, fit) BY <1>8 DEF Rollover, Typed
<1>9. CASE Reset BY <1>9 DEF Reset, Typed
<1>10. CASE \E kept \in 0..Len(log) : Compact(kept) BY <1>10 DEF Compact, Typed
<1>11. CASE \E owned \in SUBSET Notes : Fork(owned) BY <1>11 DEF Fork
<1> QED BY <1>1, <1>2, <1>3, <1>4, <1>5, <1>6, <1>7, <1>8, <1>9, <1>10, <1>11 DEF Next, Step

\* Only a rollover leaves a record.
LEMMA RecordStep ==
  ASSUME Next
  PROVE  record' = {} \/ \E tail \in Tails, fit \in Fits : Rollover(tail, fit)
<1>1. CASE Say BY <1>1 DEF Say, Append1, NoRecord
<1>2. CASE Coordinate BY <1>2 DEF Coordinate, Append1, NoRecord
<1>3. CASE \E calls \in BoundedSeq(Calls, MaxCalls), stop \in {"complete", "cut"} : Respond(calls, stop)
  BY <1>3 DEF Respond, Append1, NoRecord
<1>4. CASE \E c \in AllCalls, outcome \in {"ok", "error", "partly"} : Finish(c, outcome)
  BY <1>4 DEF Finish, Append1, NoRecord
<1>5. CASE \E c \in AllCalls : Act(c) BY <1>5 DEF Act, Append1, NoRecord
<1>6. CASE \E c \in AllCalls : Complete(c) BY <1>6 DEF Complete, Append1, NoRecord
<1>7. CASE \E i \in Path, text \in {"omit", "replace"} : Edit(i, text) BY <1>7 DEF Edit, Append1, NoRecord
<1>8. CASE \E tail \in Tails, fit \in Fits : Rollover(tail, fit) BY <1>8
<1>9. CASE Reset BY <1>9 DEF Reset, Append1, NoRecord
<1>10. CASE \E kept \in 0..Len(log) : Compact(kept) BY <1>10 DEF Compact, Append1, NoRecord
<1>11. CASE \E owned \in SUBSET Notes : Fork(owned) BY <1>11 DEF Fork, NoRecord
<1> QED BY <1>1, <1>2, <1>3, <1>4, <1>5, <1>6, <1>7, <1>8, <1>9, <1>10, <1>11 DEF Next, Step

LEMMA TypedStep ==
  ASSUME Typed, Next
  PROVE  Typed'
<1>1. log' \in Seq(Entries) /\ Len(log') <= MaxEntries
  BY LogStep, GrowthFacts DEF Quiet, Growing, Addition, Typed
<1>2. effects' \in Seq(Effects)
  <2>1. CASE effects' = effects
    BY <2>1 DEF Typed
  <2>2. CASE \E e \in Effects : e.call \in AllCalls /\ effects' = Append(effects, e)
    BY <2>2 DEF Typed
  <2> QED BY <2>1, <2>2, EffectsStep
<1> QED BY <1>1, <1>2, ScopeStep DEF Typed

LEMMA GrowthKeeps ==
  ASSUME Typed, Quiet \/ Growing
  PROVE  /\ \A i \in Path : i \in Path' /\ log'[i] = log[i]
         /\ Messages \subseteq Messages'
         /\ AllCalls \subseteq AllCalls'
         /\ \A c \in AllCalls : (CallAt(c))' = CallAt(c)
         /\ \A c \in AllCalls : (Async(c))' <=> Async(c)
<1>1. \A i \in Path : i \in Path' /\ log'[i] = log[i]
  BY GrowthFacts DEF Quiet, Growing, Addition, Path
<1>2. Messages \subseteq Messages'
  BY <1>1 DEF Messages
<1>3. \A c \in AllCalls : c[1] \in Path
  BY CallFacts
<1>4. AllCalls \subseteq AllCalls'
  BY <1>1, <1>3 DEF AllCalls
<1>5. \A c \in AllCalls : (CallAt(c))' = CallAt(c)
  BY <1>1, <1>3 DEF CallAt
<1>6. \A c \in AllCalls : (Async(c))' <=> Async(c)
  BY <1>5 DEF Async
<1> QED BY <1>1, <1>2, <1>4, <1>5, <1>6

----------------------------------------------------------------------------
(* What a record names. *)

LEMMA AnchorsFacts ==
  ASSUME Typed, NEW R \in SUBSET Messages, NEW S
  PROVE  /\ Anchors(R, S) \subseteq R
         /\ \A x \in Owners(R, S) : (\A y \in Owners(R, S) : y <= x) => x \in Anchors(R, S)
<1> DEFINE users == {i \in R : log[i].kind = "user"}
           first == IF users # {} THEN users ELSE R
<1>1. CASE R = {}
  BY <1>1 DEF Anchors, Owners
<1>2. CASE R # {}
  <2>1. PICK r \in R : TRUE
    BY <1>2
  <2>2. R \in SUBSET (1..Len(log)) /\ Len(log) \in Nat
    BY PathFacts
  <2>3. Max(R) \in R
    BY <2>1, <2>2, MaxFacts
  <2>4. first \in SUBSET R /\ first # {}
    BY <1>2
  <2>6. Owners(R, S) \in SUBSET R
    BY DEF Owners
  <2>7. Owners(R, S) # {} => Max(Owners(R, S)) \in Owners(R, S) /\ \A y \in Owners(R, S) : y <= Max(Owners(R, S))
    BY <2>2, <2>6, MaxFacts
  <2>8. Anchors(R, S) = {Min(first), Max(R)} \cup
                        (IF Owners(R, S) # {} THEN {Max(Owners(R, S))} ELSE {})
    BY <1>2 DEF Anchors
  <2> HIDE DEF users, first
  <2>5. Min(first) \in R
    <3>1. PICK t \in first : TRUE
      BY <2>4
    <3>2. first \in SUBSET Nat
      BY <2>2, <2>4
    <3>3. Min(first) \in first
      BY <3>1, <3>2, MinFacts
    <3> QED BY <2>4, <3>3
  <2>9. ASSUME NEW x \in Owners(R, S), \A y \in Owners(R, S) : y <= x
        PROVE  x = Max(Owners(R, S))
    <3>1. Max(Owners(R, S)) \in Owners(R, S) /\ x <= Max(Owners(R, S)) /\ Max(Owners(R, S)) <= x
      BY <2>7, <2>9
    <3>2. x \in R /\ Max(Owners(R, S)) \in R
      BY <2>6, <2>9, <3>1
    <3>3. \A y \in R : y \in Nat
      BY <2>2
    <3>4. x \in Nat /\ Max(Owners(R, S)) \in Nat
      BY <3>2, <3>3
    <3> QED BY <3>1, <3>4
  <2> QED BY <2>3, <2>5, <2>6, <2>7, <2>8, <2>9
<1> QED BY <1>1, <1>2

LEMMA CurrentFacts ==
  ASSUME NEW window, NEW tail
  PROVE  /\ Current(window, tail) \in SUBSET Messages
         /\ Current(window, tail) \subseteq window
         /\ Current(window, tail) \cap tail = {}
         /\ \A i \in Current(window, tail) : ~Omitted(i)
BY DEF Current

LEMMA DiscardedFacts ==
  ASSUME Typed, NEW tail
  PROVE  /\ Discarded(tail) \in SUBSET Messages
         /\ Discarded(tail) = {i \in Projected \ tail : Owner(i, Projected) \/ log[i].kind = "custom"}
         /\ Quoted(tail) \subseteq Discarded(tail)
<1>1. Current(Window(Len(log)), tail) = Projected \ tail
  BY DEF Current, Projected
<1>2. Discarded(tail) = {i \in Projected \ tail : Owner(i, Projected) \/ log[i].kind = "custom"}
  BY <1>1 DEF Discarded, Inputs, Owners
<1>3. Discarded(tail) \in SUBSET Messages
  BY <1>2, ProjectedFacts
<1> QED BY <1>2, <1>3, AnchorsFacts DEF Quoted

LEMMA CarriedFacts ==
  ASSUME Typed, NEW tail, NEW i \in Carried(tail)
  PROVE  /\ NoOwnerNow(tail) /\ Nearest # None /\ Nearest \in WithOwners
         /\ i \in Restored(Nearest) /\ Owner(i, Restored(Nearest))
         /\ i \in Messages /\ i \in Window(Nearest - 1) /\ ~Omitted(i)
<1>1. NoOwnerNow(tail) /\ i \in Ancestry(tail).carried
  BY DEF Carried
<1>2. Nearest # None
  BY <1>1 DEF Ancestry
<1>3. i \in Anchors(Carriable(Nearest, tail), Restored(Nearest))
  BY <1>1, <1>2 DEF Ancestry
<1>4. Restored(Nearest) \in SUBSET Messages
  BY CurrentFacts DEF Restored
<1>5. Carriable(Nearest, tail) \in SUBSET Messages
  BY <1>4 DEF Carriable, Owners
<1>6. i \in Carriable(Nearest, tail)
  BY <1>3, <1>5, AnchorsFacts
<1>7. i \in Restored(Nearest) /\ Owner(i, Restored(Nearest))
  BY <1>6 DEF Carriable, Owners
<1>8. i \in Window(Nearest - 1) /\ ~Omitted(i)
  BY <1>7, CurrentFacts DEF Restored
<1>9. Nearest \in WithOwners
  <2>1. WithOwners \in SUBSET (1..Len(log)) /\ Len(log) \in Nat
    BY PathFacts DEF WithOwners, Chain
  <2> QED BY <1>2, <2>1, LastFacts DEF Nearest
<1> QED BY <1>1, <1>2, <1>4, <1>7, <1>8, <1>9

LEMMA NamedFacts ==
  ASSUME NEW tail, NEW fit
  PROVE  /\ Named(tail, fit) \subseteq Recoverable(tail)
         /\ Recoverable(tail) \subseteq Projected \ tail
BY DEF Named, Recoverable, Results, Retained

----------------------------------------------------------------------------
(* Type correctness. *)

CallsMade ==
  /\ \A k \in DOMAIN effects : effects[k].call \in AllCalls
  /\ \A i \in Path : log[i].kind = "result" => log[i].call \in AllCalls

KeptSafe ==
  \A b \in Boundaries : log[b].kept # None =>
    log[b].kept \in Messages /\ log[b].kept < b /\ log[log[b].kept].kind # "result"

RecordTyped == \A r \in record : r.tail \cup r.inputs \cup r.carried \cup r.results \subseteq Messages

LEMMA TypeParts == TypeOK <=> Typed /\ CallsMade /\ KeptSafe /\ RecordTyped
BY DEF TypeOK, Typed, CallsMade, KeptSafe, RecordTyped

LEMMA HandoffFacts ==
  ASSUME Typed, NEW tail \in Tails, NEW fit
  PROVE  LET r == BuildAutoHandoff(tail, fit)
         IN r.tail \cup r.inputs \cup r.carried \cup r.results \subseteq Messages
<1>1. tail \subseteq Messages
  BY TailFacts, ProjectedFacts
<1>2. Quoted(tail) \subseteq Messages
  BY DiscardedFacts
<1>3. Carried(tail) \subseteq Messages
  BY CarriedFacts
<1>4. Named(tail, fit) \subseteq Messages
  BY NamedFacts, ProjectedFacts
<1> QED BY <1>1, <1>2, <1>3, <1>4 DEF BuildAutoHandoff

LEMMA CallsMadeStep ==
  ASSUME Typed, CallsMade, Next
  PROVE  CallsMade'
<1>1. \A i \in Path : i \in Path' /\ log'[i] = log[i]
  BY LogStep, GrowthKeeps
<1>2. AllCalls \subseteq AllCalls'
  BY LogStep, GrowthKeeps
<1>3. ASSUME NEW k \in DOMAIN effects'
      PROVE  effects'[k].call \in AllCalls'
  <2>1. CASE effects' = effects
    BY <1>2, <2>1 DEF CallsMade
  <2>2. CASE \E e \in Effects : e.call \in AllCalls /\ effects' = Append(effects, e)
    <3>1. PICK e \in Effects : e.call \in AllCalls /\ effects' = Append(effects, e)
      BY <2>2
    <3>2. effects \in Seq(Effects) /\ Len(effects) \in Nat
      BY DEF Typed
    <3>3. k \in DOMAIN effects \/ k = Len(effects) + 1
      BY <3>1, <3>2
    <3>4. CASE k \in DOMAIN effects
      BY <1>2, <3>1, <3>2, <3>4 DEF CallsMade
    <3>5. CASE k = Len(effects) + 1
      <4>1. effects'[k] = e
        BY <3>1, <3>2, <3>5
      <4> QED BY <1>2, <3>1, <4>1
    <3> QED BY <3>3, <3>4, <3>5
  <2> QED BY <2>1, <2>2, EffectsStep
<1>4. ASSUME NEW i \in Path', log'[i].kind = "result"
      PROVE  log'[i].call \in AllCalls'
  <2>1. CASE i \in Path
    BY <1>1, <1>2, <1>4, <2>1 DEF CallsMade
  <2>2. CASE i \notin Path
    <3>1. PICK e : Addition(e) /\ log' = Append(log, e) /\ Len(log) < MaxEntries
      BY <2>2, LogStep DEF Quiet, Growing, Path
    <3>2. i = Len(log) + 1 /\ log'[i] = e
      BY <2>2, <3>1, GrowthFacts DEF Addition
    <3>3. e.call \in AllCalls
      BY <1>4, <3>1, <3>2 DEF Addition
    <3> QED BY <1>2, <3>2, <3>3
  <2> QED BY <2>1, <2>2
<1> QED BY <1>3, <1>4 DEF CallsMade

LEMMA KeptSafeStep ==
  ASSUME Typed, KeptSafe, Quiet \/ Growing
  PROVE  KeptSafe'
<1>1. \A i \in Path : i \in Path' /\ log'[i] = log[i]
  BY GrowthKeeps
<1>2. Messages \subseteq Messages' /\ Messages \subseteq Path
  BY GrowthKeeps DEF Messages
<1> SUFFICES ASSUME NEW b \in Boundaries', log'[b].kept # None'
             PROVE  /\ log'[b].kept \in Messages' /\ log'[b].kept < b
                    /\ log'[log'[b].kept].kind # "result"
  BY DEF KeptSafe
<1>3. None' = None /\ b \in Path' /\ log'[b].kind = "boundary"
  BY DEF None, Boundaries
<1>4. CASE b \in Path
  <2>1. log'[b] = log[b] /\ b \in Boundaries
    BY <1>1, <1>3, <1>4 DEF Boundaries
  <2>2. log[b].kept \in Messages /\ log[b].kept < b /\ log[log[b].kept].kind # "result"
    BY <1>3, <2>1 DEF KeptSafe
  <2> QED BY <1>1, <1>2, <2>1, <2>2
<1>5. CASE b \notin Path
  <2>1. PICK e : Addition(e) /\ log' = Append(log, e) /\ Len(log) < MaxEntries
    BY <1>3, <1>5 DEF Quiet, Growing, Path
  <2>2. b = Len(log) + 1 /\ log'[b] = e /\ Len(log) \in Nat
    BY <1>3, <1>5, <2>1, GrowthFacts, PathFacts DEF Addition
  <2>3. SafeStart(e.kept)
    BY <1>3, <2>1, <2>2 DEF Addition
  <2>4. e.kept \in Messages /\ log[e.kept].kind # "result"
    BY <2>3, ProjectedFacts DEF SafeStart
  <2>5. e.kept \in 1..Len(log)
    BY <2>4, PathFacts
  <2>6. e.kept < Len(log) + 1
    BY <2>2, <2>5
  <2>7. log'[e.kept] = log[e.kept]
    BY <1>1, <1>2, <2>4
  <2> QED BY <1>2, <2>2, <2>4, <2>6, <2>7
<1> QED BY <1>4, <1>5

LEMMA RecordTypedStep ==
  ASSUME Typed, Next
  PROVE  RecordTyped'
<1>1. CASE record' = {}
  BY <1>1 DEF RecordTyped
<1>2. CASE \E tail \in Tails, fit \in Fits : Rollover(tail, fit)
  <2>1. PICK tail \in Tails, fit \in Fits : record' = {BuildAutoHandoff(tail, fit)}
    BY <1>2 DEF Rollover
  <2>2. PICK r : r = BuildAutoHandoff(tail, fit)
    OBVIOUS
  <2>3. r.tail \cup r.inputs \cup r.carried \cup r.results \subseteq Messages
    BY <2>2, HandoffFacts
  <2>4. Messages \subseteq Messages'
    BY LogStep, GrowthKeeps
  <2>5. record' = {r}
    BY <2>1, <2>2
  <2> QED BY <2>3, <2>4, <2>5 DEF RecordTyped
<1> QED BY <1>1, <1>2, RecordStep

LEMMA TypeStep ==
  ASSUME TypeOK, [Next]_vars
  PROVE  TypeOK'
<1>1. CASE Next
  <2>1. Typed /\ CallsMade /\ KeptSafe
    BY TypeParts
  <2>2. Typed' /\ CallsMade' /\ KeptSafe' /\ RecordTyped'
    BY <1>1, <2>1, TypedStep, CallsMadeStep, KeptSafeStep, RecordTypedStep, LogStep
  <2> QED BY <2>2, TypeParts DEF TypeOK, Typed, CallsMade, KeptSafe, RecordTyped
<1>2. CASE UNCHANGED vars
  BY <1>2 DEF vars, TypeOK, Path, AllCalls, Boundaries, Messages
<1> QED BY <1>1, <1>2

LEMMA TypeInit == Init => TypeOK
<1> SUFFICES ASSUME Init PROVE TypeOK
  OBVIOUS
<1>1. log = <<>> /\ effects = <<>> /\ scope = "source" /\ seeds = {} /\ record = {}
  BY DEF Init, NoRecord
<1>2. log \in Seq(Entries) /\ Len(log) = 0 /\ effects \in Seq(Effects) /\ DOMAIN effects = {}
  BY <1>1
<1>3. Path = {} /\ Len(log) <= MaxEntries
  BY <1>2, Bounds DEF Path
<1> QED BY <1>1, <1>2, <1>3 DEF TypeOK, Boundaries

\* Entries, effects and records are of their types, in every state.
THEOREM TypeCorrect == Spec => []TypeOK
<1>1. Init => TypeOK
  BY TypeInit
<1>2. TypeOK /\ [Next]_vars => TypeOK'
  BY TypeStep
<1> QED BY <1>1, <1>2, PTL DEF Spec

----------------------------------------------------------------------------
(* Nothing is repeated. *)

LEMMA OwnersNow ==
  ASSUME NEW tail, NoOwnerNow(tail), NEW i \in Projected
  PROVE  ~Owner(i, Projected)
<1>1. Current(Window(Len(log)), {}) = Projected
  BY DEF Current, Projected
<1> QED BY <1>1 DEF NoOwnerNow, Owners

\* An answer in the tail has its question there, so it would be an input of this window.
LEMMA NothingCarriedIsKept ==
  ASSUME Typed, NEW tail \in Tails, NEW i \in Carried(tail)
  PROVE  i \notin tail
<1> SUFFICES ASSUME i \in tail PROVE FALSE
  OBVIOUS
<1>1. NoOwnerNow(tail) /\ Owner(i, Restored(Nearest))
  BY CarriedFacts
<1>2. i \in Projected
  BY TailFacts
<1>3. CASE log[i].kind = "user"
  BY <1>1, <1>2, <1>3, OwnersNow DEF Owner
<1>4. CASE OwnerAnswer(i, Restored(Nearest))
  <2>1. log[i].kind = "result" /\ log[i].outcome = "ok" /\ CallAt(log[i].call).tool = "ask"
    BY <1>4 DEF OwnerAnswer
  <2>2. log[i].call \in AnswersOf(tail)
    BY <2>1 DEF AnswersOf
  <2>3. CallsOf(tail) \subseteq CallsOf(Projected)
    BY TailFacts DEF CallsOf
  <2>4. log[i].call \in CallsOf(Projected)
    BY <2>2, <2>3, TailFacts
  <2>5. Owner(i, Projected)
    BY <2>1, <2>4 DEF Owner, OwnerAnswer
  <2> QED BY <1>1, <1>2, <2>5, OwnersNow
<1> QED BY <1>1, <1>3, <1>4 DEF Owner

LEMMA HandoffRepeatsNothing ==
  ASSUME Typed, NEW tail \in Tails, NEW fit, NEW r, r = BuildAutoHandoff(tail, fit)
  PROVE  /\ Repeatable(r) \cap r.tail = {}
         /\ r.carried # {} => Owners(r.tail \cup r.inputs \cup r.listed, Projected) = {}
<1>1. /\ r.tail = tail /\ r.inputs = Quoted(tail) /\ r.listed = Discarded(tail) \ Quoted(tail)
      /\ r.carried = Carried(tail) /\ r.results = Named(tail, fit)
  BY DEF BuildAutoHandoff
<1>2. Quoted(tail) \cup (Discarded(tail) \ Quoted(tail)) \subseteq Projected \ tail
  BY DiscardedFacts
<1>3. Named(tail, fit) \subseteq Projected \ tail
  BY NamedFacts
<1>4. Carried(tail) \cap tail = {}
  BY NothingCarriedIsKept
<1>5. Repeatable(r) \cap r.tail = {}
  BY <1>1, <1>2, <1>3, <1>4 DEF Repeatable
<1>6. ASSUME r.carried # {}
      PROVE  Owners(r.tail \cup r.inputs \cup r.listed, Projected) = {}
  <2>1. NoOwnerNow(tail)
    BY <1>1, <1>6, CarriedFacts
  <2>2. r.tail \cup r.inputs \cup r.listed \subseteq Projected
    BY <1>1, <1>2, TailFacts
  <2> QED BY <2>1, <2>2, OwnersNow DEF Owners
<1> QED BY <1>5, <1>6

\* What holds of every record that a rollover writes holds in every step.
LEMMA RecordOf ==
  ASSUME Typed, Next, NEW r \in record'
  PROVE  \E tail \in Tails, fit \in Fits : r = BuildAutoHandoff(tail, fit)
<1>1. \E tail \in Tails, fit \in Fits : Rollover(tail, fit)
  BY RecordStep
<1> QED BY <1>1 DEF Rollover

LEMMA RepeatsNothingStep ==
  ASSUME Typed, Next
  PROVE  RepeatsNothing
BY RecordOf, HandoffRepeatsNothing DEF RepeatsNothing

LEMMA TypedAlways == Spec => []Typed
<1>1. TypeOK => Typed
  BY TypeParts
<1> QED BY <1>1, TypeCorrect, PTL

\* No record repeats what the tail shows, under whatever name an edit gave it, and nothing is
\* carried into a window in which the owner has spoken.
THEOREM RecordsRepeatNothing == Spec => NothingRepeated
<1>1. Typed /\ [Next]_vars => [RepeatsNothing]_vars
  BY RepeatsNothingStep
<1> QED BY <1>1, TypedAlways, PTL DEF Spec, NothingRepeated

----------------------------------------------------------------------------
(* Windows. *)

\* The last boundary of the first n entries that is not automatic.
Handoff(n) == LastOf({c \in Boundaries : c <= n /\ log[c].made # "auto"})

LEMMA BoundaryFacts ==
  ASSUME Typed, NEW n \in 0..Len(log)
  PROVE  /\ BoundaryOf(n) \in 0..n
         /\ BoundaryOf(n) # None => BoundaryOf(n) \in Boundaries
         /\ \A b \in Boundaries : b <= n => BoundaryOf(n) # None /\ b <= BoundaryOf(n)
<1> DEFINE S == {b \in Boundaries : b <= n}
<1>1. n \in Nat /\ Len(log) \in Nat /\ Boundaries \in SUBSET (1..Len(log))
  BY PathFacts
<1>2. \A b \in Boundaries : b \in 1..Len(log)
  BY <1>1
<1>3. \A b \in S : b \in 1..n
  BY <1>1, <1>2
<1> HIDE DEF S
<1>4. S \in SUBSET (1..n)
  BY <1>3
<1>5. LastOf(S) \in 0..n /\ (LastOf(S) = None <=> S = {}) /\ (S # {} => LastOf(S) \in S) /\ \A x \in S : x <= LastOf(S)
  BY <1>1, <1>4, LastFacts
<1> QED BY <1>5 DEF BoundaryOf, S

LEMMA HandoffOfFacts ==
  ASSUME Typed, NEW n \in 0..Len(log)
  PROVE  /\ Handoff(n) \in 0..n
         /\ Handoff(n) # None => Handoff(n) \in Boundaries /\ log[Handoff(n)].made # "auto"
         /\ \A b \in Boundaries : b <= n /\ log[b].made # "auto" => Handoff(n) # None /\ b <= Handoff(n)
<1> DEFINE S == {c \in Boundaries : c <= n /\ log[c].made # "auto"}
<1>1. n \in Nat /\ Len(log) \in Nat /\ Boundaries \in SUBSET (1..Len(log))
  BY PathFacts
<1>2. \A b \in Boundaries : b \in 1..Len(log)
  BY <1>1
<1>3. \A b \in S : b \in 1..n
  BY <1>1, <1>2
<1> HIDE DEF S
<1>4. S \in SUBSET (1..n)
  BY <1>3
<1>5. LastOf(S) \in 0..n /\ (LastOf(S) = None <=> S = {}) /\ (S # {} => LastOf(S) \in S) /\ \A x \in S : x <= LastOf(S)
  BY <1>1, <1>4, LastFacts
<1> QED BY <1>5 DEF Handoff, S

\* Which boundary it is, when one knows that it is the last.
LEMMA BoundaryIs ==
  ASSUME Typed, NEW n \in 0..Len(log), NEW b \in Boundaries, b <= n,
         \A c \in Boundaries : c <= n => c <= b
  PROVE  BoundaryOf(n) = b
<1>1. BoundaryOf(n) \in Boundaries /\ b <= BoundaryOf(n) /\ BoundaryOf(n) \in 0..n
  BY BoundaryFacts
<1>2. b \in Nat /\ BoundaryOf(n) \in Nat /\ BoundaryOf(n) <= n
  BY <1>1, PathFacts
<1> QED BY <1>1, <1>2

LEMMA HandoffIs ==
  ASSUME Typed, NEW n \in 0..Len(log), NEW h \in 0..n,
         h # None => h \in Boundaries /\ log[h].made # "auto",
         \A c \in Boundaries : c <= n /\ log[c].made # "auto" => c <= h
  PROVE  Handoff(n) = h
<1>1. Handoff(n) \in 0..n /\ n \in Nat
  BY HandoffOfFacts, PathFacts
<1>2. CASE Handoff(n) = None
  BY <1>1, <1>2, HandoffOfFacts DEF None
<1>3. CASE Handoff(n) # None
  <2>1. Handoff(n) \in Boundaries /\ log[Handoff(n)].made # "auto" /\ Handoff(n) <= n
    BY <1>1, <1>3, HandoffOfFacts
  <2>2. Handoff(n) <= h
    BY <2>1
  <2>3. h # None
    BY <1>1, <1>3, <2>2 DEF None
  <2>4. h <= Handoff(n)
    BY <1>1, <2>3, HandoffOfFacts
  <2> QED BY <1>1, <2>2, <2>4
<1> QED BY <1>2, <1>3

LEMMA StartFacts ==
  ASSUME Typed, KeptSafe, NEW n \in 0..Len(log)
  PROVE  Start(n) \in 1..(n + 1)
<1>1. BoundaryOf(n) \in 0..n /\ n \in Nat /\ Len(log) \in Nat
  BY BoundaryFacts, PathFacts
<1>2. CASE BoundaryOf(n) # None /\ log[BoundaryOf(n)].kept # None
  <2>1. BoundaryOf(n) \in Boundaries
    BY <1>2, BoundaryFacts
  <2>2. log[BoundaryOf(n)].kept \in Messages /\ log[BoundaryOf(n)].kept < BoundaryOf(n)
    BY <1>2, <2>1 DEF KeptSafe
  <2>3. log[BoundaryOf(n)].kept \in 1..Len(log)
    BY <2>2, PathFacts
  <2> QED BY <1>1, <1>2, <2>2, <2>3 DEF Start
<1>3. CASE ~(BoundaryOf(n) # None /\ log[BoundaryOf(n)].kept # None)
  BY <1>1, <1>3 DEF Start
<1> QED BY <1>2, <1>3

LEMMA StartOfBoundary ==
  ASSUME Typed, NEW n \in 0..Len(log)
  PROVE  Start(BoundaryOf(n)) = Start(n)
<1>1. BoundaryOf(n) \in 0..n /\ n \in Nat /\ Len(log) \in Nat
  BY BoundaryFacts, PathFacts
<1>2. BoundaryOf(n) \in 0..Len(log)
  BY <1>1
<1>3. BoundaryOf(BoundaryOf(n)) = BoundaryOf(n)
  <2>1. CASE BoundaryOf(n) = None
    BY <1>2, <2>1, BoundaryFacts DEF None
  <2>2. CASE BoundaryOf(n) # None
    <3>1. BoundaryOf(n) \in Boundaries /\ BoundaryOf(n) <= BoundaryOf(n)
      BY <1>1, <2>2, BoundaryFacts
    <3> QED BY <1>2, <3>1, BoundaryIs
  <2> QED BY <2>1, <2>2
<1> QED BY <1>3 DEF Start

\* What is behind a window does not change when an entry is added.
LEMMA WindowsKeep ==
  ASSUME Typed, Quiet \/ Growing, NEW n \in 0..Len(log)
  PROVE  /\ BoundaryOf(n)' = BoundaryOf(n)
         /\ Handoff(n)' = Handoff(n)
         /\ Start(n)' = Start(n)
<1>1. Len(log) \in Nat /\ n \in Nat /\ n <= Len(log)
  BY PathFacts
<1>2. \A i \in Path : i \in Path' /\ log'[i] = log[i]
  BY GrowthKeeps
<1>3. \A i \in Path' : i <= n => i \in Path
  <2>1. CASE Quiet
    BY <2>1 DEF Quiet, Path
  <2>2. CASE Growing
    <3>1. Path' = Path \cup {Len(log) + 1}
      BY <2>2, GrowthFacts DEF Growing, Addition
    <3> QED BY <1>1, <3>1
  <2> QED BY <2>1, <2>2
<1>4. {b \in Boundaries' : b <= n} = {b \in Boundaries : b <= n}
  BY <1>2, <1>3 DEF Boundaries
<1>5. \A b \in Boundaries : log'[b] = log[b]
  BY <1>2 DEF Boundaries
<1>6. {c \in Boundaries' : c <= n /\ log'[c].made # "auto"} = {c \in Boundaries : c <= n /\ log[c].made # "auto"}
  BY <1>4, <1>5
<1>7. BoundaryOf(n)' = BoundaryOf(n)
  BY <1>4 DEF BoundaryOf, LastOf
<1>8. Handoff(n)' = Handoff(n)
  BY <1>6 DEF Handoff, LastOf
<1>9. Start(n)' = Start(n)
  <2>1. BoundaryOf(n) # None => BoundaryOf(n) \in Boundaries
    BY BoundaryFacts
  <2>2. None' = None
    BY DEF None
  <2>3. CASE BoundaryOf(n) # None
    BY <1>5, <1>7, <2>1, <2>2, <2>3 DEF Start
  <2>4. CASE BoundaryOf(n) = None
    BY <1>7, <2>2, <2>4 DEF Start
  <2> QED BY <2>3, <2>4
<1> QED BY <1>7, <1>8, <1>9

----------------------------------------------------------------------------
(* No window starts before the handoff that it follows. *)

Forward ==
  \A b \in Boundaries : \A h \in 0..b : h = Handoff(b) => Start(h) <= Start(b)

LEMMA HandoffOfBoundary ==
  ASSUME Typed, NEW n \in 0..Len(log)
  PROVE  Handoff(BoundaryOf(n)) = Handoff(n)
<1>1. n \in Nat /\ Len(log) \in Nat /\ BoundaryOf(n) \in 0..n /\ Handoff(n) \in 0..n
  BY PathFacts, BoundaryFacts, HandoffOfFacts
<1>2. BoundaryOf(n) \in 0..Len(log)
  BY <1>1
<1>3. Handoff(n) <= BoundaryOf(n)
  <2>1. CASE Handoff(n) = None
    BY <1>1, <2>1 DEF None
  <2>2. CASE Handoff(n) # None
    BY <1>1, <2>2, BoundaryFacts, HandoffOfFacts
  <2> QED BY <2>1, <2>2
<1>4. Handoff(n) \in 0..BoundaryOf(n)
  BY <1>1, <1>3
<1>5. \A c \in Boundaries : c <= BoundaryOf(n) /\ log[c].made # "auto" => c <= Handoff(n)
  <2>1. \A c \in Boundaries : c \in Nat
    BY PathFacts
  <2>2. \A c \in Boundaries : c <= BoundaryOf(n) => c <= n
    BY <1>1, <2>1
  <2> QED BY <2>2, HandoffOfFacts
<1>6. Handoff(n) # None => Handoff(n) \in Boundaries /\ log[Handoff(n)].made # "auto"
  BY HandoffOfFacts
<1> QED BY <1>2, <1>4, <1>5, <1>6, HandoffIs

LEMMA WindowsForward ==
  ASSUME Typed, KeptSafe, Forward, NEW n \in 0..Len(log)
  PROVE  Start(Handoff(n)) <= Start(n)
<1>1. n \in Nat /\ Len(log) \in Nat /\ BoundaryOf(n) \in 0..n /\ Handoff(n) \in 0..n
  BY PathFacts, BoundaryFacts, HandoffOfFacts
<1>2. Handoff(BoundaryOf(n)) = Handoff(n) /\ Start(BoundaryOf(n)) = Start(n)
  BY HandoffOfBoundary, StartOfBoundary
<1>3. CASE BoundaryOf(n) # None
  <2>1. BoundaryOf(n) \in Boundaries /\ BoundaryOf(n) \in 0..Len(log)
    BY <1>1, <1>3, BoundaryFacts
  <2>2. Handoff(BoundaryOf(n)) \in 0..BoundaryOf(n)
    BY <2>1, HandoffOfFacts
  <2> QED BY <1>2, <2>1, <2>2 DEF Forward
<1>4. CASE BoundaryOf(n) = None
  <2>1. Handoff(n) = None
    BY <1>1, <1>4, BoundaryFacts, HandoffOfFacts
  <2>2. Start(Handoff(n)) = Start(n)
    BY <1>2, <1>4, <2>1
  <2>3. Start(n) \in 1..(n + 1)
    BY StartFacts
  <2> QED BY <1>1, <2>2, <2>3
<1> QED BY <1>3, <1>4

LEMMA ForwardStep ==
  ASSUME Typed, KeptSafe, Forward, Quiet \/ Growing
  PROVE  Forward'
<1> SUFFICES ASSUME NEW b \in Boundaries', NEW h \in 0..b, h = Handoff(b)'
             PROVE  Start(h)' <= Start(b)'
  BY DEF Forward
<1>1. Len(log) \in Nat /\ \A i \in Path : i \in Path' /\ log'[i] = log[i]
  BY PathFacts, GrowthKeeps
<1>2. b \in Path' /\ log'[b].kind = "boundary"
  BY DEF Boundaries
<1>3. CASE b \in Path
  <2>1. b \in Boundaries /\ b \in 0..Len(log) /\ h \in 0..Len(log)
    BY <1>1, <1>2, <1>3 DEF Boundaries, Path
  <2>2. Handoff(b)' = Handoff(b) /\ Start(b)' = Start(b) /\ Start(h)' = Start(h)
    BY <2>1, WindowsKeep
  <2> QED BY <2>1, <2>2 DEF Forward
<1>4. CASE b \notin Path
  <2>1. PICK e : Addition(e) /\ log' = Append(log, e) /\ Len(log) < MaxEntries
    BY <1>2, <1>4 DEF Quiet, Growing, Path
  <2>2. b = Len(log) + 1 /\ log'[b] = e /\ Path' = Path \cup {b} /\ e.kind = "boundary"
    BY <1>1, <1>2, <1>4, <2>1, GrowthFacts DEF Addition
  <2>3. e.kept = None \/ SafeStart(e.kept)
    BY <2>1, <2>2 DEF Addition
  <2>4. Boundaries' = Boundaries \cup {b} /\ Boundaries \in SUBSET (1..Len(log)) /\ b \in Nat
    <3>1. Boundaries' = Boundaries \cup {b}
      BY <1>1, <2>2 DEF Boundaries
    <3> QED BY <1>1, <2>2, <3>1, PathFacts
  <2>5. \A c \in Boundaries' : c \in 1..b
    <3>1. \A c \in Boundaries : c \in 1..Len(log)
      BY <2>4
    <3> QED BY <1>1, <2>2, <2>4, <3>1
  <2>6. BoundaryOf(b)' = b
    <3>1. {c \in Boundaries' : c <= b} \in SUBSET (1..b)
      BY <2>5
    <3>2. b \in {c \in Boundaries' : c <= b}
      BY <2>4
    <3>3. LastOf({c \in Boundaries' : c <= b}) = b
      BY <2>4, <3>1, <3>2, LastIs
    <3> QED BY <3>3 DEF BoundaryOf, LastOf
  <2>7. Start(b)' = IF e.kept # None THEN e.kept ELSE b + 1
    BY <1>1, <2>2, <2>6 DEF Start, None
  <2>8. e.kept # None => e.kept \in 1..Len(log) /\ Start(Len(log)) <= e.kept
    <3>1. SafeStart(e.kept) => e.kept \in Messages /\ e.kept \in Window(Len(log))
      BY ProjectedFacts DEF SafeStart
    <3>2. SafeStart(e.kept) => e.kept \in 1..Len(log)
      BY <3>1, PathFacts
    <3>3. e.kept \in Window(Len(log)) => Start(Len(log)) <= e.kept
      BY DEF Window
    <3> QED BY <2>3, <3>1, <3>2, <3>3
  <2>9. Start(b)' \in Nat
    BY <2>4, <2>7, <2>8
  <2>10. CASE e.made = "auto"
    <3>1. {c \in Boundaries' : c <= b /\ log'[c].made # "auto"}
            = {c \in Boundaries : c <= Len(log) /\ log[c].made # "auto"}
      <4>1. \A c \in Boundaries : c \in Path /\ c <= b /\ c <= Len(log) /\ log'[c] = log[c]
        BY <1>1, <2>2, <2>4 DEF Boundaries
      <4>2. log'[b].made = "auto"
        BY <2>2, <2>10
      <4> QED BY <2>4, <4>1, <4>2
    <3>2. Handoff(b)' = LastOf({c \in Boundaries' : c <= b /\ log'[c].made # "auto"})
      BY DEF Handoff, LastOf, None
    <3>3. Handoff(Len(log)) = LastOf({c \in Boundaries : c <= Len(log) /\ log[c].made # "auto"})
      BY DEF Handoff
    <3>4. LastOf({c \in Boundaries' : c <= b /\ log'[c].made # "auto"})
            = LastOf({c \in Boundaries : c <= Len(log) /\ log[c].made # "auto"})
      BY <3>1, Zenon
    <3>5. Handoff(b)' = Handoff(Len(log))
      BY <3>2, <3>3, <3>4
    <3>6. h = Handoff(Len(log)) /\ Len(log) \in 0..Len(log)
      BY <1>1, <3>5
    <3>7. h \in 0..Len(log)
      BY <1>1, <3>6, HandoffOfFacts
    <3>8. Start(h)' = Start(h)
      BY <3>7, WindowsKeep
    <3>9. Start(h) <= Start(Len(log)) /\ Start(Len(log)) \in 1..(Len(log) + 1) /\ Start(h) \in 1..(h + 1)
      BY <3>7, <3>6, WindowsForward, StartFacts
    <3> QED BY <1>1, <2>2, <2>7, <2>8, <3>7, <3>8, <3>9
  <2>11. CASE e.made # "auto"
    <3>1. {c \in Boundaries' : c <= b /\ log'[c].made # "auto"} \in SUBSET (1..b)
      BY <2>5
    <3>2. b \in {c \in Boundaries' : c <= b /\ log'[c].made # "auto"}
      BY <2>2, <2>4, <2>11
    <3>3. LastOf({c \in Boundaries' : c <= b /\ log'[c].made # "auto"}) = b
      BY <2>4, <3>1, <3>2, LastIs
    <3>4. h = b
      BY <3>3 DEF Handoff, LastOf
    <3> QED BY <2>9, <3>4
  <2> QED BY <2>10, <2>11
<1> QED BY <1>3, <1>4

----------------------------------------------------------------------------
(* The chain of automatic boundaries, and what is before it. *)

LEMMA LastHandoffIs ==
  ASSUME Typed
  PROVE  LastHandoff = Handoff(Len(log))
<1>1. \A b \in Boundaries : b <= Len(log)
  BY PathFacts
<1>2. {b \in Boundaries : log[b].made # "auto"} = {c \in Boundaries : c <= Len(log) /\ log[c].made # "auto"}
  BY <1>1
<1> QED BY <1>2, Zenon DEF LastHandoff, Handoff

\* After the first n entries there are only automatic boundaries.
AutomaticAfter(n) == \A c \in Boundaries : c > n => log[c].made = "auto"

LEMMA HandoffBefore ==
  ASSUME Typed, NEW n \in 0..Len(log), AutomaticAfter(n)
  PROVE  Handoff(n) = LastHandoff
<1>1. Len(log) \in Nat /\ n \in Nat /\ n <= Len(log)
  BY PathFacts
<1>2. Handoff(n) \in 0..Len(log) /\ Len(log) \in 0..Len(log)
  BY <1>1, HandoffOfFacts
<1>3. Handoff(n) # None => Handoff(n) \in Boundaries /\ log[Handoff(n)].made # "auto"
  BY HandoffOfFacts
<1>4. \A c \in Boundaries : c \in Nat
  BY PathFacts
<1>5. \A c \in Boundaries : c <= Len(log) /\ log[c].made # "auto" => c <= Handoff(n)
  BY <1>1, <1>4, HandoffOfFacts DEF AutomaticAfter
<1>6. Handoff(Len(log)) = Handoff(n)
  BY <1>2, <1>3, <1>5, HandoffIs
<1> QED BY <1>6, LastHandoffIs

LEMMA BoundaryBefore ==
  ASSUME Typed, NEW n \in 0..Len(log), AutomaticAfter(n),
         BoundaryOf(n) # None => log[BoundaryOf(n)].made # "auto"
  PROVE  BoundaryOf(n) \in {None, LastHandoff}
<1>1. CASE BoundaryOf(n) # None
  <2>1. BoundaryOf(n) \in Boundaries /\ BoundaryOf(n) \in 0..n
    BY <1>1, BoundaryFacts
  <2>2. \A c \in Boundaries : c <= n /\ log[c].made # "auto" => c <= BoundaryOf(n)
    BY BoundaryFacts
  <2>3. Handoff(n) = BoundaryOf(n)
    BY <1>1, <2>1, <2>2, HandoffIs
  <2> QED BY <2>3, HandoffBefore
<1> QED BY <1>1

LEMMA ChainFacts ==
  ASSUME Typed
  PROVE  /\ Chain \in SUBSET (1..Len(log))
         /\ \A b \in Chain : b \in Boundaries /\ b - 1 \in 0..Len(log) /\ AutomaticAfter(b - 1)
<1>1. Boundaries \in SUBSET (1..Len(log)) /\ Len(log) \in Nat /\ Chain \subseteq Boundaries
  BY PathFacts DEF Chain
<1>2. ASSUME NEW b \in Chain
      PROVE  b \in Boundaries /\ b - 1 \in 0..Len(log) /\ AutomaticAfter(b - 1)
  <2>1. b \in Boundaries /\ b \in 1..Len(log)
    BY <1>1
  <2>2. \A c \in Boundaries : c \in Nat
    BY <1>1
  <2>3. \A c \in Boundaries : c > b - 1 => c >= b
    BY <2>1, <2>2
  <2>4. AutomaticAfter(b - 1)
    BY <2>3 DEF AutomaticAfter, Chain, Automatic
  <2> QED BY <1>1, <2>1, <2>4
<1> QED BY <1>1, <1>2

LEMMA BeforeChainFacts ==
  ASSUME Typed
  PROVE  /\ BeforeChain \in 0..Len(log)
         /\ AutomaticAfter(BeforeChain)
         /\ \A b \in Chain : b > BeforeChain
<1>1. Len(log) \in Nat /\ \A b \in Boundaries : b \in Nat /\ b <= Len(log)
  BY PathFacts
<1>2. CASE Chain = {}
  BY <1>1, <1>2 DEF BeforeChain, AutomaticAfter
<1>3. CASE Chain # {}
  <2>1. PICK b \in Chain : TRUE
    BY <1>3
  <2>2. Chain \in SUBSET Nat
    BY ChainFacts
  <2>3. Min(Chain) \in Chain /\ \A c \in Chain : Min(Chain) <= c
    BY <2>1, <2>2, MinFacts
  <2>4. Min(Chain) - 1 \in 0..Len(log) /\ AutomaticAfter(Min(Chain) - 1)
    BY <2>3, ChainFacts
  <2>5. \A c \in Chain : c > Min(Chain) - 1
    <3>1. Min(Chain) \in Nat /\ \A c \in Chain : c \in Nat
      BY <2>2, <2>3
    <3> QED BY <2>3, <3>1
  <2>6. BeforeChain = Min(Chain) - 1
    BY <1>3 DEF BeforeChain
  <2> QED BY <2>4, <2>5, <2>6
<1> QED BY <1>2, <1>3

LEMMA NearestFacts ==
  ASSUME Typed
  PROVE  /\ Nearest = None <=> WithOwners = {}
         /\ Nearest # None => Nearest \in WithOwners /\ Nearest \in Chain
         /\ \A b \in WithOwners : b <= Nearest
<1>1. WithOwners \in SUBSET (1..Len(log)) /\ Len(log) \in Nat
  BY ChainFacts, PathFacts DEF WithOwners
<1>2. WithOwners \subseteq Chain
  BY DEF WithOwners
<1> QED BY <1>1, <1>2, LastFacts DEF Nearest

\* The chain follows the last handoff, or the beginning.
LEMMA BeforeChainBoundary ==
  ASSUME Typed
  PROVE  BoundaryOf(BeforeChain) \in {None, LastHandoff}
<1>1. BeforeChain \in 0..Len(log) /\ AutomaticAfter(BeforeChain) /\ \A b \in Chain : b > BeforeChain
  BY BeforeChainFacts
<1>2. ASSUME BoundaryOf(BeforeChain) # None
      PROVE  log[BoundaryOf(BeforeChain)].made # "auto"
  <2> DEFINE b == BoundaryOf(BeforeChain)
  <2>1. b \in Boundaries /\ b \in 0..BeforeChain /\ BeforeChain \in Nat
    BY <1>1, <1>2, BoundaryFacts, PathFacts
  <2>2. ~(b > BeforeChain)
    BY <2>1
  <2>3. b \notin Chain
    BY <1>1, <2>2
  <2>4. PICK c \in Boundaries : c >= b /\ log[c].made # "auto"
    BY <2>1, <2>3 DEF Chain, Automatic
  <2>5. c <= BeforeChain
    BY <1>1, <2>1, <2>4, PathFacts DEF AutomaticAfter
  <2>6. c <= b
    BY <1>1, <2>5, BoundaryFacts
  <2>7. c = b
    BY <2>1, <2>4, <2>6, PathFacts
  <2> QED BY <2>4, <2>7
<1> QED BY <1>1, <1>2, BoundaryBefore

LEMMA CheckpointFacts ==
  ASSUME Typed, NEW tail
  PROVE  Ancestry(tail).checkpoint \in {None, LastHandoff}
<1>1. CASE Nearest # None
  <2>1. Nearest - 1 \in 0..Len(log) /\ AutomaticAfter(Nearest - 1)
    BY <1>1, NearestFacts, ChainFacts
  <2>2. Ancestry(tail).checkpoint
          = IF BoundaryOf(Nearest - 1) # None /\ Automatic(BoundaryOf(Nearest - 1)) THEN None ELSE BoundaryOf(Nearest - 1)
    BY <1>1 DEF Ancestry
  <2> QED BY <2>1, <2>2, BoundaryBefore DEF Automatic
<1>2. CASE Nearest = None
  <2>1. Ancestry(tail).checkpoint = BoundaryOf(BeforeChain)
    BY <1>2 DEF Ancestry
  <2> QED BY <2>1, BeforeChainBoundary
<1> QED BY <1>1, <1>2

----------------------------------------------------------------------------
(* Nothing is revived. *)

LEMMA HandoffRevivesNothing ==
  ASSUME Typed, KeptSafe, Forward, NEW tail \in Tails, NEW fit, NEW r, r = BuildAutoHandoff(tail, fit)
  PROVE  /\ Repeatable(r) \subseteq Start(LastHandoff)..Len(log)
         /\ \A i \in Repeatable(r) : ~Omitted(i)
         /\ r.checkpoint \in {None, LastHandoff}
<1>1. /\ r.inputs = Quoted(tail) /\ r.listed = Discarded(tail) \ Quoted(tail)
      /\ r.carried = Carried(tail) /\ r.results = Named(tail, fit)
      /\ r.checkpoint = Ancestry(tail).checkpoint
  BY DEF BuildAutoHandoff
<1>2. Len(log) \in Nat /\ Len(log) \in 0..Len(log)
  BY PathFacts
<1>3. Repeatable(r) \subseteq Projected \cup Carried(tail)
  BY <1>1, DiscardedFacts, NamedFacts DEF Repeatable
<1>4. ASSUME NEW i \in Projected
      PROVE  i \in Start(LastHandoff)..Len(log) /\ ~Omitted(i)
  <2>1. i \in Start(Len(log))..Len(log) /\ ~Omitted(i)
    BY ProjectedFacts DEF Window
  <2>2. Start(LastHandoff) <= Start(Len(log)) /\ Start(Len(log)) \in Nat
    BY <1>2, LastHandoffIs, WindowsForward, StartFacts
  <2>3. LastHandoff \in 0..Len(log)
    BY <1>2, LastHandoffIs, HandoffOfFacts
  <2>4. Start(LastHandoff) \in Nat
    BY <2>3, StartFacts
  <2> QED BY <1>2, <2>1, <2>2, <2>4
<1>5. ASSUME NEW i \in Carried(tail)
      PROVE  i \in Start(LastHandoff)..Len(log) /\ ~Omitted(i)
  <2>1. Nearest # None /\ i \in Window(Nearest - 1) /\ ~Omitted(i)
    BY CarriedFacts
  <2>2. Nearest - 1 \in 0..Len(log) /\ AutomaticAfter(Nearest - 1)
    BY <2>1, NearestFacts, ChainFacts
  <2>3. Handoff(Nearest - 1) = LastHandoff
    BY <2>2, HandoffBefore
  <2>4. Start(LastHandoff) <= Start(Nearest - 1) /\ Start(Nearest - 1) \in Nat
    BY <2>2, <2>3, WindowsForward, StartFacts
  <2>5. LastHandoff \in 0..Len(log)
    BY <1>2, LastHandoffIs, HandoffOfFacts
  <2>6. Start(LastHandoff) \in Nat
    BY <2>5, StartFacts
  <2>7. i \in Start(Nearest - 1)..(Nearest - 1)
    BY <2>1 DEF Window
  <2> QED BY <1>2, <2>1, <2>2, <2>4, <2>6, <2>7
<1>6. r.checkpoint \in {None, LastHandoff}
  BY <1>1, CheckpointFacts
<1> QED BY <1>3, <1>4, <1>5, <1>6

LEMMA RevivesNothingStep ==
  ASSUME Typed, KeptSafe, Forward, Next
  PROVE  RevivesNothing
BY RecordOf, HandoffRevivesNothing DEF RevivesNothing

LEMMA ForwardAlways == Spec => [](Typed /\ KeptSafe /\ Forward)
<1>1. Init => Forward
  <2> SUFFICES ASSUME Init PROVE Forward
    OBVIOUS
  <2>1. Boundaries = {}
    BY DEF Init, Boundaries, Path
  <2> QED BY <2>1 DEF Forward
<1>2. TypeOK => Typed /\ KeptSafe
  BY TypeParts
<1>3. Typed /\ KeptSafe /\ Forward /\ [Next]_vars => Forward'
  <2>1. CASE Next
    BY <2>1, LogStep, ForwardStep
  <2>2. CASE UNCHANGED vars
    <3>1. log' = log
      BY <2>2 DEF vars
    <3> QED BY <3>1, ForwardStep DEF Quiet
  <2> QED BY <2>1, <2>2
<1> QED BY <1>1, <1>2, <1>3, TypeCorrect, PTL DEF Spec

\* No record takes anything from before the last handoff, or anything that was edited out, and none
\* names an automatic record as a checkpoint.
THEOREM RecordsReviveNothing == Spec => NothingRevived
<1>1. Typed /\ KeptSafe /\ Forward /\ [Next]_vars => [RevivesNothing]_vars
  BY RevivesNothingStep
<1> QED BY <1>1, ForwardAlways, PTL DEF Spec, NothingRevived

----------------------------------------------------------------------------
(* A question and its answer are in the same windows. *)

\* Only results and edits come between a message and the results of its open calls.
Unanswered == \A c \in Open : \A i \in Path : i > c[1] => log[i].kind \in {"result", "edit"}

Between(i, j) == {k \in Path : i < k /\ k < j}

\* So it is once they are closed.
Answered ==
  \A i \in Path : log[i].kind = "result" /\ ~Async(log[i].call) =>
    /\ log[i].call[1] < i
    /\ \A k \in Between(log[i].call[1], i) : log[k].kind \in {"result", "edit"}

LEMMA UnansweredStep ==
  ASSUME Typed, Unanswered, Quiet \/ Growing
  PROVE  Unanswered'
<1>1. /\ \A i \in Path : i \in Path' /\ log'[i] = log[i]
      /\ AllCalls \subseteq AllCalls' /\ \A c \in AllCalls : (Async(c))' <=> Async(c)
  BY GrowthKeeps
<1>2. ASSUME NEW c \in Open', c \in AllCalls
      PROVE  c \in Open
  <2>1. /\ ~Ended(c)' /\ ~Async(c)
        /\ \A i \in Path' : i > c[1] => log'[i].kind # "user"
    BY <1>1, <1>2 DEF Open
  <2>2. ~Ended(c)
    BY <1>1, <2>1 DEF Ended
  <2>3. \A i \in Path : i > c[1] => log[i].kind # "user"
    BY <1>1, <2>1
  <2> QED BY <1>2, <2>1, <2>2, <2>3 DEF Open
<1>3. CASE Quiet
  <2>1. Open' = Open /\ Path' = Path
    BY <1>3 DEF Quiet, Open, AllCalls, Ended, Async, CallAt, Path
  <2> QED BY <1>3, <2>1 DEF Quiet, Unanswered
<1>4. CASE Growing
  <2>1. PICK e : Addition(e) /\ log' = Append(log, e) /\ Len(log) < MaxEntries
    BY <1>4 DEF Growing
  <2>2. Path' = Path \cup {Len(log) + 1} /\ log'[Len(log) + 1] = e /\ Len(log) \in Nat
    BY <2>1, GrowthFacts, PathFacts DEF Addition
  <2> SUFFICES ASSUME NEW c \in Open', NEW i \in Path', i > c[1]
               PROVE  log'[i].kind \in {"result", "edit"}
    BY DEF Unanswered
  <2>3. c \in Path' \X (1..MaxCalls) /\ log'[c[1]].kind = "assistant" /\ c[2] <= Len(log'[c[1]].calls)
    BY DEF Open, AllCalls
  <2>4. c[1] \in Path /\ c \in AllCalls
    <3>1. c[1] \in Path'
      BY <2>3
    <3>2. c[1] # Len(log) + 1
      BY <2>2 DEF Path
    <3>3. c[1] \in Path
      BY <2>2, <3>1, <3>2
    <3>4. c \in Path \X (1..MaxCalls)
      BY <2>3, <3>3
    <3> QED BY <1>1, <2>3, <3>3, <3>4 DEF AllCalls
  <2>5. c \in Open
    BY <1>2, <2>4
  <2>6. CASE i \in Path
    BY <1>1, <2>5, <2>6 DEF Unanswered
  <2>7. CASE i \notin Path
    <3>1. log'[i] = e
      BY <2>2, <2>7
    <3>2. e.kind # "user"
      BY <3>1 DEF Open
    <3> QED BY <2>1, <2>5, <3>1, <3>2 DEF Addition
  <2> QED BY <2>6, <2>7
<1> QED BY <1>3, <1>4

LEMMA AnsweredStep ==
  ASSUME Typed, CallsMade, Unanswered, Answered, Quiet \/ Growing
  PROVE  Answered'
<1>1. /\ \A i \in Path : i \in Path' /\ log'[i] = log[i]
      /\ \A c \in AllCalls : (CallAt(c))' = CallAt(c)
  BY GrowthKeeps
<1> SUFFICES ASSUME NEW i \in Path', log'[i].kind = "result",
                    ~(/\ log'[log'[i].call[1]].calls[log'[i].call[2]].late = "yes"
                      /\ log'[log'[i].call[1]].calls[log'[i].call[2]].tool # "script")
             PROVE  /\ log'[i].call[1] < i
                    /\ \A k \in Path' : log'[i].call[1] < k /\ k < i => log'[k].kind \in {"result", "edit"}
  BY DEF Answered, Between, Async, CallAt
<1>2. CASE i \in Path
  <2>1. log'[i] = log[i] /\ log[i].kind = "result" /\ log[i].call \in AllCalls
    BY <1>1, <1>2 DEF CallsMade
  <2>2. ~Async(log[i].call)
    BY <1>1, <2>1 DEF Async, CallAt
  <2>3. /\ log[i].call[1] < i
        /\ \A k \in Path : log[i].call[1] < k /\ k < i => log[k].kind \in {"result", "edit"}
    BY <1>2, <2>1, <2>2 DEF Answered, Between
  <2>4. \A k \in Path' : k < i => k \in Path
    <3>1. \A k \in Path' : k \in Nat /\ k >= 1
      BY DEF Path
    <3> QED BY <1>2, <3>1, PathFacts DEF Path
  <2> QED BY <1>1, <2>1, <2>3, <2>4
<1>3. CASE i \notin Path
  <2>1. PICK e : Addition(e) /\ log' = Append(log, e) /\ Len(log) < MaxEntries
    BY <1>3 DEF Quiet, Growing, Path
  <2>2. i = Len(log) + 1 /\ log'[i] = e /\ Path' = Path \cup {i} /\ Len(log) \in Nat
    BY <1>3, <2>1, GrowthFacts, PathFacts DEF Addition
  <2>3. e.call \in AllCalls /\ (~Async(e.call) => e.call \in Open)
    BY <2>1, <2>2 DEF Addition
  <2>4. e.call \in Open
    BY <1>1, <2>2, <2>3 DEF Async, CallAt
  <2>5. e.call[1] \in 1..Len(log)
    BY <2>3, CallFacts DEF Path
  <2>6. \A k \in Path : k > e.call[1] => log[k].kind \in {"result", "edit"}
    BY <2>4 DEF Unanswered
  <2>7. \A k \in Path' : k < i => k \in Path
    BY <2>2
  <2>8. \A k \in Path : e.call[1] < k => k > e.call[1]
    BY <2>5 DEF Path
  <2> QED BY <1>1, <2>2, <2>5, <2>6, <2>7, <2>8
<1> QED BY <1>2, <1>3

\* No window starts between a question and its answer.
LEMMA AnswerWithQuestion ==
  ASSUME Typed, KeptSafe, Answered, NEW n \in 0..Len(log),
         NEW i \in Path, log[i].kind = "result", ~Async(log[i].call),
         log[i].call \in AllCalls, Start(n) <= i
  PROVE  Start(n) <= log[i].call[1] /\ log[i].call[1] < i
<1>1. log[i].call[1] \in Path /\ log[i].call[1] < i
  BY CallFacts DEF Answered
<1>2. log[log[i].call[1]].kind = "assistant"
  BY DEF AllCalls
<1>3. n \in Nat /\ Len(log) \in Nat /\ BoundaryOf(n) \in 0..n /\ Start(n) \in 1..(n + 1)
  BY PathFacts, BoundaryFacts, StartFacts
<1>4. CASE BoundaryOf(n) = None
  BY <1>1, <1>4 DEF Start, Path, None
<1>5. CASE BoundaryOf(n) # None
  <2> DEFINE b == BoundaryOf(n)
  <2>1. b \in Boundaries /\ b \in Path /\ log[b].kind = "boundary"
    BY <1>5, BoundaryFacts DEF Boundaries
  <2>2. CASE log[b].kept = None
    <3>1. Start(n) = b + 1
      BY <2>2 DEF Start
    <3>2. b < i
      BY <1>3, <3>1 DEF Path
    <3>3. b # log[i].call[1]
      BY <1>2, <2>1
    <3>4. ~(log[i].call[1] < b)
      BY <2>1, <3>2 DEF Answered, Between
    <3> QED BY <1>1, <1>3, <3>1, <3>3, <3>4 DEF Path
  <2>3. CASE log[b].kept # None
    <3>1. Start(n) = log[b].kept
      BY <1>5, <2>3 DEF Start
    <3>2. log[b].kept \in Messages /\ log[log[b].kept].kind # "result"
      BY <2>1, <2>3 DEF KeptSafe
    <3>3. Start(n) \in Path /\ log[Start(n)].kind \notin {"result", "edit"}
      BY <3>1, <3>2 DEF Messages
    <3>4. Start(n) < i
      BY <1>3, <3>3 DEF Path
    <3>5. ~(log[i].call[1] < Start(n))
      BY <3>3, <3>4 DEF Answered, Between
    <3> QED BY <1>1, <3>3, <3>5 DEF Path
  <2> QED BY <2>2, <2>3
<1> QED BY <1>4, <1>5

----------------------------------------------------------------------------
(* The chain. *)

\* The chain starts behind the last handoff, and its windows are among what it shows.
LEMMA ChainStart ==
  ASSUME Typed, KeptSafe, Forward, NEW n \in 0..Len(log), AutomaticAfter(n)
  PROVE  /\ Start(BeforeChain) \in Nat /\ Start(n) \in Nat
         /\ Start(BeforeChain) <= Start(n)
<1>1. BeforeChain \in 0..Len(log) /\ AutomaticAfter(BeforeChain) /\ Len(log) \in Nat
  BY BeforeChainFacts, PathFacts
<1>2. Start(BeforeChain) \in Nat /\ Start(n) \in Nat
  BY <1>1, StartFacts
<1>3. BoundaryOf(BeforeChain) = LastHandoff
  <2>1. BoundaryOf(BeforeChain) \in {None, LastHandoff}
    BY BeforeChainBoundary
  <2>2. LastHandoff = Handoff(BeforeChain) /\ Handoff(BeforeChain) \in 0..BeforeChain
    BY <1>1, HandoffBefore, HandoffOfFacts
  <2>3. CASE LastHandoff # None
    <3>1. LastHandoff \in Boundaries /\ LastHandoff <= BeforeChain
      BY <1>1, <2>2, <2>3, HandoffOfFacts
    <3>2. BoundaryOf(BeforeChain) # None
      BY <1>1, <3>1, BoundaryFacts
    <3> QED BY <2>1, <3>2
  <2> QED BY <2>1, <2>3
<1>4. Start(LastHandoff) = Start(BeforeChain)
  BY <1>1, <1>3, StartOfBoundary
<1>5. Handoff(n) = LastHandoff
  BY HandoffBefore
<1> QED BY <1>2, <1>4, <1>5, WindowsForward

\* The last window, and the one that a boundary of the chain closed.
LEMMA ShownWindows ==
  ASSUME Typed, KeptSafe, Forward, NEW n \in 0..Len(log), AutomaticAfter(n)
  PROVE  Current(Window(n), {}) \subseteq Shown
<1>1. Start(BeforeChain) \in Nat /\ Start(n) \in Nat /\ Start(BeforeChain) <= Start(n) /\ Len(log) \in Nat
  BY ChainStart, PathFacts
<1>2. Window(n) \subseteq ChainEntries
  BY <1>1 DEF Window, ChainEntries
<1> QED BY <1>2 DEF Current, Shown

LEMMA OwnersGrow ==
  ASSUME NEW S, NEW T \in SUBSET S
  PROVE  Owners(T, T) \subseteq Owners(S, S)
<1>1. CallsOf(T) \subseteq CallsOf(S)
  BY DEF CallsOf
<1> QED BY <1>1 DEF Owners, Owner, OwnerAnswer

\* An owner input of the chain is one in each window that it is in.
LEMMA OwnerInWindow ==
  ASSUME Typed, CallsMade, KeptSafe, Answered, NEW n \in 0..Len(log),
         NEW w \in Owners(Shown, Shown), w \in Window(n)
  PROVE  w \in Owners(Current(Window(n), {}), Current(Window(n), {}))
<1> DEFINE S == Current(Window(n), {})
<1>1. w \in Path /\ ~Omitted(w)
  <2>1. n \in Nat /\ Len(log) \in Nat /\ Start(n) \in 1..(n + 1)
    BY PathFacts, StartFacts
  <2> QED BY <2>1 DEF Window, Path, Owners, Shown
<1>2. Owner(w, Shown)
  BY DEF Owners
<1>3. w \in S
  <2>1. w \in Messages
    BY <1>1, <1>2 DEF Messages, Owner, OwnerAnswer
  <2> QED BY <1>1, <2>1 DEF Current
<1>4. CASE log[w].kind = "user"
  BY <1>3, <1>4 DEF Owners, Owner
<1>5. CASE OwnerAnswer(w, Shown)
  <2> DEFINE c == log[w].call
  <2>1. log[w].kind = "result" /\ c \in AllCalls /\ CallAt(c).tool = "ask" /\ c \in CallsOf(Shown)
    BY <1>1, <1>5 DEF OwnerAnswer, CallsMade
  <2>2. ~Async(c)
    <3>1. CallAt(c) \in Calls /\ CallAt(c) \in CallTypes
      BY <2>1, CallFacts
    <3>2. CallAt(c).late # "yes"
      BY <2>1, <3>1, CallsAssumption
    <3> QED BY <3>2 DEF Async
  <2>3. n \in Nat /\ Len(log) \in Nat /\ Start(n) \in Nat /\ Start(n) <= w /\ w <= n /\ w \in Nat
    BY <1>1, PathFacts, StartFacts DEF Window
  <2>4. Start(n) <= c[1] /\ c[1] < w
    BY <1>1, <2>1, <2>2, <2>3, AnswerWithQuestion
  <2>5. c[1] \in Path /\ log[c[1]].kind = "assistant"
    BY <2>1, CallFacts DEF AllCalls
  <2>6. c[1] \in Window(n)
    BY <2>3, <2>4, <2>5 DEF Window, Path
  <2>7. c \in Shown \X (1..MaxCalls) /\ c[2] <= Len(log[c[1]].calls) /\ ~Replaced(c[1])
    BY <2>1 DEF CallsOf
  <2>8. ~Omitted(c[1])
    BY <2>7 DEF Shown
  <2>9. c[1] \in S
    BY <2>5, <2>6, <2>8 DEF Current, Messages
  <2>10. c \in S \X (1..MaxCalls)
    BY <2>7, <2>9
  <2>11. c \in CallsOf(S)
    BY <2>5, <2>7, <2>10 DEF CallsOf
  <2> QED BY <1>3, <1>5, <2>11 DEF Owners, Owner, OwnerAnswer
<1> QED BY <1>2, <1>4, <1>5 DEF Owner

\* An entry that the last window does not show is in a window that a boundary of the chain closed.
LEMMA WindowOfEarlier ==
  ASSUME Typed, KeptSafe, Forward, NEW w \in Messages,
         Start(BeforeChain) <= w, w < Start(Len(log))
  PROVE  \E b \in Chain : w \in Window(b - 1)
<1>1. Len(log) \in Nat /\ Len(log) \in 0..Len(log) /\ w \in 1..Len(log) /\ log[w].kind # "boundary"
  BY PathFacts DEF Messages
<1>2. Chain \in SUBSET (1..Len(log)) /\ \A b \in Chain : b \in Boundaries /\ b \in Nat
  BY ChainFacts
<1>3. \A c \in Boundaries : c \in Nat /\ c # w
  BY <1>1, PathFacts DEF Boundaries
<1>4. \E b \in Chain : b > w
  <2> DEFINE m == BoundaryOf(Len(log))
  <2>1. Chain # {}
    <3>1. Chain = {} => Start(BeforeChain) = Start(Len(log))
      BY DEF BeforeChain
    <3>2. Start(Len(log)) \in Nat
      BY <1>1, StartFacts
    <3> QED BY <1>1, <3>1, <3>2
  <2>2. PICK b \in Chain : TRUE
    BY <2>1
  <2>3. m \in Boundaries /\ b <= m /\ m \in 0..Len(log)
    BY <1>1, <1>2, PathFacts, BoundaryFacts
  <2>4. m \in Chain
    <3>1. \A c \in Boundaries : c >= m => c >= b
      BY <1>2, <1>3, <2>3
    <3> QED BY <2>3, <3>1 DEF Chain
  <2>5. Start(m) = Start(Len(log)) /\ Start(m) \in 1..(m + 1)
    BY <1>1, <2>3, StartOfBoundary, StartFacts
  <2>6. m > w
    BY <1>1, <1>3, <2>3, <2>5
  <2> QED BY <2>4, <2>6
<1> DEFINE Later == {b \in Chain : b > w}
<1>5. Later \in SUBSET Nat /\ Later # {}
  BY <1>2, <1>4
<1>6. PICK b \in Later : \A c \in Later : b <= c
  BY <1>5, Least
<1>7. b \in Chain /\ b \in Boundaries /\ b > w /\ b \in 1..Len(log) /\ b - 1 \in 0..Len(log)
  BY <1>2, <1>6, ChainFacts
<1>8. \A c \in Chain : c < b => c < w
  BY <1>1, <1>2, <1>3, <1>6, <1>7
<1> HIDE DEF Later
<1> DEFINE p == BoundaryOf(b - 1)
<1>9. p \in 0..(b - 1) /\ p \in 0..Len(log) /\ Start(p) = Start(b - 1) /\ Start(p) \in 1..(p + 1)
  BY <1>1, <1>7, BoundaryFacts, StartOfBoundary, StartFacts
<1>10. CASE p \in Chain
  <2>1. p < w
    BY <1>7, <1>8, <1>9, <1>10
  <2> QED BY <1>1, <1>7, <1>9, <2>1 DEF Window
<1>11. CASE p \notin Chain
  <2>1. ASSUME NEW c \in Chain
        PROVE  b <= c
    <3>1. SUFFICES ASSUME c < b PROVE FALSE
      BY <1>2, <1>7
    <3>2. c \in Boundaries /\ c \in Nat /\ c <= b - 1
      BY <1>2, <1>7, <3>1
    <3>3. p # None /\ c <= p /\ p \in Boundaries
      BY <1>7, <3>2, BoundaryFacts
    <3>4. \A d \in Boundaries : d >= p => d >= c
      <4>1. p \in Nat /\ c \in Nat /\ c <= p
        BY <1>3, <3>2, <3>3
      <4> HIDE DEF p
      <4> QED BY <1>3, <4>1
    <3>5. p \in Chain
      BY <3>3, <3>4 DEF Chain
    <3> QED BY <1>11, <3>5
  <2>2. Chain \in SUBSET Nat
    BY <1>2
  <2>3. Min(Chain) \in Chain /\ Min(Chain) <= b
    BY <1>7, <2>2, MinFacts
  <2>4. Min(Chain) = b
    <3>1. b <= Min(Chain) /\ Min(Chain) \in Nat /\ b \in Nat
      BY <1>2, <1>7, <2>1, <2>3
    <3> QED BY <2>3, <3>1
  <2>5. BeforeChain = b - 1
    BY <1>7, <2>4 DEF BeforeChain
  <2>6. Start(b - 1) <= w
    BY <2>5
  <2> QED BY <1>1, <1>7, <1>9, <2>6 DEF Window
<1> QED BY <1>10, <1>11

----------------------------------------------------------------------------
(* The latest owner input. *)

LEMMA LatestFacts ==
  ASSUME Typed, KeptSafe, LatestOwner # None
  PROVE  /\ LatestOwner \in Owners(Shown, Shown) /\ LatestOwner \in Messages
         /\ Start(BeforeChain) <= LatestOwner /\ ~Omitted(LatestOwner)
         /\ \A x \in Owners(Shown, Shown) : x <= LatestOwner
<1>1. Len(log) \in Nat /\ BeforeChain \in 0..Len(log)
  BY PathFacts, BeforeChainFacts
<1>2. BeforeChain \in Nat /\ Start(BeforeChain) \in 1..(BeforeChain + 1)
  BY <1>1, StartFacts
<1>3. \A x \in Owners(Shown, Shown) : x \in 1..Len(log)
  BY <1>1, <1>2 DEF Owners, Shown, ChainEntries
<1>4. Owners(Shown, Shown) \in SUBSET (1..Len(log))
  BY <1>3
<1>5. /\ LatestOwner \in Owners(Shown, Shown)
      /\ \A x \in Owners(Shown, Shown) : x <= LatestOwner
  BY <1>1, <1>4, LastFacts DEF LatestOwner
<1>6. LatestOwner \in Messages
  BY <1>3, <1>5 DEF Owners, Owner, OwnerAnswer, Messages, Path
<1>7. Start(BeforeChain) <= LatestOwner /\ ~Omitted(LatestOwner)
  BY <1>5 DEF Owners, Shown, ChainEntries
<1> QED BY <1>5, <1>6, <1>7

\* It is in the last window: kept, or the latest input of those that are not.
LEMMA LatestIsQuoted ==
  ASSUME Typed, CallsMade, KeptSafe, Forward, Answered, NEW tail \in Tails,
         LatestOwner # None, LatestOwner \in Projected
  PROVE  LatestOwner \in tail \cup Quoted(tail)
<1>1. Len(log) \in 0..Len(log) /\ AutomaticAfter(Len(log))
  BY PathFacts DEF AutomaticAfter
<1>2. Current(Window(Len(log)), {}) = Projected
  BY DEF Current, Projected
<1>3. Owners(Projected, Projected) \subseteq Owners(Shown, Shown)
  BY <1>1, <1>2, ShownWindows, OwnersGrow
<1>4. LatestOwner \in Owners(Projected, Projected)
  BY <1>1, <1>2, LatestFacts, OwnerInWindow, ProjectedFacts
<1>5. SUFFICES ASSUME LatestOwner \notin tail
               PROVE  LatestOwner \in Quoted(tail)
  OBVIOUS
<1>6. Discarded(tail) = {i \in Projected \ tail : Owner(i, Projected) \/ log[i].kind = "custom"}
  BY DiscardedFacts
<1>7. LatestOwner \in Owners(Discarded(tail), Projected)
  BY <1>4, <1>5, <1>6 DEF Owners
<1>8. \A x \in Owners(Discarded(tail), Projected) : x <= LatestOwner
  BY <1>3, <1>6, LatestFacts DEF Owners
<1> QED BY <1>7, <1>8, DiscardedFacts, AnchorsFacts DEF Quoted

\* It is in an earlier window: no later one has an owner input, so the record goes back to it.
LEMMA LatestIsCarried ==
  ASSUME Typed, CallsMade, KeptSafe, Forward, Answered, NEW tail \in Tails,
         LatestOwner # None, LatestOwner \notin Projected
  PROVE  LatestOwner \in Carried(tail)
<1> DEFINE w == LatestOwner
           N == Nearest
<1>1. Len(log) \in 0..Len(log) /\ AutomaticAfter(Len(log)) /\ Len(log) \in Nat
  BY PathFacts DEF AutomaticAfter
<1>2. /\ w \in Owners(Shown, Shown) /\ w \in Messages /\ Start(BeforeChain) <= w /\ ~Omitted(w)
      /\ \A x \in Owners(Shown, Shown) : x <= w
  BY LatestFacts
<1>3. w \in 1..Len(log) /\ Start(Len(log)) \in Nat
  BY <1>1, <1>2, PathFacts, StartFacts
<1>4. w < Start(Len(log))
  BY <1>1, <1>2, <1>3 DEF Projected, Window
<1>5. NoOwnerNow(tail)
  <2>1. Current(Window(Len(log)), {}) = Projected
    BY DEF Current, Projected
  <2>2. Owners(Projected, Projected) \subseteq Owners(Shown, Shown)
    BY <1>1, <2>1, ShownWindows, OwnersGrow
  <2>3. \A x \in Owners(Projected, Projected) : x \in Nat /\ Start(Len(log)) <= x
    BY <1>1, <1>3 DEF Owners, Projected, Window
  <2>4. \A x \in Owners(Projected, Projected) : x <= w
    BY <1>2, <2>2
  <2>5. Owners(Projected, Projected) = {}
    <3> HIDE DEF w
    <3> QED BY <1>3, <1>4, <2>3, <2>4
  <2> QED BY <2>1, <2>5 DEF NoOwnerNow
<1>6. N # None /\ N \in Chain /\ Owners(Restored(N), Restored(N)) # {} /\ w \in Window(N - 1)
  <2>1. PICK b \in Chain : w \in Window(b - 1)
    BY <1>2, <1>4, WindowOfEarlier
  <2>2. b - 1 \in 0..Len(log)
    BY ChainFacts
  <2>3. b \in WithOwners
    BY <1>2, <2>1, <2>2, OwnerInWindow DEF WithOwners, Restored
  <2>4. N # None /\ N \in WithOwners /\ N \in Chain /\ b <= N
    BY <2>3, NearestFacts
  <2>5. N - 1 \in 0..Len(log) /\ AutomaticAfter(N - 1) /\ N \in 1..Len(log) /\ b \in 1..Len(log)
    BY <2>4, ChainFacts
  <2>6. PICK x \in Owners(Restored(N), Restored(N)) : TRUE
    BY <2>4 DEF WithOwners
  <2>7. Restored(N) \subseteq Shown
    BY <2>5, ShownWindows DEF Restored
  <2>8. x <= w
    BY <1>2, <2>6, <2>7, OwnersGrow
  <2>9. x \in Window(N - 1)
    BY <2>6, CurrentFacts DEF Owners, Restored
  <2>10. Start(N - 1) \in Nat /\ Start(b - 1) \in Nat
    BY <2>2, <2>5, StartFacts
  <2>11. Start(N - 1) <= w /\ w <= N - 1
    BY <1>1, <1>3, <2>1, <2>4, <2>5, <2>8, <2>9, <2>10 DEF Window
  <2> QED BY <1>3, <2>4, <2>5, <2>10, <2>11 DEF WithOwners, Window
<1>7. N - 1 \in 0..Len(log) /\ AutomaticAfter(N - 1)
  BY <1>6, ChainFacts
<1>8. w \in Owners(Restored(N), Restored(N))
  BY <1>2, <1>6, <1>7, OwnerInWindow DEF Restored
<1>9. Reference(w) \notin tail
  <2>1. tail \subseteq Projected
    BY TailFacts
  <2>2. CASE Replaced(w)
    <3> DEFINE E == {e \in Path : log[e].kind = "edit" /\ log[e].target = w}
    <3>1. E \in SUBSET (1..Len(log)) /\ EditOf(w) = LastOf(E)
      BY DEF Path, EditOf
    <3>2. LastOf(E) \in E
      BY <1>1, <2>2, <3>1, LastFacts DEF Replaced
    <3>3. EditOf(w) \notin Messages
      BY <3>1, <3>2 DEF Messages
    <3> QED BY <2>1, <2>2, <3>3, ProjectedFacts DEF Reference
  <2>3. CASE ~Replaced(w)
    BY <2>1, <2>3 DEF Reference
  <2> QED BY <2>2, <2>3
<1>10. w \in Owners(Carriable(N, tail), Restored(N))
  BY <1>8, <1>9 DEF Carriable, Owners
<1>11. \A x \in Owners(Carriable(N, tail), Restored(N)) : x <= w
  <2>1. Restored(N) \subseteq Shown
    BY <1>7, ShownWindows DEF Restored
  <2>2. Owners(Restored(N), Restored(N)) \subseteq Owners(Shown, Shown)
    BY <2>1, OwnersGrow
  <2>3. Owners(Carriable(N, tail), Restored(N)) \subseteq Owners(Restored(N), Restored(N))
    BY DEF Carriable, Owners
  <2> QED BY <1>2, <2>2, <2>3
<1>12. Carriable(N, tail) \in SUBSET Messages
  BY CurrentFacts DEF Carriable, Owners, Restored
<1>13. w \in Anchors(Carriable(N, tail), Restored(N))
  BY <1>10, <1>11, <1>12, AnchorsFacts
<1> QED BY <1>5, <1>6, <1>13 DEF Carried, Ancestry

LEMMA KeepsLatestOwnerStep ==
  ASSUME Typed, CallsMade, KeptSafe, Forward, Answered, Next
  PROVE  KeepsLatestOwner
<1> SUFFICES ASSUME NEW r \in record', LatestOwner # None
             PROVE  LatestOwner \in r.tail \cup r.inputs \cup r.carried
  BY DEF KeepsLatestOwner
<1>1. PICK tail \in Tails, fit \in Fits : r = BuildAutoHandoff(tail, fit)
  BY RecordOf
<1>2. r.tail = tail /\ r.inputs = Quoted(tail) /\ r.carried = Carried(tail)
  BY <1>1 DEF BuildAutoHandoff
<1> QED BY <1>2, LatestIsQuoted, LatestIsCarried

LEMMA AnsweredAlways == Spec => [](Typed /\ CallsMade /\ KeptSafe /\ Unanswered /\ Answered)
<1>1. Init => Unanswered /\ Answered
  <2> SUFFICES ASSUME Init PROVE Unanswered /\ Answered
    OBVIOUS
  <2>1. Path = {}
    BY DEF Init, Path
  <2> QED BY <2>1 DEF Unanswered, Answered
<1>2. TypeOK => Typed /\ CallsMade /\ KeptSafe
  BY TypeParts
<1>3. Typed /\ CallsMade /\ KeptSafe /\ Unanswered /\ Answered /\ [Next]_vars => Unanswered' /\ Answered'
  <2>1. CASE Next
    BY <2>1, LogStep, UnansweredStep, AnsweredStep
  <2>2. CASE UNCHANGED vars
    <3>1. log' = log
      BY <2>2 DEF vars
    <3> QED BY <3>1, UnansweredStep, AnsweredStep DEF Quiet
  <2> QED BY <2>1, <2>2
<1> QED BY <1>1, <1>2, <1>3, TypeCorrect, PTL DEF Spec

\* However many automatic rollovers follow one another, the owner's latest input or answer since the
\* last handoff is in the tail, quoted, or carried.
THEOREM LatestOwnerIsKept == Spec => LatestOwnerKept
<1>1. Typed /\ CallsMade /\ KeptSafe /\ Forward /\ Answered /\ [Next]_vars => [KeepsLatestOwner]_vars
  BY KeepsLatestOwnerStep
<1> QED BY <1>1, ForwardAlways, AnsweredAlways, PTL DEF Spec, LatestOwnerKept
----------------------------------------------------------------------------
(* Unseen results are told. *)

\* A result of a call that is not async follows no response but its own.
LEMMA ResultsFollowTheirResponse ==
  ASSUME Typed, CallsMade, Answered,
         NEW a \in Path, log[a].kind = "assistant",
         NEW s \in Path, s > a, log[s].kind = "result", ~Async(log[s].call)
  PROVE  log[s].call[1] \in Path /\ log[log[s].call[1]].kind = "assistant" /\ log[s].call[1] >= a
<1> DEFINE b == log[s].call[1]
<1>1. log[s].call \in AllCalls
  BY DEF CallsMade
<1>2. b \in Path /\ log[b].kind = "assistant"
  BY <1>1, CallFacts DEF AllCalls
<1>3. \A k \in Between(b, s) : log[k].kind \in {"result", "edit"}
  BY DEF Answered
<1>4. a \notin Between(b, s)
  BY <1>3
<1>5. a \in Nat /\ s \in Nat /\ b \in Nat
  BY <1>2 DEF Path
<1> HIDE DEF b
<1>6. ~(b < a)
  BY <1>4 DEF Between
<1> QED BY <1>2, <1>5, <1>6 DEF b

\* What has neither been received nor overtaken lies behind the last response that counts.
LEMMA UnseenIsBehind ==
  ASSUME Typed, CallsMade, Answered,
         NEW i \in Projected, ~Received(i), ~Overtaken(i),
         NEW a \in Projected, log[a].kind = "assistant",
         log[a].stop = "complete" \/ \E s \in Results : s > a
  PROVE  ~(a > i)
<1> SUFFICES ASSUME a > i PROVE FALSE
  OBVIOUS
<1>1. /\ Projected \in SUBSET (1..Len(log)) /\ Len(log) \in Nat
      /\ Projected \subseteq Path
  BY PathFacts, ProjectedFacts DEF Path
<1>2. log[a].stop \in {"complete", "cut"}
  BY <1>1, PathFacts DEF Entries
<1>3. log[a].stop = "cut"
  BY <1>1, <1>2 DEF Received
<1>4. PICK s \in Projected : s > a /\ log[s].kind = "result"
  BY <1>3 DEF Results
<1> DEFINE b == log[s].call[1]
<1>5. log[s].call \in AllCalls
  BY <1>1, <1>4 DEF CallsMade
<1>6. b \in Path /\ log[b].kind = "assistant"
  BY <1>5, CallFacts DEF AllCalls
<1>7. a \in Nat /\ b \in Nat /\ i \in Nat
  BY <1>1, <1>6 DEF Path
<1>8. CASE b >= a
  <2>1. b > i
    BY <1>7, <1>8
  <2> QED BY <1>4, <1>6, <2>1 DEF Received
<1>9. CASE b < a
  <2>1. ~Async(log[s].call) => b >= a
    BY <1>1, <1>4, ResultsFollowTheirResponse
  <2>2. Async(log[s].call)
    BY <1>7, <1>9, <2>1
  <2> QED BY <1>3, <1>4, <1>9, <2>2 DEF Overtaken
<1> QED BY <1>7, <1>8, <1>9

LEMMA UnseenIsRecoverable ==
  ASSUME Typed, CallsMade, Answered,
         NEW tail, NEW i \in Projected \ tail, log[i].kind = "result", ~Received(i), ~Overtaken(i)
  PROVE  i \in Recoverable(tail)
<1> DEFINE T == {a \in Projected : log[a].kind = "assistant" /\
                                   (log[a].stop = "complete" \/ \E s \in Results : s > a)}
<1>1. Projected \in SUBSET (1..Len(log)) /\ Len(log) \in Nat
  BY PathFacts, ProjectedFacts
<1>2. T \in SUBSET (1..Len(log))
  BY <1>1
<1>3. TrailingStart = LastOf(T)
  BY DEF TrailingStart
<1>4. \A a \in T : ~(a > i)
  BY UnseenIsBehind
<1>5. i \notin T
  OBVIOUS
<1>6. i \in 1..Len(log)
  BY <1>1
<1> HIDE DEF T
<1>7. i > LastOf(T)
  <2>1. CASE T = {}
    BY <1>1, <1>2, <1>6, <2>1, LastFacts DEF None
  <2>2. CASE T # {}
    <3>1. LastOf(T) \in T
      BY <1>1, <1>2, <2>2, LastFacts
    <3>2. LastOf(T) \in 1..Len(log)
      BY <1>2, <3>1
    <3> QED BY <1>4, <1>5, <1>6, <3>1, <3>2
  <2> QED BY <2>1, <2>2
<1> QED BY <1>3, <1>7 DEF Recoverable, Results, Retained

LEMMA HandoffTellsResults ==
  ASSUME Typed, NEW tail \in Tails, NEW fit \in Nat, NEW r, r = BuildAutoHandoff(tail, fit),
         NEW U \in SUBSET Recoverable(tail)
  PROVE  Tells(r, U)
<1>1. r.results = Named(tail, fit) /\ r.omitted = Cardinality(Recoverable(tail) \ Named(tail, fit))
  BY DEF BuildAutoHandoff
<1>2. Recoverable(tail) \in SUBSET (1..Len(log)) /\ Len(log) \in Nat
  BY PathFacts, ProjectedFacts, NamedFacts
<1>3. \A i \in Recoverable(tail) : i \in Nat
  BY <1>2
<1>4. IsFiniteSet(Recoverable(tail))
  <2>1. IsFiniteSet(1..Len(log))
    BY <1>2, FS_Interval
  <2> QED BY <1>2, <2>1, FS_Subset
<1>5. Cardinality(U \ r.results) <= r.omitted
  <2>1. IsFiniteSet(Recoverable(tail) \ Named(tail, fit))
    BY <1>4, FS_Subset
  <2>2. U \ Named(tail, fit) \subseteq Recoverable(tail) \ Named(tail, fit)
    OBVIOUS
  <2> QED BY <1>1, <2>1, <2>2, FS_Subset
<1>6. ASSUME NEW i \in U \ r.results, NEW j \in r.results
      PROVE  i < j
  <2> DEFINE From(n) == {s \in Recoverable(tail) : s >= n}
  <2>1. i \in Recoverable(tail) /\ j \in Recoverable(tail) /\ i \in Nat /\ j \in Nat
    BY <1>1, <1>3, <1>6, NamedFacts
  <2>2. Cardinality(From(j)) <= fit /\ ~(Cardinality(From(i)) <= fit)
    BY <1>1, <1>6, <2>1 DEF Named
  <2>3. IsFiniteSet(From(j)) /\ IsFiniteSet(From(i))
    BY <1>4, FS_Subset
  <2>4. Cardinality(From(j)) \in Nat /\ Cardinality(From(i)) \in Nat
    BY <2>3, FS_CardinalityType
  <2>5. CASE j <= i
    <3>0. \A s \in Nat : s >= i => s >= j
      BY <2>1, <2>5
    <3>1. From(i) \subseteq From(j)
      BY <1>3, <3>0
    <3>2. Cardinality(From(i)) <= Cardinality(From(j))
      BY <2>3, <3>1, FS_Subset
    <3> QED BY <2>2, <2>4, <3>2
  <2> QED BY <2>1, <2>5
<1> QED BY <1>5, <1>6 DEF Tells

LEMMA TellsUnlessOvertakenStep ==
  ASSUME Typed, CallsMade, Answered, Next
  PROVE  TellsUnlessOvertaken
<1> SUFFICES ASSUME NEW r \in record'
             PROVE  Tells(r, {i \in Unseen(r) : ~Overtaken(i)})
  BY DEF TellsUnlessOvertaken
<1>1. PICK tail \in Tails, fit \in Fits : r = BuildAutoHandoff(tail, fit)
  BY RecordOf
<1>2. r.tail = tail /\ fit \in Nat
  BY <1>1, BoundsAssumption DEF BuildAutoHandoff
<1>3. {i \in Unseen(r) : ~Overtaken(i)} \in SUBSET Recoverable(tail)
  BY <1>2, UnseenIsRecoverable DEF Unseen
<1> QED BY <1>1, <1>2, <1>3, HandoffTellsResults

\* A record names, or counts among earlier ones, every result that its rollover discards before the
\* model received it, unless a result of an async call has overtaken it: no other result comes after
\* a response that is not its own, whatever was cut off, given up or edited (recoverableToolResults).
THEOREM UnseenIsTold == Spec => UnseenToldUnlessOvertaken
<1>1. Typed /\ CallsMade /\ Answered /\ [Next]_vars => [TellsUnlessOvertaken]_vars
  BY TellsUnlessOvertakenStep
<1> QED BY <1>1, AnsweredAlways, PTL DEF Spec, UnseenToldUnlessOvertaken

\* The calls of a host whose tools all answer in their turn.
NoAsyncCalls == \A call \in Calls : call.late = "yes" => call.tool = "script"

\* In the sessions of such a host no unseen result is lost: what refutes UnseenResultsTold is an async
\* call (docs/reference.md:43).
THEOREM UnseenIsToldWithoutAsync == NoAsyncCalls /\ Spec => UnseenResultsTold
<1> SUFFICES ASSUME NoAsyncCalls PROVE Spec => UnseenResultsTold
  OBVIOUS
<1>1. Typed /\ CallsMade /\ Answered /\ [Next]_vars => [TellsUnseenResults]_vars
  <2> SUFFICES ASSUME Typed, CallsMade, Answered, Next PROVE TellsUnseenResults
    OBVIOUS
  <2>1. TellsUnlessOvertaken
    BY TellsUnlessOvertakenStep
  <2>2. \A s \in Projected : log[s].kind = "result" => ~Async(log[s].call)
    <3> SUFFICES ASSUME NEW s \in Projected, log[s].kind = "result" PROVE ~Async(log[s].call)
      OBVIOUS
    <3>1. s \in Path
      BY PathFacts, ProjectedFacts DEF Path
    <3>2. CallAt(log[s].call) \in Calls
      BY <3>1, CallFacts DEF CallsMade
    <3> QED BY <3>2 DEF NoAsyncCalls, Async
  <2>3. \A i : ~Overtaken(i)
    BY <2>2 DEF Overtaken
  <2>4. \A r : {i \in Unseen(r) : ~Overtaken(i)} = Unseen(r)
    BY <2>3
  <2> QED BY <2>1, <2>4 DEF TellsUnlessOvertaken, TellsUnseenResults
<1> QED BY <1>1, AnsweredAlways, PTL DEF Spec, UnseenResultsTold
=============================================================================
