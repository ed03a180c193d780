--------------------------- MODULE NoteForkProofs ---------------------------
(***************************************************************************)
(* Proofs about NoteFork for any notes and callers, and any number of      *)
(* changes and crashes.                                                    *)
(***************************************************************************)
EXTENDS NoteFork, TLAPS

----------------------------------------------------------------------------
(* Shapes: the types of NoteFork as sets of records. *)

SeedSet == UNION {[D -> Seed] : D \in SUBSET Notes}
Binding == [seeds : SeedSet, absent : SUBSET Notes]
Phase == {"idle", "found", "sources", "resolve", "prepare", "copy", "append"}
Pipe == [phase : Phase, own : Binding, known : SUBSET Notes, atStart : SUBSET Notes,
         address : [Notes -> Address], copy : [Notes -> Copy]]

Shapes ==
  /\ memo \in {"none", "initializing", "ready"}
  /\ pipe \in [Callers -> Pipe]
  /\ caller \in [Callers -> {"idle", "waiting"}]
  /\ container \in {"none", "foreign", "own"}
  /\ published \in Binding
  /\ journal \in Seq(Binding)
  /\ evidence \in [Notes -> {"unused", "used", "cleared"}]
  /\ parentKind \in {"project", "fork", "unknown"}
  /\ source \in [Scopes -> [Notes -> [live : BOOLEAN, version : Nat]]]
  /\ parentOwns \subseteq Notes /\ parentSeeds \subseteq parentOwns
  /\ changes \in 0..MaxChanges /\ crashes \in 0..MaxCrashes
  /\ error \in {"none", "source", "unexpected", "changed"}

\* A function of seeds over any of the notes is a value of Binding's first field.
LEMMA SeedFacts ==
  /\ \A f \in SeedSet : DOMAIN f \subseteq Notes /\ f \in [DOMAIN f -> Seed]
  /\ \A D \in SUBSET Notes : [D -> Seed] \subseteq SeedSet
BY DEF SeedSet

LEMMA BindingFacts ==
  ASSUME NEW b \in Binding
  PROVE  IsBinding(b)
BY SeedFacts DEF Binding, IsBinding

LEMMA IdleFacts ==
  /\ Idle \in Pipe /\ NoBinding \in Binding
  /\ Idle.phase = "idle" /\ Idle.atStart = {} /\ Idle.known = {} /\ Idle.own = NoBinding
  /\ \A n \in Notes : Idle.address[n] = "todo" /\ Idle.copy[n].state = "todo"
<1>1. NoSeeds \in SeedSet /\ NoSeeds \in [{} -> Seed]
  <2>1. NoSeeds \in [{} -> Seed]
    BY DEF NoSeeds
  <2> QED BY <2>1, SeedFacts
<1>2. NoBinding \in Binding
  BY <1>1 DEF NoBinding, Binding
<1>3. NoCopy \in Copy /\ NoCopy.state = "todo"
  BY DEF NoCopy, Copy
<1>4. /\ [n \in Notes |-> "todo"] \in [Notes -> Address]
      /\ [n \in Notes |-> NoCopy] \in [Notes -> Copy]
  BY <1>3 DEF Address
<1> HIDE DEF NoBinding, NoCopy
<1>5. Idle \in Pipe
  BY <1>2, <1>4 DEF Idle, Pipe, Phase
<1> QED BY <1>2, <1>3, <1>5 DEF Idle

\* The phases of one initialisation do nothing to the others.
Only(c, r) == pipe' = [pipe EXCEPT ![c] = r]

LEMMA OnlyFacts ==
  ASSUME Shapes, NEW c \in Callers, NEW r \in Pipe, Only(c, r)
  PROVE  /\ pipe' \in [Callers -> Pipe] /\ pipe'[c] = r
         /\ \A d \in Callers : d # c => pipe'[d] = pipe[d]
BY DEF Only, Shapes

\* What an initialisation may have reached.
Kept == UNCHANGED <<memo, caller, error, container, published, journal, evidence, parentKind,
                    source, parentOwns, parentSeeds, changes, crashes>>

LEMMA AdvanceFacts ==
  ASSUME Shapes, NEW c \in Callers, NEW r \in Pipe, Advance(c, r)
  PROVE  /\ Kept /\ pipe' \in [Callers -> Pipe] /\ pipe'[c] = r
         /\ \A d \in Callers : d # c => pipe'[d] = pipe[d]
BY OnlyFacts DEF Only, Advance, Kept, diskVars, parentVars

----------------------------------------------------------------------------
(* What each action does, field by field. *)

Others(c) == /\ pipe' \in [Callers -> Pipe]
             /\ \A d \in Callers : d # c => pipe'[d] = pipe[d]

\* The phase an initialisation begins with.
Entry == IF journal = <<>> THEN "sources" ELSE "found"

LEMMA BeginFields ==
  ASSUME Shapes, NEW c \in Callers, Begin(c)
  PROVE  /\ Others(c) /\ memo = "none" /\ pipe[c].phase = "idle"
         /\ memo' = "initializing" /\ caller' \in [Callers -> {"idle", "waiting"}]
         /\ pipe'[c].phase = Entry /\ pipe'[c].atStart = parentOwns
         /\ pipe'[c].own = NoBinding
         /\ \A n \in Notes : pipe'[c].address[n] = "todo" /\ pipe'[c].copy[n].state = "todo"
         /\ UNCHANGED <<container, published, journal, evidence, parentKind, source, parentOwns,
                        parentSeeds, changes, crashes, error>>
<1> DEFINE r == [Idle EXCEPT !.phase = Entry, !.atStart = parentOwns \cup parentSeeds]
<1>1. parentOwns \cup parentSeeds = parentOwns
  BY DEF Shapes
<1>2. /\ r \in Pipe /\ r.phase = Entry /\ r.atStart = parentOwns /\ r.own = NoBinding
      /\ r.address = Idle.address /\ r.copy = Idle.copy
  BY <1>1, IdleFacts DEF Pipe, Phase, Shapes, Entry
<1>3. Only(c, r)
  BY DEF Begin, Only, Entry
<1>4. caller' \in [Callers -> {"idle", "waiting"}]
  BY DEF Begin, Shapes
<1>5. /\ memo = "none" /\ pipe[c].phase = "idle" /\ memo' = "initializing"
      /\ UNCHANGED <<container, published, journal, evidence, parentKind, source, parentOwns,
                     parentSeeds, changes, crashes, error>>
  BY DEF Begin, Unshared, parentVars
<1> HIDE DEF r
<1> QED BY <1>2, <1>3, <1>4, <1>5, OnlyFacts, IdleFacts DEF Others

\* Both questions only ever settle the address of one note.
LEMMA AskFields ==
  ASSUME Shapes, NEW c \in Callers, NEW n \in Notes, AskParent(c, n) \/ AskGrand(c, n)
  PROVE  /\ Others(c) /\ Kept /\ pipe[c].phase = "resolve" /\ pipe'[c].phase = "resolve"
         /\ pipe'[c].known = pipe[c].known /\ pipe'[c].atStart = pipe[c].atStart
         /\ pipe'[c].own = pipe[c].own /\ pipe'[c].copy = pipe[c].copy
         /\ \A m \in Notes :
              \/ pipe'[c].address[m] = pipe[c].address[m]
              \/ pipe'[c].address[m] # "grand"
              \/ m \notin pipe[c].known
<1> DEFINE r(a) == [pipe[c] EXCEPT !.address[n] = a]
<1>1. pipe[c] \in Pipe /\ pipe[c].phase = "resolve"
  BY DEF Shapes, AskParent, AskGrand
<1>2. PICK a \in Address : Advance(c, r(a)) /\ (a = "grand" => n \notin pipe[c].known)
  <2>1. CASE AskParent(c, n)
    BY <2>1 DEF AskParent, Address
  <2>2. CASE AskGrand(c, n)
    BY <2>2 DEF AskGrand, Address, OwnedByParent
  <2> QED BY <2>1, <2>2
<1>3. /\ r(a) \in Pipe /\ r(a).phase = "resolve" /\ r(a).known = pipe[c].known
      /\ r(a).atStart = pipe[c].atStart /\ r(a).own = pipe[c].own /\ r(a).copy = pipe[c].copy
      /\ r(a).address = [pipe[c].address EXCEPT ![n] = a]
  BY <1>1 DEF Pipe
<1>4. \A m \in Notes : r(a).address[m] = IF m = n THEN a ELSE pipe[c].address[m]
  BY <1>1, <1>3 DEF Pipe
<1> HIDE DEF r
<1> QED BY <1>1, <1>2, <1>3, <1>4, AdvanceFacts DEF Others

\* A failed initialisation leaves nothing behind but its error.
FailsWith(c, why) ==
  /\ Others(c) /\ pipe'[c] = Idle /\ memo' = "none" /\ error' = why
  /\ caller' \in [Callers -> {"idle", "waiting"}]
  /\ UNCHANGED <<container, published, journal, evidence, parentKind, source, parentOwns,
                 parentSeeds, changes, crashes>>

LEMMA FailFields ==
  ASSUME Shapes, NEW c \in Callers, NEW why, Fail(c, why)
  PROVE  FailsWith(c, why)
<1>1. Only(c, Idle)
  BY DEF Fail, Settle, Only
<1>2. caller' \in [Callers -> {"idle", "waiting"}] /\ memo' = "none"
  BY DEF Fail, Settle
<1> QED BY <1>1, <1>2, OnlyFacts, IdleFacts DEF Fail, FailsWith, Others, diskVars, parentVars

LEMMA ReadFields ==
  ASSUME Shapes, NEW c \in Callers, ReadSources(c)
  PROVE  /\ pipe[c].phase = "sources"
         /\ \/ FailsWith(c, "source")
            \/ /\ Others(c) /\ Kept /\ pipe'[c].phase = "resolve"
               /\ pipe'[c].known = parentOwns /\ pipe'[c].atStart = pipe[c].atStart
               /\ pipe'[c].address = pipe[c].address /\ pipe'[c].copy = pipe[c].copy
<1>1. pipe[c] \in Pipe /\ pipe[c].phase = "sources"
  BY DEF Shapes, ReadSources
<1>2. CASE Fail(c, "source")
  BY <1>1, <1>2, FailFields
<1>3. CASE ~Fail(c, "source")
  <2> DEFINE r == [pipe[c] EXCEPT !.phase = "resolve", !.known = parentOwns]
  <2>2. /\ r \in Pipe /\ r.phase = "resolve" /\ r.known = parentOwns
        /\ r.atStart = pipe[c].atStart /\ r.address = pipe[c].address /\ r.copy = pipe[c].copy
    BY <1>1 DEF Pipe, Phase, Shapes
  <2>3. Advance(c, r)
    BY <1>3 DEF ReadSources
  <2> HIDE DEF r
  <2> QED BY <1>1, <2>2, <2>3, AdvanceFacts DEF Others
<1> QED BY <1>2, <1>3

\* An initialisation enters a phase with what it has found so far.
Enters(c, phase) ==
  /\ Others(c) /\ Kept /\ pipe'[c].phase = phase
  /\ pipe'[c].known = pipe[c].known /\ pipe'[c].atStart = pipe[c].atStart
  /\ pipe'[c].address = pipe[c].address /\ pipe'[c].copy = pipe[c].copy

LEMMA ResolveFields ==
  ASSUME Shapes, NEW c \in Callers, ResolveEnds(c)
  PROVE  /\ pipe[c].phase = "resolve"
         /\ \/ FailsWith(c, "source")
            \/ Resolved(c) /\ ~Unavailable(c) /\ Enters(c, "prepare")
<1> DEFINE r == [pipe[c] EXCEPT !.phase = "prepare"]
<1>1. pipe[c] \in Pipe /\ pipe[c].phase = "resolve" /\ Resolved(c)
  BY DEF Shapes, ResolveEnds
<1>2. /\ r \in Pipe /\ r.phase = "prepare" /\ r.known = pipe[c].known
      /\ r.atStart = pipe[c].atStart /\ r.address = pipe[c].address /\ r.copy = pipe[c].copy
  BY <1>1 DEF Pipe, Phase
<1>3. \/ Fail(c, "source")
      \/ ~Unavailable(c) /\ Advance(c, r)
  BY DEF ResolveEnds
<1> HIDE DEF r
<1> QED BY <1>1, <1>2, <1>3, FailFields, AdvanceFacts DEF Enters, Others

LEMMA PrepareFields ==
  ASSUME Shapes, NEW c \in Callers, Prepare(c)
  PROVE  /\ pipe[c].phase = "prepare"
         /\ \/ /\ container = "own" /\ Enters(c, "append") /\ pipe'[c].own = published
            \/ FailsWith(c, "unexpected") /\ container = "foreign"
            \/ /\ container = "none" /\ Addressed(c) = {} /\ Enters(c, "append")
               /\ pipe'[c].own = [seeds |-> NoSeeds, absent |-> AbsentIn(c)]
            \/ container = "none" /\ Addressed(c) # {} /\ Enters(c, "copy")
<1>1. pipe[c] \in Pipe /\ pipe[c].phase = "prepare"
  BY DEF Shapes, Prepare
<1>2. CASE container = "own"
  <2> DEFINE r == [pipe[c] EXCEPT !.phase = "append", !.own = published]
  <2>1. Advance(c, r)
    BY <1>2 DEF Prepare, Existing
  <2>2. /\ r \in Pipe /\ r.phase = "append" /\ r.known = pipe[c].known /\ r.own = published
        /\ r.atStart = pipe[c].atStart /\ r.address = pipe[c].address /\ r.copy = pipe[c].copy
    BY <1>1 DEF Pipe, Phase, Shapes
  <2> HIDE DEF r
  <2> QED BY <1>1, <1>2, <2>1, <2>2, AdvanceFacts DEF Enters, Others
<1>3. CASE container = "foreign"
  <2>1. Fail(c, "unexpected")
    BY <1>3 DEF Prepare, Existing
  <2> QED BY <1>1, <1>3, <2>1, FailFields
<1>4. CASE container = "none" /\ Addressed(c) = {}
  <2> DEFINE b == [seeds |-> NoSeeds, absent |-> AbsentIn(c)]
             r == [pipe[c] EXCEPT !.phase = "append", !.own = b]
  <2>1. Advance(c, r)
    BY <1>4 DEF Prepare, Existing
  <2>2. b \in Binding
    <3>1. NoSeeds \in SeedSet
      BY IdleFacts DEF NoBinding, Binding
    <3>2. AbsentIn(c) \subseteq Notes
      BY DEF AbsentIn, Candidates
    <3> QED BY <3>1, <3>2 DEF Binding
  <2> HIDE DEF b
  <2>3. /\ r \in Pipe /\ r.phase = "append" /\ r.known = pipe[c].known /\ r.own = b
        /\ r.atStart = pipe[c].atStart /\ r.address = pipe[c].address /\ r.copy = pipe[c].copy
    BY <1>1, <2>2 DEF Pipe, Phase
  <2> HIDE DEF r
  <2>4. Enters(c, "append") /\ pipe'[c].own = b
    BY <2>1, <2>3, AdvanceFacts DEF Enters, Others
  <2> QED BY <1>1, <1>4, <2>4 DEF b
<1>5. CASE container = "none" /\ Addressed(c) # {}
  <2> DEFINE r == [pipe[c] EXCEPT !.phase = "copy"]
  <2>1. Advance(c, r)
    BY <1>5 DEF Prepare, Existing
  <2>2. /\ r \in Pipe /\ r.phase = "copy" /\ r.known = pipe[c].known
        /\ r.atStart = pipe[c].atStart /\ r.address = pipe[c].address /\ r.copy = pipe[c].copy
    BY <1>1 DEF Pipe, Phase
  <2> HIDE DEF r
  <2> QED BY <1>1, <1>5, <2>1, <2>2, AdvanceFacts DEF Enters, Others
<1> QED BY <1>2, <1>3, <1>4, <1>5 DEF Shapes

\* One note's copy goes on; the versions it has read so far stay.
Copies(c, n, k) ==
  /\ Others(c) /\ Kept /\ pipe[c].phase = "copy" /\ pipe'[c].phase = "copy"
  /\ pipe'[c].known = pipe[c].known /\ pipe'[c].atStart = pipe[c].atStart
  /\ pipe'[c].address = pipe[c].address /\ pipe'[c].own = pipe[c].own
  /\ k \in Copy /\ pipe'[c].copy[n] = k
  /\ \A m \in Notes : m # n => pipe'[c].copy[m] = pipe[c].copy[m]

LEMMA CopyFields ==
  ASSUME Shapes, NEW c \in Callers, NEW n \in Notes, NEW k \in Copy,
         pipe[c].phase = "copy", CopyGoes(c, n, k)
  PROVE  Copies(c, n, k)
<1> DEFINE r == [pipe[c] EXCEPT !.copy[n] = k]
<1>1. pipe[c] \in Pipe
  BY DEF Shapes
<1>2. /\ r \in Pipe /\ r.phase = "copy" /\ r.known = pipe[c].known
      /\ r.atStart = pipe[c].atStart /\ r.address = pipe[c].address /\ r.own = pipe[c].own
      /\ r.copy = [pipe[c].copy EXCEPT ![n] = k]
  BY <1>1 DEF Pipe
<1>3. \A m \in Notes : r.copy[m] = IF m = n THEN k ELSE pipe[c].copy[m]
  BY <1>1, <1>2 DEF Pipe
<1>4. Advance(c, r)
  BY DEF CopyGoes
<1> HIDE DEF r
<1> QED BY <1>2, <1>3, <1>4, AdvanceFacts DEF Copies, Others

\* What a step of one copy may have read.
LEMMA CopyingFields ==
  ASSUME Shapes, NEW c \in Callers, NEW n \in Notes,
         Stat(c, n) \/ CopyBegins(c, n) \/ CopyEnds(c, n) \/ Verify(c, n),
         pipe[c].copy[n].state # "todo" => n \in Addressed(c)
  PROVE  \E k \in Copy :
           /\ Copies(c, n, k) /\ n \in Addressed(c)
           /\ LET o == pipe[c].copy[n]  s == SourceOf(c, n) IN
              \/ k.state = "bad"
              \/ k.state = "stat" /\ k.before = s.version
              \/ /\ o.state = "stat" /\ k.state = "half"
                 /\ k.before = o.before /\ k.first = s.version
              \/ /\ o.state = "half" /\ k.state = "full" /\ k.before = o.before
                 /\ k.first = o.first /\ k.second \in {o.first, s.version}
              \/ /\ o.state = "full" /\ k.state = "good" /\ k.before = o.before
                 /\ k.first = o.first /\ k.second = o.second /\ s.version = o.before
<1> DEFINE o == pipe[c].copy[n]
           s == SourceOf(c, n)
<1>1. o \in Copy
  BY DEF Shapes, Pipe
<1>2. pipe[c].phase = "copy" /\ n \in Addressed(c)
  BY DEF Stat, CopyBegins, CopyEnds, Verify
<1>3. s.version \in Nat
  BY <1>2 DEF SourceOf, Addressed, Shapes, Scopes
<1>4. CASE Stat(c, n)
  <2>1. PICK st \in {"stat", "bad"} :
          CopyGoes(c, n, [o EXCEPT !.state = st, !.before = s.version])
    BY <1>4 DEF Stat
  <2>2. PICK v \in Nat : v = s.version
    BY <1>3
  <2>3. PICK k : k = [o EXCEPT !.state = st, !.before = v]
    OBVIOUS
  <2>4. k \in Copy /\ k.state = st /\ k.before = v
    BY <1>1, <2>3 DEF Copy
  <2>5. Copies(c, n, k)
    BY <1>2, <2>1, <2>2, <2>3, <2>4, CopyFields
  <2> QED BY <1>2, <2>2, <2>4, <2>5
<1>5. CASE CopyBegins(c, n)
  <2>1. PICK st \in {"half", "bad"} :
          CopyGoes(c, n, [o EXCEPT !.state = st, !.first = s.version])
    BY <1>5 DEF CopyBegins
  <2>2. PICK v \in Nat : v = s.version
    BY <1>3
  <2>3. PICK k : k = [o EXCEPT !.state = st, !.first = v]
    OBVIOUS
  <2>4. k \in Copy /\ k.state = st /\ k.first = v /\ k.before = o.before
    BY <1>1, <2>3 DEF Copy
  <2>5. Copies(c, n, k) /\ o.state = "stat"
    BY <1>2, <1>5, <2>1, <2>2, <2>3, <2>4, CopyFields DEF CopyBegins
  <2> QED BY <1>2, <2>2, <2>4, <2>5
<1>6. CASE CopyEnds(c, n)
  <2>1. PICK v \in {o.first, s.version} :
          CopyGoes(c, n, [o EXCEPT !.state = "full", !.second = v])
    BY <1>6 DEF CopyEnds
  <2>2. v \in Nat
    BY <1>1, <1>3 DEF Copy
  <2>3. PICK k : k = [o EXCEPT !.state = "full", !.second = v]
    OBVIOUS
  <2>4. k \in Copy /\ k.state = "full" /\ k.second = v /\ k.before = o.before /\ k.first = o.first
    BY <1>1, <2>2, <2>3 DEF Copy
  <2>5. Copies(c, n, k) /\ o.state = "half"
    BY <1>2, <1>6, <2>1, <2>3, <2>4, CopyFields DEF CopyEnds
  <2> QED BY <1>2, <2>4, <2>5
<1>7. CASE Verify(c, n)
  <2>1. PICK st \in {"good", "bad"} : /\ CopyGoes(c, n, [o EXCEPT !.state = st])
                                      /\ st = "good" => s.version = o.before
    BY <1>7 DEF Verify, Unchanged
  <2>3. PICK k : k = [o EXCEPT !.state = st]
    OBVIOUS
  <2>4. /\ k \in Copy /\ k.state = st /\ k.before = o.before /\ k.first = o.first
        /\ k.second = o.second
    BY <1>1, <2>3 DEF Copy
  <2>5. Copies(c, n, k) /\ o.state = "full"
    BY <1>2, <1>7, <2>1, <2>3, <2>4, CopyFields DEF Verify
  <2> QED BY <1>2, <2>1, <2>4, <2>5
<1> QED BY <1>4, <1>5, <1>6, <1>7

LEMMA SnapshotFacts ==
  ASSUME Shapes, NEW c \in Callers
  PROVE  /\ Snapshot(c) \in Binding
         /\ DOMAIN Snapshot(c).seeds = Addressed(c) /\ Snapshot(c).absent = AbsentIn(c)
         /\ \A n \in Addressed(c) : /\ Snapshot(c).seeds[n].first = pipe[c].copy[n].first
                                    /\ Snapshot(c).seeds[n].second = pipe[c].copy[n].second
<1> DEFINE seed(n) == [from |-> pipe[c].address[n], first |-> pipe[c].copy[n].first,
                       second |-> pipe[c].copy[n].second]
           seeds == [n \in Addressed(c) |-> seed(n)]
<1>1. Addressed(c) \subseteq Notes /\ AbsentIn(c) \subseteq Notes
  BY DEF Addressed, AbsentIn, Candidates
<1>2. \A n \in Addressed(c) : seed(n) \in Seed
  <2> SUFFICES ASSUME NEW n \in Addressed(c) PROVE seed(n) \in Seed
    OBVIOUS
  <2>1. pipe[c].address[n] \in Scopes
    BY DEF Addressed
  <2>2. pipe[c].copy[n] \in Copy
    BY <1>1 DEF Shapes, Pipe
  <2> QED BY <2>1, <2>2 DEF Seed, Copy
<1>3. /\ \A n \in Addressed(c) : /\ seed(n).first = pipe[c].copy[n].first
                                 /\ seed(n).second = pipe[c].copy[n].second
  OBVIOUS
<1>4. Snapshot(c) = [seeds |-> seeds, absent |-> AbsentIn(c)]
  BY DEF Snapshot
<1> HIDE DEF seed
<1>5. seeds \in [Addressed(c) -> Seed] /\ DOMAIN seeds = Addressed(c)
  BY <1>2
<1>6. \A n \in Addressed(c) : seeds[n] = seed(n)
  OBVIOUS
<1> HIDE DEF seeds
<1>7. seeds \in SeedSet
  BY <1>1, <1>5, SeedFacts
<1> QED BY <1>1, <1>3, <1>4, <1>5, <1>6, <1>7 DEF Binding

LEMMA PublishFields ==
  ASSUME Shapes, NEW c \in Callers, Publish(c)
  PROVE  /\ pipe[c].phase = "copy"
         /\ \/ FailsWith(c, "changed")
            \/ container # "none" /\ FailsWith(c, "unexpected")
            \/ /\ \A n \in Addressed(c) : pipe[c].copy[n].state = "good"
               /\ container = "none" /\ container' = "own" /\ published' = Snapshot(c)
               /\ Others(c) /\ pipe'[c].phase = "append" /\ pipe'[c].own = Snapshot(c)
               /\ pipe'[c].atStart = pipe[c].atStart /\ pipe'[c].known = pipe[c].known
               /\ pipe'[c].address = pipe[c].address
               /\ UNCHANGED <<memo, caller, error, journal, evidence, parentKind, source,
                              parentOwns, parentSeeds, changes, crashes>>
<1>1. pipe[c] \in Pipe /\ pipe[c].phase = "copy"
  BY DEF Shapes, Publish
<1>2. CASE Fail(c, "changed")
  BY <1>1, <1>2, FailFields
<1>3. CASE container # "none" /\ Fail(c, "unexpected")
  BY <1>1, <1>3, FailFields
<1>4. CASE ~Fail(c, "changed") /\ ~(container # "none" /\ Fail(c, "unexpected"))
  <2> DEFINE r == [pipe[c] EXCEPT !.phase = "append", !.own = Snapshot(c)]
  <2>1. /\ \A n \in Addressed(c) : pipe[c].copy[n].state = "good"
        /\ container = "none" /\ container' = "own" /\ published' = Snapshot(c)
        /\ Only(c, r)
        /\ UNCHANGED <<memo, caller, error, journal, evidence, parentKind, source,
                       parentOwns, parentSeeds, changes, crashes>>
    BY <1>4 DEF Publish, Settled, Only, parentVars
  <2>2. Snapshot(c) \in Binding
    BY SnapshotFacts
  <2>3. PICK b \in Binding : b = Snapshot(c)
    BY <2>2
  <2>4. /\ r \in Pipe /\ r.phase = "append" /\ r.own = b
        /\ r.atStart = pipe[c].atStart /\ r.known = pipe[c].known
        /\ r.address = pipe[c].address
    BY <1>1, <2>3 DEF Pipe, Phase
  <2> HIDE DEF r
  <2> QED BY <1>1, <2>1, <2>3, <2>4, OnlyFacts DEF Others
<1> QED BY <1>2, <1>3, <1>4

LEMMA BindFields ==
  ASSUME Shapes, NEW c \in Callers, AppendBinding(c)
  PROVE  /\ pipe[c].phase = "append" /\ Others(c) /\ pipe'[c] = Idle /\ memo' = "ready"
         /\ caller' \in [Callers -> {"idle", "waiting"}]
         /\ journal' = Append(journal, pipe[c].own)
         /\ UNCHANGED <<container, published, error, evidence, parentKind, source, parentOwns,
                        parentSeeds, changes, crashes>>
<1>1. Only(c, Idle) /\ memo' = "ready" /\ caller' \in [Callers -> {"idle", "waiting"}]
  BY DEF AppendBinding, Settle, Only
<1> QED BY <1>1, OnlyFacts, IdleFacts DEF AppendBinding, Others, parentVars

LEMMA RestoreFields ==
  ASSUME Shapes, NEW c \in Callers, Restore(c)
  PROVE  /\ pipe[c].phase = "found" /\ Others(c) /\ pipe'[c] = Idle /\ memo' = "ready"
         /\ caller' \in [Callers -> {"idle", "waiting"}]
         /\ UNCHANGED <<container, published, journal, error, evidence, parentKind, source,
                        parentOwns, parentSeeds, changes, crashes>>
<1>1. Only(c, Idle) /\ memo' = "ready" /\ caller' \in [Callers -> {"idle", "waiting"}]
  BY DEF Restore, Settle, Only
<1> QED BY <1>1, OnlyFacts, IdleFacts DEF Restore, Others, diskVars, parentVars

LEMMA JoinFields ==
  ASSUME Shapes, NEW c \in Callers, Join(c)
  PROVE  /\ caller' \in [Callers -> {"idle", "waiting"}]
         /\ UNCHANGED <<memo, pipe, container, published, journal, evidence, parentKind, source,
                        parentOwns, parentSeeds, changes, crashes, error>>
BY DEF Join, Shapes, parentVars

LEMMA SourceFields ==
  ASSUME Shapes, NEW s \in Scopes, NEW n \in Notes, SourceChanges(s, n)
  PROVE  /\ source' \in [Scopes -> [Notes -> [live : BOOLEAN, version : Nat]]]
         /\ \A t \in Scopes, m \in Notes : source[t][m].version <= source'[t][m].version
         /\ parentOwns \subseteq parentOwns' /\ parentOwns' \subseteq Notes
         /\ parentSeeds' \subseteq parentOwns'
         /\ changes' \in 0..MaxChanges
         /\ UNCHANGED <<memo, pipe, caller, error, container, published, journal, evidence,
                        parentKind, crashes>>
<1> DEFINE File1 == [live : BOOLEAN, version : Nat]
<1>0. source[s][n] \in File1 /\ source[s][n].version \in Nat
  BY DEF Shapes
<1>1. PICK live \in BOOLEAN, how \in {"tool", "adopt", "shell"} :
        /\ how = "adopt" => s = "parent" /\ n \notin parentOwns
        /\ source' = [source EXCEPT ![s][n] = [live |-> live,
                        version |-> IF live THEN @.version + 1 ELSE @.version]]
        /\ parentOwns' = IF s = "parent" /\ how # "shell" THEN parentOwns \cup {n} ELSE parentOwns
        /\ parentSeeds' = IF how = "adopt" THEN parentSeeds \cup {n} ELSE parentSeeds
  BY DEF SourceChanges
<1>2. PICK f \in File1 : /\ f.version >= source[s][n].version
                         /\ source' = [source EXCEPT ![s][n] = f]
  <2>1. PICK v \in Nat : /\ v = IF live THEN source[s][n].version + 1 ELSE source[s][n].version
                         /\ v >= source[s][n].version
    BY <1>0
  <2>2. [live |-> live, version |-> v] \in File1 /\ [live |-> live, version |-> v].version = v
    OBVIOUS
  <2> QED BY <1>1, <2>1, <2>2
<1>3. source' \in [Scopes -> [Notes -> File1]]
  BY <1>2 DEF Shapes
<1>4. \A t \in Scopes, m \in Notes :
        source'[t][m] = IF t = s /\ m = n THEN f ELSE source[t][m]
  BY <1>2 DEF Shapes
<1>5. \A t \in Scopes, m \in Notes : source[t][m].version \in Nat
  BY DEF Shapes
<1>6. /\ parentOwns \subseteq parentOwns' /\ parentOwns' \subseteq Notes
      /\ parentSeeds' \subseteq parentOwns'
  BY <1>1 DEF Shapes
<1>7. changes' \in 0..MaxChanges
  BY BoundsAssumption DEF SourceChanges, Shapes
<1>8. UNCHANGED <<memo, pipe, caller, error, container, published, journal, evidence,
                  parentKind, crashes>>
  BY DEF SourceChanges, memoryVars, diskVars
<1>9. \A t \in Scopes, m \in Notes : source[t][m].version <= source'[t][m].version
  BY <1>2, <1>4, <1>5
<1> QED BY <1>3, <1>6, <1>7, <1>8, <1>9

LEMMA CrashFields ==
  ASSUME Shapes, Crash
  PROVE  /\ memo' = "none" /\ pipe' \in [Callers -> Pipe]
         /\ \A c \in Callers : pipe'[c] = Idle
         /\ caller' \in [Callers -> {"idle", "waiting"}]
         /\ crashes' \in 0..MaxCrashes /\ crashes' # crashes
         /\ UNCHANGED <<container, published, journal, evidence, parentKind, source, parentOwns,
                        parentSeeds, changes, error>>
<1>1. pipe' = [c \in Callers |-> Idle] /\ Idle \in Pipe
  BY IdleFacts DEF Crash
<1>2. crashes' \in 0..MaxCrashes /\ crashes' # crashes
  BY BoundsAssumption DEF Crash, Shapes
<1> QED BY <1>1, <1>2 DEF Crash, diskVars, parentVars

----------------------------------------------------------------------------
(* Types. *)

Asks(c, n) == AskParent(c, n) \/ AskGrand(c, n)
Copying(c, n) == Stat(c, n) \/ CopyBegins(c, n) \/ CopyEnds(c, n) \/ Verify(c, n)

LEMMA ShapesInit == Init => Shapes
<1> SUFFICES ASSUME Init PROVE Shapes
  OBVIOUS
<1>1. /\ pipe \in [Callers -> Pipe] /\ published \in Binding
      /\ caller \in [Callers -> {"idle", "waiting"}]
  BY IdleFacts DEF Init
<1>2. \A b \in BOOLEAN : File(b) \in [live : BOOLEAN, version : Nat]
  BY DEF File
<1>3. PICK live \in [Scopes -> [Notes -> BOOLEAN]] :
        source = [s \in Scopes |-> [n \in Notes |-> File(live[s][n])]]
  BY DEF Init
<1>4. \A s \in Scopes, n \in Notes : live[s][n] \in BOOLEAN
  OBVIOUS
<1>5. source \in [Scopes -> [Notes -> [live : BOOLEAN, version : Nat]]]
  BY <1>2, <1>3, <1>4
<1> QED BY <1>1, <1>5, BoundsAssumption DEF Init, Shapes

\* A copy that has been begun is of a note that has an address.
Begun == \A c \in Callers, n \in Notes :
           /\ pipe[c].copy[n].state # "todo" /\ pipe[c].phase = "copy" => n \in Addressed(c)
           /\ pipe[c].phase \in {"sources", "resolve", "prepare"} => pipe[c].copy[n].state = "todo"

LEMMA ShapesNext ==
  ASSUME Shapes, Begun, [Next]_vars
  PROVE  Shapes'
<1>1. ASSUME NEW c \in Callers, Begin(c) PROVE Shapes'
  BY <1>1, BeginFields DEF Shapes, Others
<1>2. ASSUME NEW c \in Callers, Join(c) PROVE Shapes'
  BY <1>2, JoinFields DEF Shapes
<1>3. ASSUME NEW c \in Callers, ReadSources(c) PROVE Shapes'
  BY <1>3, ReadFields DEF Shapes, Others, Kept, FailsWith
<1>4. ASSUME NEW c \in Callers, NEW n \in Notes, Asks(c, n) PROVE Shapes'
  BY <1>4, AskFields DEF Shapes, Others, Kept, Asks
<1>5. ASSUME NEW c \in Callers, ResolveEnds(c) PROVE Shapes'
  BY <1>5, ResolveFields DEF Shapes, Others, Kept, Enters, FailsWith
<1>6. ASSUME NEW c \in Callers, Prepare(c) PROVE Shapes'
  BY <1>6, PrepareFields DEF Shapes, Others, Kept, Enters, FailsWith
<1>7. ASSUME NEW c \in Callers, NEW n \in Notes, Copying(c, n) PROVE Shapes'
  <2>1. pipe[c].copy[n].state # "todo" => n \in Addressed(c)
    BY <1>7 DEF Begun, Copying, Stat, CopyBegins, CopyEnds, Verify
  <2>2. \E k \in Copy : Copies(c, n, k)
    BY <1>7, <2>1, CopyingFields DEF Copying
  <2> QED BY <2>2 DEF Copies, Shapes, Others, Kept
<1>8. ASSUME NEW c \in Callers, Publish(c) PROVE Shapes'
  <2>1. Snapshot(c) \in Binding
    BY SnapshotFacts
  <2> QED BY <1>8, <2>1, PublishFields DEF Shapes, Others, FailsWith
<1>9. ASSUME NEW c \in Callers, AppendBinding(c) PROVE Shapes'
  <2>1. pipe[c].own \in Binding
    BY DEF Shapes, Pipe
  <2>2. journal \in Seq(Binding) /\ journal' = Append(journal, pipe[c].own)
    BY <1>9, BindFields DEF Shapes
  <2>3. journal' \in Seq(Binding)
    BY <2>1, <2>2
  <2> QED BY <1>9, <2>3, BindFields DEF Shapes, Others
<1>10. ASSUME NEW s \in Scopes, NEW n \in Notes, SourceChanges(s, n) PROVE Shapes'
  BY <1>10, SourceFields DEF Shapes
<1>11. ASSUME Crash PROVE Shapes'
  BY <1>11, CrashFields DEF Shapes
<1>12. ASSUME UNCHANGED vars PROVE Shapes'
  BY <1>12 DEF vars, Shapes
<1>13. ASSUME NEW c \in Callers, Restore(c) PROVE Shapes'
  BY <1>13, RestoreFields DEF Shapes, Others
<1> QED BY <1>1, <1>2, <1>3, <1>4, <1>5, <1>6, <1>7, <1>8, <1>9, <1>10, <1>11, <1>12, <1>13
        DEF Next, Initialise, Asks, Copying

----------------------------------------------------------------------------
(* One initialisation at a time, and what it has chosen to copy. *)

Single ==
  /\ memo # "initializing" => \A c \in Callers : pipe[c].phase = "idle"
  /\ \A c, d \in Callers : pipe[c].phase # "idle" /\ pipe[d].phase # "idle" => c = d
  /\ Len(journal) <= 1
  /\ memo = "ready" => journal # <<>>
  \* Only a session without a binding is given one.
  /\ \A c \in Callers : pipe[c].phase = "found" => journal # <<>>
  /\ \A c \in Callers : pipe[c].phase \notin {"idle", "found"} => journal = <<>>

\* Every note is settled, and the ones the branch used have a file.
Answered(c) == \A n \in Candidates : /\ pipe[c].address[n] \in Scopes \cup {"missing"}
                                     /\ evidence[n] = "used" => pipe[c].address[n] \in Scopes

Chosen == \A c \in Callers :
            /\ pipe[c].phase \in {"prepare", "copy"} => Answered(c)
            /\ pipe[c].phase = "copy" => Addressed(c) # {} /\ container = "none"

Control == Shapes /\ Begun /\ Single /\ Chosen

\* Of the callers, one at most has a phase other than idle; for it alone there is something to show.
LEMMA OneCaller ==
  ASSUME Control, NEW c \in Callers, pipe[c].phase # "idle", Others(c)
  PROVE  \A d \in Callers : d # c => pipe[d].phase = "idle" /\ pipe'[d].phase = "idle"
BY DEF Control, Single, Others

LEMMA ControlInit == Init => Control
<1> SUFFICES ASSUME Init PROVE Begun /\ Single /\ Chosen
  BY ShapesInit DEF Control
<1>1. \A c \in Callers : pipe[c] = Idle
  BY DEF Init
<1>2. \A c \in Callers : pipe[c].phase = "idle" /\ \A n \in Notes : pipe[c].copy[n].state = "todo"
  BY <1>1, IdleFacts
<1> QED BY <1>2 DEF Init, Begun, Single, Chosen

\* A step of one caller's initialisation that changes nothing outside it.
LEMMA InnerStep ==
  ASSUME Control, Shapes', NEW c \in Callers, pipe[c].phase \notin {"idle", "found"}, Others(c),
         UNCHANGED <<memo, journal>>, pipe'[c].phase \in {"resolve", "prepare", "copy", "append"},
         pipe'[c].phase \in {"prepare", "copy"} => Answered(c)',
         pipe'[c].phase = "copy" => Addressed(c)' # {} /\ container' = "none",
         \A n \in Notes :
           /\ pipe'[c].copy[n].state # "todo" /\ pipe'[c].phase = "copy" => n \in Addressed(c)'
           /\ pipe'[c].phase \in {"resolve", "prepare"} => pipe'[c].copy[n].state = "todo"
  PROVE  Control'
<1>1. \A d \in Callers : d # c => pipe[d].phase = "idle" /\ pipe'[d].phase = "idle"
  BY OneCaller
<1>2. Begun'
  BY <1>1 DEF Begun
<1>3. Single'
  BY <1>1 DEF Control, Single
<1>4. Chosen'
  BY <1>1 DEF Chosen
<1> QED BY <1>2, <1>3, <1>4 DEF Control

\* Once no initialisation runs there is nothing to show of any.
LEMMA AllIdle ==
  ASSUME Shapes', \A c \in Callers : pipe'[c].phase = "idle",
         Len(journal') <= 1, memo' = "ready" => journal' # <<>>
  PROVE  Control'
BY DEF Control, Begun, Single, Chosen

LEMMA FailControl ==
  ASSUME Control, Shapes', NEW c \in Callers, pipe[c].phase # "idle", NEW why, FailsWith(c, why)
  PROVE  Control'
<1>1. \A d \in Callers : pipe'[d].phase = "idle"
  BY OneCaller, IdleFacts DEF FailsWith
<1> QED BY <1>1, AllIdle DEF FailsWith, Control, Single

LEMMA ControlNext ==
  ASSUME Control, [Next]_vars
  PROVE  Control'
<1> USE DEF Control
<1>0. Shapes'
  BY ShapesNext
<1>1. ASSUME NEW c \in Callers, Begin(c) PROVE Control'
  <2>1. \A d \in Callers : pipe[d].phase = "idle"
    BY <1>1, BeginFields DEF Single
  <2>2. \A d \in Callers : d # c => pipe'[d].phase = "idle"
    BY <1>1, <2>1, BeginFields DEF Others
  <2>3. Begun' /\ Chosen'
    BY <1>1, <2>2, BeginFields DEF Begun, Chosen, Entry
  <2>4. Single'
    BY <1>1, <2>2, BeginFields DEF Single, Entry
  <2> QED BY <1>0, <2>3, <2>4
<1>2. ASSUME NEW c \in Callers, Join(c) PROVE Control'
  BY <1>0, <1>2, JoinFields DEF Begun, Single, Chosen, Answered, Addressed, Candidates
<1>3. ASSUME NEW c \in Callers, ReadSources(c) PROVE Control'
  <2>1. pipe[c].phase = "sources"
    BY <1>3, ReadFields
  <2>2. CASE FailsWith(c, "source")
    BY <1>0, <2>1, <2>2, FailControl
  <2>3. CASE Others(c) /\ Kept /\ pipe'[c].copy = pipe[c].copy /\ pipe'[c].phase = "resolve"
    BY <1>0, <2>1, <2>3, InnerStep DEF Kept, Begun
  <2> QED BY <1>3, <2>2, <2>3, ReadFields
<1>4. ASSUME NEW c \in Callers, NEW n \in Notes, Asks(c, n) PROVE Control'
  <2>1. Others(c) /\ Kept /\ pipe[c].phase = "resolve" /\ pipe'[c].copy = pipe[c].copy
        /\ pipe'[c].phase = "resolve"
    BY <1>4, AskFields DEF Asks
  <2> QED BY <1>0, <2>1, InnerStep DEF Kept, Begun
<1>5. ASSUME NEW c \in Callers, ResolveEnds(c) PROVE Control'
  <2>1. pipe[c].phase = "resolve"
    BY <1>5, ResolveFields
  <2>2. CASE FailsWith(c, "source")
    BY <1>0, <2>1, <2>2, FailControl
  <2>3. CASE Resolved(c) /\ ~Unavailable(c) /\ Enters(c, "prepare")
    <3>1. pipe[c].address \in [Notes -> Address]
      BY DEF Shapes, Pipe
    <3>2. Answered(c)
      BY <2>3, <3>1 DEF Answered, Resolved, Unavailable, Candidates, Address, Scopes, Shapes
    <3>3. Answered(c)'
      BY <2>3, <3>2 DEF Answered, Enters, Kept, Candidates
    <3> QED BY <1>0, <2>1, <2>3, <3>3, InnerStep DEF Enters, Kept, Begun
  <2> QED BY <1>5, <2>2, <2>3, ResolveFields
<1>6. ASSUME NEW c \in Callers, Prepare(c) PROVE Control'
  <2>1. pipe[c].phase = "prepare"
    BY <1>6, PrepareFields
  <2>2. CASE FailsWith(c, "unexpected")
    BY <1>0, <2>1, <2>2, FailControl
  <2>3. CASE Enters(c, "append")
    BY <1>0, <2>1, <2>3, InnerStep DEF Enters, Kept
  <2>4. CASE container = "none" /\ Addressed(c) # {} /\ Enters(c, "copy")
    <3>1. Answered(c)' /\ Addressed(c)' = Addressed(c) /\ container' = "none"
      BY <2>1, <2>4 DEF Chosen, Answered, Addressed, Candidates, Enters, Kept
    <3>2. \A n \in Notes : pipe'[c].copy[n].state = "todo"
      BY <2>1, <2>4 DEF Begun, Enters
    <3> QED BY <1>0, <2>1, <2>4, <3>1, <3>2, InnerStep DEF Enters, Kept
  <2> QED BY <1>6, <2>2, <2>3, <2>4, PrepareFields
<1>7. ASSUME NEW c \in Callers, NEW n \in Notes, Copying(c, n) PROVE Control'
  <2>1. pipe[c].copy[n].state # "todo" => n \in Addressed(c)
    BY <1>7 DEF Begun, Copying, Stat, CopyBegins, CopyEnds, Verify
  <2>2. PICK k \in Copy : Copies(c, n, k) /\ n \in Addressed(c)
    BY <1>7, <2>1, CopyingFields DEF Copying
  <2>3. Answered(c)' /\ Addressed(c)' = Addressed(c) /\ Addressed(c) # {} /\ container' = "none"
    BY <2>2 DEF Copies, Kept, Chosen, Answered, Addressed, Candidates
  <2>4. \A m \in Notes : pipe'[c].copy[m].state # "todo" => m \in Addressed(c)
    BY <2>2 DEF Copies, Begun
  <2> QED BY <1>0, <2>2, <2>3, <2>4, InnerStep DEF Copies, Kept
<1>8. ASSUME NEW c \in Callers, Publish(c) PROVE Control'
  <2>1. pipe[c].phase = "copy"
    BY <1>8, PublishFields
  <2>2. ASSUME NEW why, FailsWith(c, why) PROVE Control'
    BY <1>0, <2>1, <2>2, FailControl
  <2>3. CASE Others(c) /\ pipe'[c].phase = "append" /\ UNCHANGED <<memo, journal>>
    BY <1>0, <2>1, <2>3, InnerStep
  <2> QED BY <1>8, <2>2, <2>3, PublishFields
<1>9. ASSUME NEW c \in Callers, AppendBinding(c) PROVE Control'
  <2>1. \A d \in Callers : pipe'[d].phase = "idle"
    BY <1>9, BindFields, OneCaller, IdleFacts
  <2>2. Len(journal') <= 1 /\ journal' # <<>>
    BY <1>9, BindFields DEF Single
  <2> QED BY <1>0, <2>1, <2>2, AllIdle
<1>10. ASSUME NEW s \in Scopes, NEW n \in Notes, SourceChanges(s, n) PROVE Control'
  <2>1. UNCHANGED <<memo, pipe, journal, container, evidence>>
    BY <1>10, SourceFields
  <2>2. Begun'
    BY <2>1 DEF Begun, Addressed, Candidates
  <2>3. Single'
    BY <2>1 DEF Single
  <2>4. Chosen'
    BY <2>1 DEF Chosen, Answered, Addressed, Candidates
  <2> QED BY <1>0, <2>2, <2>3, <2>4
<1>11. ASSUME Crash PROVE Control'
  BY <1>0, <1>11, CrashFields, IdleFacts, AllIdle DEF Single
<1>12. ASSUME UNCHANGED vars PROVE Control'
  BY <1>0, <1>12 DEF vars, Begun, Single, Chosen, Answered, Addressed, Candidates
<1>13. ASSUME NEW c \in Callers, Restore(c) PROVE Control'
  <2>1. \A d \in Callers : pipe'[d].phase = "idle"
    BY <1>13, RestoreFields, OneCaller, IdleFacts
  <2>2. journal' = journal /\ journal # <<>> /\ Len(journal) <= 1
    BY <1>13, RestoreFields DEF Single
  <2> QED BY <1>0, <2>1, <2>2, AllIdle
<1> QED BY <1>1, <1>2, <1>3, <1>4, <1>5, <1>6, <1>7, <1>8, <1>9, <1>10, <1>11, <1>12, <1>13
        DEF Next, Initialise, Asks, Copying

LEMMA ControlInvariant == Spec => []Control
<1>1. Init => Control
  BY ControlInit
<1>2. Control /\ [Next]_vars => Control'
  BY ControlNext
<1> QED BY <1>1, <1>2, PTL DEF Spec

(* All state keeps its type, and a copy is only ever made of notes whose   *)
(* addresses are settled (note-provenance.ts:222).                         *)
THEOREM TypeCorrect == Spec => []TypeOK
<1>1. Control => TypeOK
  <2> SUFFICES ASSUME Control PROVE TypeOK
    OBVIOUS
  <2>1. \A c \in Callers : pipe[c] \in Pipe
    BY DEF Control, Shapes
  <2>2. \A c \in Callers : IsBinding(pipe[c].own)
    BY <2>1, BindingFacts DEF Pipe
  <2>3. IsBinding(published) /\ \A i \in DOMAIN journal : IsBinding(journal[i])
    BY BindingFacts DEF Control, Shapes
  <2> QED BY <2>1, <2>2, <2>3 DEF TypeOK, Control, Shapes, Pipe, Phase, Chosen, Answered
<1> QED BY <1>1, ControlInvariant, PTL

(* However many handlers ask, one initialisation runs at a time and the    *)
(* session is bound once, over any number of restarts (note-store.ts:245). *)
THEOREM BoundJustOnce == Spec => []BoundOnce
<1>1. Control => BoundOnce
  BY DEF Control, Single, BoundOnce
<1> QED BY <1>1, ControlInvariant, PTL

----------------------------------------------------------------------------
(* What the parent owned when the fork began. *)

Remembered == \A c \in Callers :
  /\ pipe[c].phase = "sources" => pipe[c].atStart \subseteq parentOwns
  /\ pipe[c].phase = "resolve" => pipe[c].atStart \subseteq pipe[c].known
  /\ \A n \in Notes : pipe[c].address[n] = "grand" => n \notin pipe[c].atStart

\* For the other callers, and for one that stops, nothing can change.
LEMMA RememberedOthers ==
  ASSUME Control, Remembered, NEW c \in Callers, Others(c), parentOwns' = parentOwns,
         \/ pipe'[c] = Idle
         \/ /\ pipe'[c].phase \in {"prepare", "copy", "append"}
            /\ pipe'[c].address = pipe[c].address /\ pipe'[c].atStart = pipe[c].atStart
  PROVE  Remembered'
<1>1. /\ pipe'[c].phase \notin {"sources", "resolve"}
      /\ \A n \in Notes : pipe'[c].address[n] = "grand" => n \notin pipe'[c].atStart
  BY IdleFacts DEF Remembered
<1> QED BY <1>1 DEF Remembered, Others

LEMMA RememberedNext ==
  ASSUME Control, Remembered, [Next]_vars
  PROVE  Remembered'
<1>0. Shapes /\ Begun
  BY DEF Control
<1>1. ASSUME NEW c \in Callers, Begin(c) PROVE Remembered'
  BY <1>0, <1>1, BeginFields DEF Remembered, Others, Entry
<1>2. ASSUME NEW c \in Callers, Join(c) PROVE Remembered'
  BY <1>0, <1>2, JoinFields DEF Remembered
<1>3. ASSUME NEW c \in Callers, ReadSources(c) PROVE Remembered'
  <2>1. CASE FailsWith(c, "source")
    BY <2>1, RememberedOthers DEF FailsWith
  <2>2. CASE /\ Others(c) /\ Kept /\ pipe'[c].phase = "resolve" /\ pipe'[c].known = parentOwns
             /\ pipe'[c].atStart = pipe[c].atStart /\ pipe'[c].address = pipe[c].address
    <3>1. pipe[c].phase = "sources"
      BY <1>0, <1>3, ReadFields
    <3> QED BY <2>2, <3>1 DEF Remembered, Others, Kept
  <2> QED BY <1>0, <1>3, <2>1, <2>2, ReadFields
<1>4. ASSUME NEW c \in Callers, NEW n \in Notes, Asks(c, n) PROVE Remembered'
  <2>1. /\ Others(c) /\ parentOwns' = parentOwns
        /\ pipe[c].phase = "resolve" /\ pipe'[c].phase = "resolve"
        /\ pipe'[c].known = pipe[c].known /\ pipe'[c].atStart = pipe[c].atStart
        /\ \A m \in Notes : \/ pipe'[c].address[m] = pipe[c].address[m]
                            \/ pipe'[c].address[m] # "grand"
                            \/ m \notin pipe[c].known
    BY <1>0, <1>4, AskFields DEF Kept, Asks
  <2>2. \A m \in Notes : pipe'[c].address[m] = "grand" => m \notin pipe'[c].atStart
    BY <2>1 DEF Remembered
  <2> QED BY <2>1, <2>2 DEF Remembered, Others
<1>5. ASSUME NEW c \in Callers, ResolveEnds(c) PROVE Remembered'
  BY <1>0, <1>5, ResolveFields, RememberedOthers DEF FailsWith, Enters, Kept
<1>6. ASSUME NEW c \in Callers, Prepare(c) PROVE Remembered'
  BY <1>0, <1>6, PrepareFields, RememberedOthers DEF FailsWith, Enters, Kept
<1>7. ASSUME NEW c \in Callers, NEW n \in Notes, Copying(c, n) PROVE Remembered'
  <2>1. pipe[c].copy[n].state # "todo" => n \in Addressed(c)
    BY <1>0, <1>7 DEF Begun, Copying, Stat, CopyBegins, CopyEnds, Verify
  <2>2. PICK k \in Copy : Copies(c, n, k)
    BY <1>0, <1>7, <2>1, CopyingFields DEF Copying
  <2> QED BY <2>2, RememberedOthers DEF Copies, Kept
<1>8. ASSUME NEW c \in Callers, Publish(c) PROVE Remembered'
  BY <1>0, <1>8, PublishFields, RememberedOthers DEF FailsWith
<1>9. ASSUME NEW c \in Callers, AppendBinding(c) PROVE Remembered'
  BY <1>0, <1>9, BindFields, RememberedOthers
<1>10. ASSUME NEW s \in Scopes, NEW n \in Notes, SourceChanges(s, n) PROVE Remembered'
  <2>1. pipe' = pipe /\ parentOwns \subseteq parentOwns'
    BY <1>0, <1>10, SourceFields
  <2> QED BY <2>1 DEF Remembered
<1>11. ASSUME Crash PROVE Remembered'
  BY <1>0, <1>11, CrashFields, IdleFacts DEF Remembered
<1>12. ASSUME UNCHANGED vars PROVE Remembered'
  BY <1>12 DEF vars, Remembered
<1>13. ASSUME NEW c \in Callers, Restore(c) PROVE Remembered'
  BY <1>0, <1>13, RestoreFields, RememberedOthers
<1> QED BY <1>1, <1>2, <1>3, <1>4, <1>5, <1>6, <1>7, <1>8, <1>9, <1>10, <1>11, <1>12, <1>13
        DEF Next, Initialise, Asks, Copying

(* A note that the parent had taken over before the fork began is never    *)
(* copied from the scope the parent was forked from, whatever the parent   *)
(* does meanwhile (note-provenance.ts:138).                                *)
THEOREM OwnedIsFinal == Spec => []OwnedNeverFallsBack
<1>1. Init => Remembered
  <2> SUFFICES ASSUME Init PROVE Remembered
    OBVIOUS
  <2>1. \A c \in Callers : pipe[c] = Idle
    BY DEF Init
  <2> QED BY <2>1, IdleFacts DEF Remembered
<1>2. Control /\ Remembered /\ [Next]_vars => Remembered'
  BY RememberedNext
<1>3. Remembered => OwnedNeverFallsBack
  BY DEF Remembered, OwnedNeverFallsBack
<1> QED BY <1>1, <1>2, <1>3, ControlInvariant, PTL DEF Spec

----------------------------------------------------------------------------
(* A published scope stays. *)

TakenOver == container = "own" => /\ container' = "own" /\ published' = published
                                  /\ Failing => error' = "source"

LEMMA TakenOverNext ==
  ASSUME Control, [Next]_vars
  PROVE  TakenOver
<1> SUFFICES ASSUME container = "own"
             PROVE  /\ container' = "own" /\ published' = published
                    /\ Failing => error' = "source"
  BY DEF TakenOver
<1>0. Shapes /\ Begun
  BY DEF Control
\* A caller that goes on, or whose process dies, has not failed.
<1>a. ASSUME NEW c \in Callers, Others(c), pipe'[c].phase # "idle" \/ pipe[c].phase = "idle"
      PROVE  ~Failing
  BY <1>a DEF Failing, Others
<1>1. ASSUME NEW c \in Callers, Begin(c)
      PROVE  container' = "own" /\ published' = published /\ ~Failing
  BY <1>0, <1>1, <1>a, BeginFields DEF Entry
<1>2. ASSUME NEW c \in Callers, Join(c)
      PROVE  container' = "own" /\ published' = published /\ ~Failing
  BY <1>0, <1>2, JoinFields DEF Failing
<1>3. ASSUME NEW c \in Callers, ReadSources(c)
      PROVE  container' = "own" /\ published' = published /\ (Failing => error' = "source")
  BY <1>0, <1>3, <1>a, ReadFields DEF Kept, FailsWith
<1>4. ASSUME NEW c \in Callers, NEW n \in Notes, Asks(c, n)
      PROVE  container' = "own" /\ published' = published /\ ~Failing
  BY <1>0, <1>4, <1>a, AskFields DEF Kept, Asks
<1>5. ASSUME NEW c \in Callers, ResolveEnds(c)
      PROVE  container' = "own" /\ published' = published /\ (Failing => error' = "source")
  BY <1>0, <1>5, <1>a, ResolveFields DEF Kept, Enters, FailsWith
<1>6. ASSUME NEW c \in Callers, Prepare(c)
      PROVE  container' = "own" /\ published' = published /\ ~Failing
  BY <1>0, <1>6, <1>a, PrepareFields DEF Kept, Enters
<1>7. ASSUME NEW c \in Callers, NEW n \in Notes, Copying(c, n) PROVE FALSE
  BY <1>7 DEF Copying, Stat, CopyBegins, CopyEnds, Verify, Control, Chosen
<1>8. ASSUME NEW c \in Callers, Publish(c) PROVE FALSE
  BY <1>8 DEF Publish, Control, Chosen
<1>9. ASSUME NEW c \in Callers, AppendBinding(c)
      PROVE  container' = "own" /\ published' = published /\ ~Failing
  BY <1>0, <1>9, BindFields DEF Failing
<1>10. ASSUME NEW s \in Scopes, NEW n \in Notes, SourceChanges(s, n)
       PROVE  container' = "own" /\ published' = published /\ ~Failing
  BY <1>0, <1>10, SourceFields DEF Failing
<1>11. ASSUME Crash PROVE container' = "own" /\ published' = published /\ ~Failing
  BY <1>0, <1>11, CrashFields DEF Failing
<1>12. ASSUME UNCHANGED vars PROVE container' = "own" /\ published' = published /\ ~Failing
  BY <1>12 DEF vars, Failing
<1>13. ASSUME NEW c \in Callers, Restore(c)
       PROVE  container' = "own" /\ published' = published /\ ~Failing
  BY <1>0, <1>13, RestoreFields DEF Failing
<1> QED BY <1>1, <1>2, <1>3, <1>4, <1>5, <1>6, <1>7, <1>8, <1>9, <1>10, <1>11, <1>12, <1>13
        DEF Next, Initialise, Asks, Copying

(* A scope that is in place is neither changed nor copied again nor taken  *)
(* for foreign data; only a missing source can keep a later process from   *)
(* it (note-snapshots.ts:147).                                             *)
THEOREM PublishedStays == Spec => PublishedTakenOver
<1>1. Control /\ [Next]_vars => [TakenOver]_vars
  BY TakenOverNext
<1>2. Spec => [][TakenOver]_vars
  BY <1>1, ControlInvariant, PTL DEF Spec
<1> QED BY <1>2 DEF PublishedTakenOver, TakenOver

----------------------------------------------------------------------------
(* Every copy is one version. *)

\* The versions were read in the order of before, first, second, and versions only grow.
Faithful(c, n) ==
  LET k == pipe[c].copy[n]  v == SourceOf(c, n).version
  IN /\ k.state \in {"stat", "half", "full"} => k.before <= v
     /\ k.state \in {"half", "full"} => k.before <= k.first /\ k.first <= v
     /\ k.state = "full" => k.first <= k.second /\ k.second <= v
     /\ k.state = "good" => k.first = k.second

OneVersion == \A c \in Callers, n \in Notes :
                pipe[c].phase = "copy" /\ n \in Addressed(c) => Faithful(c, n)

\* A caller that is not copying, after the step, has nothing to show.
LEMMA NotCopying ==
  ASSUME OneVersion, NEW c \in Callers, Others(c), pipe'[c].phase # "copy",
         UNCHANGED <<source, evidence>>
  PROVE  OneVersion'
BY DEF OneVersion, Others, Faithful, SourceOf, Addressed, Candidates

LEMMA CopyingFaithful ==
  ASSUME Control, OneVersion, NEW c \in Callers, NEW n \in Notes, Copying(c, n)
  PROVE  OneVersion'
<1>0. Shapes /\ Begun
  BY DEF Control
<1>1. pipe[c].copy[n].state # "todo" => n \in Addressed(c)
  BY <1>0 DEF Begun, Copying, Stat, CopyBegins, CopyEnds, Verify
<1> DEFINE o == pipe[c].copy[n]
           v == SourceOf(c, n).version
<1>2. PICK k \in Copy :
        /\ Copies(c, n, k) /\ n \in Addressed(c)
        /\ \/ k.state = "bad"
           \/ k.state = "stat" /\ k.before = v
           \/ o.state = "stat" /\ k.state = "half" /\ k.before = o.before /\ k.first = v
           \/ /\ o.state = "half" /\ k.state = "full" /\ k.before = o.before
              /\ k.first = o.first /\ k.second \in {o.first, v}
           \/ /\ o.state = "full" /\ k.state = "good" /\ k.before = o.before
              /\ k.first = o.first /\ k.second = o.second /\ v = o.before
  BY <1>0, <1>1, CopyingFields DEF Copying
<1>3. o \in Copy /\ v \in Nat
  BY <1>0, <1>2 DEF Shapes, Pipe, SourceOf, Addressed
<1>4. Faithful(c, n)
  BY <1>2 DEF OneVersion, Copies
<1>5. /\ k.state \in {"stat", "half", "full"} => k.before <= v
      /\ k.state \in {"half", "full"} => k.before <= k.first /\ k.first <= v
      /\ k.state = "full" => k.first <= k.second /\ k.second <= v
      /\ k.state = "good" => k.first = k.second
  BY <1>2, <1>3, <1>4 DEF Faithful, Copy
<1>6. /\ SourceOf(c, n)' = SourceOf(c, n) /\ pipe'[c].copy[n] = k
      /\ \A m \in Notes : m # n => pipe'[c].copy[m] = pipe[c].copy[m]
      /\ \A m \in Notes : SourceOf(c, m)' = SourceOf(c, m)
      /\ Addressed(c)' = Addressed(c) /\ pipe[c].phase = "copy"
  BY <1>2 DEF Copies, Kept, SourceOf, Addressed, Candidates
<1>7. Faithful(c, n)'
  BY <1>5, <1>6 DEF Faithful
<1>8. \A m \in Notes : m # n /\ m \in Addressed(c) => Faithful(c, m)'
  BY <1>6 DEF Faithful, OneVersion
<1>9. \A d \in Callers, m \in Notes :
        d # c /\ pipe'[d].phase = "copy" /\ m \in Addressed(d)' => Faithful(d, m)'
  <2> SUFFICES ASSUME NEW d \in Callers, NEW m \in Notes,
                      d # c, pipe'[d].phase = "copy", m \in Addressed(d)'
               PROVE  Faithful(d, m)'
    OBVIOUS
  <2>1. /\ pipe'[d] = pipe[d] /\ SourceOf(d, m)' = SourceOf(d, m)
        /\ Addressed(d)' = Addressed(d)
    BY <1>2 DEF Copies, Others, Kept, SourceOf, Addressed, Candidates
  <2>2. Faithful(d, m)
    BY <2>1 DEF OneVersion
  <2> QED BY <2>1, <2>2 DEF Faithful
<1>10. \A m \in Notes : m \in Addressed(c)' => Faithful(c, m)'
  BY <1>6, <1>7, <1>8
<1>11. ASSUME NEW d \in Callers, NEW m \in Notes, pipe'[d].phase = "copy", m \in Addressed(d)'
       PROVE  Faithful(d, m)'
  <2>1. CASE d = c
    BY <1>10, <1>11, <2>1
  <2>2. CASE d # c
    BY <1>9, <1>11, <2>2
  <2> QED BY <2>1, <2>2
<1> QED BY <1>11 DEF OneVersion

LEMMA OneVersionNext ==
  ASSUME Control, OneVersion, [Next]_vars
  PROVE  OneVersion'
<1>0. Shapes /\ Begun
  BY DEF Control
<1>1. ASSUME NEW c \in Callers, Begin(c) PROVE OneVersion'
  BY <1>0, <1>1, BeginFields, NotCopying DEF Entry
<1>2. ASSUME UNCHANGED <<pipe, source, evidence>> PROVE OneVersion'
  BY <1>2 DEF OneVersion, Faithful, SourceOf, Addressed, Candidates
<1>3. ASSUME NEW c \in Callers, ReadSources(c) PROVE OneVersion'
  BY <1>0, <1>3, ReadFields, NotCopying, IdleFacts DEF Kept, FailsWith
<1>4. ASSUME NEW c \in Callers, NEW n \in Notes, Asks(c, n) PROVE OneVersion'
  BY <1>0, <1>4, AskFields, NotCopying DEF Kept, Asks
<1>5. ASSUME NEW c \in Callers, ResolveEnds(c) PROVE OneVersion'
  BY <1>0, <1>5, ResolveFields, NotCopying, IdleFacts DEF Kept, Enters, FailsWith
<1>6. ASSUME NEW c \in Callers, Prepare(c) PROVE OneVersion'
  <2>1. CASE pipe'[c].phase # "copy"
    <3>1. Others(c) /\ UNCHANGED <<source, evidence>>
      BY <1>0, <1>6, PrepareFields DEF Kept, Enters, FailsWith
    <3> QED BY <2>1, <3>1, NotCopying
  <2>2. CASE pipe'[c].phase = "copy"
    <3>1. Others(c) /\ pipe[c].phase = "prepare" /\ pipe'[c].copy = pipe[c].copy
          /\ UNCHANGED <<source, evidence>>
      BY <1>0, <1>6, <2>2, PrepareFields, IdleFacts DEF Kept, Enters, FailsWith
    <3>2. \A n \in Notes : pipe'[c].copy[n].state = "todo"
      BY <1>0, <3>1 DEF Begun
    <3>3. \A n \in Notes : Faithful(c, n)'
      BY <3>2 DEF Faithful
    <3> QED BY <3>1, <3>3 DEF OneVersion, Others, Faithful, SourceOf, Addressed, Candidates
  <2> QED BY <2>1, <2>2
<1>7. ASSUME NEW c \in Callers, NEW n \in Notes, Copying(c, n) PROVE OneVersion'
  BY <1>7, CopyingFaithful
<1>8. ASSUME NEW c \in Callers, Publish(c) PROVE OneVersion'
  BY <1>0, <1>8, PublishFields, NotCopying, IdleFacts DEF FailsWith
<1>9. ASSUME NEW c \in Callers, AppendBinding(c) PROVE OneVersion'
  BY <1>0, <1>9, BindFields, NotCopying, IdleFacts
<1>10. ASSUME NEW s \in Scopes, NEW m \in Notes, SourceChanges(s, m) PROVE OneVersion'
  <2> SUFFICES ASSUME NEW c \in Callers, NEW n \in Notes,
                      pipe'[c].phase = "copy", n \in Addressed(c)'
               PROVE  Faithful(c, n)'
    BY DEF OneVersion
  <2>1. /\ pipe' = pipe /\ evidence' = evidence
        /\ \A t \in Scopes, k \in Notes : source[t][k].version <= source'[t][k].version
    BY <1>0, <1>10, SourceFields
  <2>2. /\ n \in Addressed(c) /\ Faithful(c, n) /\ pipe[c].address[n] \in Scopes
        /\ pipe[c].copy[n] \in Copy
    BY <1>0, <2>1 DEF OneVersion, Addressed, Candidates, Shapes, Pipe
  <2>3. PICK v, w \in Nat : /\ v = SourceOf(c, n).version /\ w = SourceOf(c, n)'.version
                            /\ v <= w
    <3>1. source'[pipe[c].address[n]][n].version \in Nat
      BY <1>0, <1>10, <2>2, SourceFields
    <3> QED BY <1>0, <2>1, <2>2, <3>1 DEF SourceOf, Shapes
  <2>4. pipe'[c].copy[n] = pipe[c].copy[n]
    BY <2>1
  <2> QED BY <2>2, <2>3, <2>4 DEF Faithful, Copy
<1>11. ASSUME Crash PROVE OneVersion'
  BY <1>0, <1>11, CrashFields, IdleFacts DEF OneVersion
<1>12. ASSUME NEW c \in Callers, Join(c) PROVE UNCHANGED <<pipe, source, evidence>>
  BY <1>0, <1>12, JoinFields
<1>13. UNCHANGED vars => UNCHANGED <<pipe, source, evidence>>
  BY DEF vars
<1>14. ASSUME NEW c \in Callers, Restore(c) PROVE OneVersion'
  BY <1>0, <1>14, RestoreFields, NotCopying, IdleFacts
<1> QED BY <1>1, <1>2, <1>3, <1>4, <1>5, <1>6, <1>7, <1>8, <1>9, <1>10, <1>11, <1>12, <1>13,
           <1>14
        DEF Next, Initialise, Asks, Copying

----------------------------------------------------------------------------
(* What is recorded is complete. *)

Whole(b) == /\ \A n \in Notes : evidence[n] = "used" => n \in DOMAIN b.seeds
            /\ \A n \in Notes : evidence[n] = "cleared" => n \in DOMAIN b.seeds \cup b.absent
            /\ \A n \in DOMAIN b.seeds : b.seeds[n].first = b.seeds[n].second
InPlace(b) == DOMAIN b.seeds # {} => container = "own" /\ published = b

Recorded ==
  /\ container = "own" => Whole(published)
  /\ \A i \in DOMAIN journal : Whole(journal[i]) /\ InPlace(journal[i])
  /\ \A c \in Callers : pipe[c].phase = "append" => Whole(pipe[c].own) /\ InPlace(pipe[c].own)

LEMMA SameScope ==
  ASSUME UNCHANGED <<evidence, container, published>>
  PROVE  \A b : (Whole(b)' <=> Whole(b)) /\ (InPlace(b)' <=> InPlace(b))
BY DEF Whole, InPlace

\* The journal and the scope stay as they are, and nobody else is about to append.
LEMMA RecordedKept ==
  ASSUME Recorded, NEW c \in Callers, Others(c),
         UNCHANGED <<evidence, container, published, journal>>,
         pipe'[c].phase = "append" => Whole(pipe'[c].own) /\ InPlace(pipe'[c].own)
  PROVE  Recorded'
<1>1. \A d \in Callers : pipe'[d].phase = "append" => Whole(pipe'[d].own) /\ InPlace(pipe'[d].own)
  BY DEF Recorded, Others
<1>2. \A d \in Callers : pipe'[d].phase = "append" => Whole(pipe[d].own)' /\ InPlace(pipe[d].own)'
  BY <1>1 DEF Whole, InPlace
<1>3. \A i \in DOMAIN journal' : Whole(journal[i])' /\ InPlace(journal[i])'
  BY DEF Recorded, Whole, InPlace
<1>4. container' = "own" => Whole(published)'
  BY DEF Recorded, Whole
<1> QED BY <1>2, <1>3, <1>4 DEF Recorded

\* What is published holds every note that was used, and every one that was cleared.
LEMMA SnapshotWhole ==
  ASSUME Control, OneVersion, NEW c \in Callers, pipe[c].phase = "copy",
         \A n \in Addressed(c) : pipe[c].copy[n].state = "good"
  PROVE  Whole(Snapshot(c))
<1>0. Shapes /\ Answered(c)
  BY DEF Control, Chosen
<1>1. \A n \in Notes : evidence[n] = "used" => n \in Addressed(c)
  BY <1>0 DEF Answered, Addressed, Candidates
<1>2. \A n \in Notes : evidence[n] = "cleared" => n \in Addressed(c) \cup AbsentIn(c)
  BY DEF AbsentIn, Candidates
<1>3. \A n \in Addressed(c) : pipe[c].copy[n].first = pipe[c].copy[n].second
  BY DEF OneVersion, Faithful, Addressed, Candidates
<1> QED BY <1>0, <1>1, <1>2, <1>3, SnapshotFacts DEF Whole

LEMMA RecordedNext ==
  ASSUME Control, OneVersion, Recorded, [Next]_vars
  PROVE  Recorded'
<1>0. Shapes /\ Begun
  BY DEF Control
<1>1. ASSUME NEW c \in Callers, Begin(c) PROVE Recorded'
  BY <1>0, <1>1, BeginFields, RecordedKept DEF Entry
<1>2. ASSUME UNCHANGED <<pipe, evidence, container, published, journal>> PROVE Recorded'
  BY <1>2 DEF Recorded, Whole, InPlace
<1>3. ASSUME NEW c \in Callers, ReadSources(c) PROVE Recorded'
  BY <1>0, <1>3, ReadFields, RecordedKept, IdleFacts DEF Kept, FailsWith
<1>4. ASSUME NEW c \in Callers, NEW n \in Notes, Asks(c, n) PROVE Recorded'
  BY <1>0, <1>4, AskFields, RecordedKept DEF Kept, Asks
<1>5. ASSUME NEW c \in Callers, ResolveEnds(c) PROVE Recorded'
  BY <1>0, <1>5, ResolveFields, RecordedKept, IdleFacts DEF Kept, Enters, FailsWith
<1>6. ASSUME NEW c \in Callers, Prepare(c) PROVE Recorded'
  <2>1. Others(c) /\ UNCHANGED <<evidence, container, published, journal>>
        /\ pipe[c].phase = "prepare"
    BY <1>0, <1>6, PrepareFields DEF Kept, Enters, FailsWith
  <2>2. CASE container = "own" /\ pipe'[c].own = published
    BY <2>1, <2>2, RecordedKept DEF Recorded, InPlace
  <2>3. CASE pipe'[c].phase # "append"
    BY <2>1, <2>3, RecordedKept
  <2>4. CASE /\ Addressed(c) = {}
             /\ pipe'[c].own = [seeds |-> NoSeeds, absent |-> AbsentIn(c)]
    <3> DEFINE b == [seeds |-> NoSeeds, absent |-> AbsentIn(c)]
    <3>1. DOMAIN b.seeds = {} /\ b.absent = Candidates
      BY <2>4 DEF NoSeeds, AbsentIn, Addressed
    <3>2. \A n \in Notes : evidence[n] # "used"
      BY <2>1, <2>4 DEF Control, Chosen, Answered, Addressed, Candidates
    <3> HIDE DEF b
    <3>3. Whole(b) /\ InPlace(b)
      BY <3>1, <3>2 DEF Whole, InPlace, Candidates
    <3> QED BY <2>1, <2>4, <3>3, RecordedKept DEF b
  <2> QED BY <1>0, <1>6, <2>2, <2>3, <2>4, PrepareFields, IdleFacts DEF Enters, FailsWith
<1>7. ASSUME NEW c \in Callers, NEW n \in Notes, Copying(c, n) PROVE Recorded'
  <2>1. pipe[c].copy[n].state # "todo" => n \in Addressed(c)
    BY <1>0, <1>7 DEF Begun, Copying, Stat, CopyBegins, CopyEnds, Verify
  <2>2. PICK k \in Copy : Copies(c, n, k)
    BY <1>0, <1>7, <2>1, CopyingFields DEF Copying
  <2> QED BY <2>2, RecordedKept DEF Copies, Kept
<1>8. ASSUME NEW c \in Callers, Publish(c) PROVE Recorded'
  <2>1. ASSUME NEW why, FailsWith(c, why) PROVE Recorded'
    BY <2>1, RecordedKept, IdleFacts DEF FailsWith
  <2>2. CASE /\ \A n \in Addressed(c) : pipe[c].copy[n].state = "good"
             /\ container = "none" /\ container' = "own" /\ published' = Snapshot(c)
             /\ Others(c) /\ pipe'[c].phase = "append" /\ pipe'[c].own = Snapshot(c)
             /\ UNCHANGED <<journal, evidence>>
    <3>1. pipe[c].phase = "copy"
      BY <1>0, <1>8, PublishFields
    <3>2. PICK b : b = Snapshot(c)
      OBVIOUS
    <3>3. Whole(b)'
      BY <2>2, <3>1, <3>2, SnapshotWhole DEF Whole
    <3>4. InPlace(b)'
      BY <2>2, <3>2 DEF InPlace
    <3>5. \A i \in DOMAIN journal : Whole(journal[i])' /\ InPlace(journal[i])'
      BY <2>2 DEF Recorded, Whole, InPlace
    <3>6. \A d \in Callers : d # c => pipe'[d].phase = "idle"
      BY <2>2, <3>1, OneCaller
    <3> QED BY <2>2, <3>2, <3>3, <3>4, <3>5, <3>6 DEF Recorded, Whole, InPlace
  <2> QED BY <1>0, <1>8, <2>1, <2>2, PublishFields
<1>9. ASSUME NEW c \in Callers, AppendBinding(c) PROVE Recorded'
  <2>1. \A d \in Callers : pipe'[d].phase = "idle"
    BY <1>0, <1>9, BindFields, OneCaller, IdleFacts
  <2>2. Whole(pipe[c].own) /\ InPlace(pipe[c].own)
    BY <1>0, <1>9, BindFields DEF Recorded
  <2>3. \A i \in DOMAIN journal' : Whole(journal'[i]) /\ InPlace(journal'[i])
    <3>1. journal = <<>> /\ journal' = Append(journal, pipe[c].own)
      BY <1>0, <1>9, BindFields DEF Control, Single
    <3>2. \A i \in DOMAIN journal' : journal'[i] = pipe[c].own
      BY <3>1
    <3> QED BY <2>2, <3>2
  <2>4. UNCHANGED <<evidence, container, published>>
    BY <1>0, <1>9, BindFields
  <2> QED BY <2>1, <2>3, <2>4 DEF Recorded, Whole, InPlace
<1>10. ASSUME Crash PROVE Recorded'
  BY <1>0, <1>10, CrashFields, IdleFacts DEF Recorded, Whole, InPlace
<1>11. ASSUME NEW c \in Callers, Join(c)
       PROVE  UNCHANGED <<pipe, evidence, container, published, journal>>
  BY <1>0, <1>11, JoinFields
<1>12. ASSUME NEW s \in Scopes, NEW n \in Notes, SourceChanges(s, n)
       PROVE  UNCHANGED <<pipe, evidence, container, published, journal>>
  BY <1>0, <1>12, SourceFields
<1>13. UNCHANGED vars => UNCHANGED <<pipe, evidence, container, published, journal>>
  BY DEF vars
<1>14. ASSUME NEW c \in Callers, Restore(c) PROVE Recorded'
  BY <1>0, <1>14, RestoreFields, RecordedKept, IdleFacts
<1> QED BY <1>1, <1>2, <1>3, <1>4, <1>5, <1>6, <1>7, <1>8, <1>9, <1>10, <1>11, <1>12, <1>13,
           <1>14
        DEF Next, Initialise, Asks, Copying

(* What is published and what is recorded is whole: every note the branch  *)
(* used, each copied from one version, and never a record without its      *)
(* copies (note-snapshots.ts:187).                                         *)
THEOREM RecordsAreWhole == Spec => []NeverPartial
<1>1. Init => OneVersion /\ Recorded
  <2> SUFFICES ASSUME Init PROVE OneVersion /\ Recorded
    OBVIOUS
  <2>1. \A c \in Callers : pipe[c].phase = "idle"
    BY IdleFacts DEF Init
  <2> QED BY <2>1 DEF Init, OneVersion, Recorded
<1>2. Control /\ OneVersion /\ Recorded /\ [Next]_vars => OneVersion' /\ Recorded'
  BY OneVersionNext, RecordedNext
<1>3. Recorded => NeverPartial
  BY DEF Recorded, NeverPartial, Bindings, Whole, InPlace
<1> QED BY <1>1, <1>2, <1>3, ControlInvariant, PTL DEF Spec
=============================================================================
