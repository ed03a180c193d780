------------------------------ MODULE NoteFork ------------------------------
(***************************************************************************)
(* How a forked session gets its private notes: the memoised store of      *)
(* src/src/note-store.ts, the choice of sources in note-provenance.ts and  *)
(* the staged snapshot of note-snapshots.ts.                               *)
(*                                                                         *)
(* Several handlers of one Pi process may ask for the store while it is    *)
(* being built.  Building it reads the journals of the source sessions,    *)
(* resolves every note the selected branch used to the parent's file, or   *)
(* to the file the parent itself still refers to, copies those files to a  *)
(* staging directory, renames that directory to its place, and appends     *)
(* the binding to the session.  Sessions of other processes go on writing  *)
(* the sources meanwhile, and Pi may die between any two steps.            *)
(*                                                                         *)
(* A version stands for what sameIdentity compares (size, times, inode):   *)
(* every change of a file makes a new one.  A copy is the pair of versions *)
(* its first and its second half were read from.                           *)
(***************************************************************************)
EXTENDS Naturals, Sequences

CONSTANTS
  Notes,        \* note paths
  Callers,      \* handlers that may ask for the store
  MaxChanges,   \* bound: changes of source notes
  MaxCrashes    \* bound: deaths of the forked session's process

ASSUME BoundsAssumption == MaxChanges \in Nat /\ MaxCrashes \in Nat

VARIABLES
  \* in memory, lost in a crash
  memo,         \* sessions.get(key): "none", "initializing" or "ready"
  pipe,         \* what the initialisation that each caller began has reached
  caller,       \* whether each caller awaits the store
  \* on disk
  container,    \* the scope's directory: "none", "foreign" data, or "own"
  published,    \* the binding of its manifest, if "own", and the copies beside it
  journal,      \* bindings of this owner among the session's entries
  \* the source sessions (external)
  evidence,     \* what the selected branch last did with each note
  parentKind,   \* "project", itself a "fork" of one, or "unknown": no single root is named
  source,       \* the files of the parent's scope and of the scope it refers to
  parentOwns,   \* notes the parent's journal says it owns
  parentSeeds,  \* notes the parent's manifest says it owns
  changes, crashes,
  \* history, for the properties only
  error         \* why the last failed initialisation failed

memoryVars == <<memo, pipe, caller, error>>
diskVars   == <<container, published, journal>>
parentVars == <<evidence, parentKind, source, parentOwns, parentSeeds, changes>>
vars == <<memo, pipe, caller, container, published, journal,
          evidence, parentKind, source, parentOwns, parentSeeds, changes, crashes, error>>

Scopes == {"parent", "grand"}
Address == {"todo", "asked", "parent", "grand", "missing"}
Copy == [state : {"todo", "stat", "half", "full", "good", "bad"},
         before : Nat, first : Nat, second : Nat]
NoCopy == [state |-> "todo", before |-> 0, first |-> 0, second |-> 0]
Seed == [from : Scopes, first : Nat, second : Nat]
\* A binding: its seeds, and the absent notes it owns without a copy.
IsBinding(b) == /\ b.absent \subseteq Notes
                /\ DOMAIN b.seeds \subseteq Notes
                /\ b.seeds \in [DOMAIN b.seeds -> Seed]
NoSeeds == [n \in {} |-> [from |-> "parent", first |-> 0, second |-> 0]]
NoBinding == [seeds |-> NoSeeds, absent |-> {}]

Idle == [phase |-> "idle", own |-> NoBinding, known |-> {}, atStart |-> {},
         address |-> [n \in Notes |-> "todo"], copy |-> [n \in Notes |-> NoCopy]]

Candidates == {n \in Notes : evidence[n] # "unused"}
Addressed(c) == {n \in Candidates : pipe[c].address[n] \in Scopes}

TypeOK ==
  /\ memo \in {"none", "initializing", "ready"}
  /\ caller \in [Callers -> {"idle", "waiting"}]
  /\ \A c \in Callers :
       /\ pipe[c].phase \in {"idle", "found", "sources", "resolve", "prepare", "copy", "append"}
       /\ IsBinding(pipe[c].own)
       /\ pipe[c].known \subseteq Notes /\ pipe[c].atStart \subseteq Notes
       /\ pipe[c].address \in [Notes -> Address]
       /\ pipe[c].copy \in [Notes -> Copy]
       /\ pipe[c].phase = "copy" => /\ Addressed(c) # {}
                                    /\ \A n \in Candidates :
                                         pipe[c].address[n] \in Scopes \cup {"missing"}
  /\ container \in {"none", "foreign", "own"}
  /\ IsBinding(published)
  /\ \A i \in DOMAIN journal : IsBinding(journal[i])
  /\ evidence \in [Notes -> {"unused", "used", "cleared"}]
  /\ parentKind \in {"project", "fork", "unknown"}
  /\ source \in [Scopes -> [Notes -> [live : BOOLEAN, version : Nat]]]
  /\ parentOwns \subseteq Notes /\ parentSeeds \subseteq parentOwns
  /\ changes \in 0..MaxChanges /\ crashes \in 0..MaxCrashes
  /\ error \in {"none", "source", "unexpected", "changed"}

File(live) == [live |-> live, version |-> IF live THEN 1 ELSE 0]

Init ==
  /\ memo = "none"
  /\ pipe = [c \in Callers |-> Idle]
  /\ caller = [c \in Callers |-> "idle"]
  /\ container \in {"none", "foreign"}
  /\ published = NoBinding /\ journal = <<>>
  /\ evidence \in [Notes -> {"unused", "used", "cleared"}]
  /\ parentKind \in {"project", "fork", "unknown"}
  /\ \E live \in [Scopes -> [Notes -> BOOLEAN]] :
       source = [s \in Scopes |-> [n \in Notes |-> File(live[s][n])]]
  /\ parentOwns \in SUBSET Notes
  /\ parentSeeds = {}
  /\ changes = 0 /\ crashes = 0 /\ error = "none"

----------------------------------------------------------------------------
(* The store: get, and how an initialisation ends. *)

\* Mutant: only a finished initialisation is shared.
UnsharedUntilReady == memo # "ready"

\* No initialisation is known for the session: the caller begins one.
Unshared == memo = "none"

\* Whether a binding is to be made and appended is decided here, before anything is awaited
\* (note-provenance.ts:273).
Begin(c) ==
  /\ caller[c] = "idle" /\ Unshared /\ pipe[c].phase = "idle"
  /\ memo' = "initializing"
  /\ caller' = [caller EXCEPT ![c] = "waiting"]
  /\ pipe' = [pipe EXCEPT ![c] = [Idle EXCEPT
                                 !.phase = IF journal = <<>> THEN "sources" ELSE "found",
                                 !.atStart = parentOwns \cup parentSeeds]]
  /\ UNCHANGED <<container, published, journal, parentVars, crashes, error>>

Join(c) ==
  /\ caller[c] = "idle" /\ ~Unshared
  /\ caller' = [caller EXCEPT ![c] = IF memo = "ready" THEN "idle" ELSE "waiting"]
  /\ UNCHANGED <<memo, pipe, container, published, journal, parentVars, crashes, error>>

\* The shared promise settles: everyone who awaits it learns the outcome, and may ask again.
Settle(c, kept) ==
  /\ memo' = kept
  /\ pipe' = [pipe EXCEPT ![c] = Idle]
  /\ caller' = [d \in Callers |-> "idle"]

\* Mutant: a failed promise is kept.
FailKept(c, why) ==
  /\ pipe' = [pipe EXCEPT ![c] = Idle]
  /\ error' = why
  /\ UNCHANGED <<memo, caller, diskVars, parentVars, crashes>>

\* A failure is forgotten, so that the next get starts afresh.
Fail(c, why) ==
  /\ Settle(c, "none")
  /\ error' = why
  /\ UNCHANGED <<diskVars, parentVars, crashes>>

Advance(c, changed) ==
  /\ pipe' = [pipe EXCEPT ![c] = changed]
  /\ UNCHANGED <<memo, caller, error, diskVars, parentVars, crashes>>

----------------------------------------------------------------------------
(* Choosing what to copy. *)

\* The journals of the source sessions are read.  Notes were used, but no one root can be
\* named as theirs: the initialisation fails.
ReadSources(c) ==
  /\ pipe[c].phase = "sources"
  /\ IF parentKind = "unknown" /\ Candidates # {} THEN Fail(c, "source")
     ELSE Advance(c, [pipe[c] EXCEPT !.phase = "resolve", !.known = parentOwns])

\* A binding of its own was among the entries: it is used as it is, and nothing is appended.
Restore(c) ==
  /\ pipe[c].phase = "found"
  /\ Settle(c, "ready")
  /\ UNCHANGED <<diskVars, error, parentVars, crashes>>

\* Mutant: the manifest alone tells what the parent owns.
OwnedBySeeds(c) == parentSeeds

\* The parent's journal, as it was read, and its manifest, as it is now.
OwnedByParent(c) == pipe[c].known \cup parentSeeds

AskParent(c, n) ==
  /\ pipe[c].phase = "resolve" /\ n \in Candidates /\ pipe[c].address[n] = "todo"
  /\ Advance(c, [pipe[c] EXCEPT !.address[n] = IF source["parent"][n].live THEN "parent"
                                                                           ELSE "asked"])

\* Only a fork that has never owned the note refers to the scope it was forked from.
AskGrand(c, n) ==
  /\ pipe[c].phase = "resolve" /\ pipe[c].address[n] = "asked"
  /\ Advance(c, [pipe[c] EXCEPT !.address[n] =
       IF /\ parentKind = "fork"
          /\ n \notin OwnedByParent(c)
          /\ source["grand"][n].live
       THEN "grand" ELSE "missing"])

\* Mutant: the first answer is taken for all.
ResolvedSome(c) == \E n \in Candidates : pipe[c].address[n] \notin {"todo", "asked"}

Resolved(c) == \A n \in Candidates : pipe[c].address[n] \notin {"todo", "asked"}
Unavailable(c) == \E n \in Candidates : pipe[c].address[n] = "missing" /\ evidence[n] = "used"
AbsentIn(c) == Candidates \ Addressed(c)

ResolveEnds(c) ==
  /\ pipe[c].phase = "resolve" /\ Resolved(c)
  /\ IF Unavailable(c) THEN Fail(c, "source")
     ELSE Advance(c, [pipe[c] EXCEPT !.phase = "prepare"])

----------------------------------------------------------------------------
(* The snapshot. *)

\* Mutant: data in place is never one's own.
ExistingNever == FALSE

\* A manifest of this owner is already in place: an earlier process has published it.
Existing == container = "own"

Prepare(c) ==
  /\ pipe[c].phase = "prepare"
  /\ \/ /\ Existing
        /\ Advance(c, [pipe[c] EXCEPT !.phase = "append", !.own = published])
     \/ /\ ~Existing /\ container # "none"
        /\ Fail(c, "unexpected")
     \/ /\ ~Existing /\ container = "none"
        /\ Advance(c, IF Addressed(c) = {}
             THEN [pipe[c] EXCEPT !.phase = "append",
                                  !.own = [seeds |-> NoSeeds, absent |-> AbsentIn(c)]]
             ELSE [pipe[c] EXCEPT !.phase = "copy"])

SourceOf(c, n) == source[pipe[c].address[n]][n]

CopyGoes(c, n, copy) == Advance(c, [pipe[c] EXCEPT !.copy[n] = copy])

Stat(c, n) ==
  /\ pipe[c].phase = "copy" /\ n \in Addressed(c) /\ pipe[c].copy[n].state = "todo"
  /\ CopyGoes(c, n, [pipe[c].copy[n] EXCEPT !.state = IF SourceOf(c, n).live THEN "stat" ELSE "bad",
                                            !.before = SourceOf(c, n).version])

CopyBegins(c, n) ==
  /\ pipe[c].phase = "copy" /\ pipe[c].copy[n].state = "stat"
  /\ CopyGoes(c, n, [pipe[c].copy[n] EXCEPT !.state = IF SourceOf(c, n).live THEN "half" ELSE "bad",
                                            !.first = SourceOf(c, n).version])

\* An edit in place shows in what is still to be read; a replacement leaves the open file alone.
CopyEnds(c, n) ==
  /\ pipe[c].phase = "copy" /\ pipe[c].copy[n].state = "half"
  /\ \E v \in {pipe[c].copy[n].first, SourceOf(c, n).version} :
       CopyGoes(c, n, [pipe[c].copy[n] EXCEPT !.state = "full", !.second = v])

\* Mutant: the source is not compared after the copy.
UnchangedAlways(c, n) == TRUE

\* sameIdentity of the source before and after.
Unchanged(c, n) == SourceOf(c, n).live /\ SourceOf(c, n).version = pipe[c].copy[n].before

Verify(c, n) ==
  /\ pipe[c].phase = "copy" /\ pipe[c].copy[n].state = "full"
  /\ CopyGoes(c, n, [pipe[c].copy[n] EXCEPT !.state = IF Unchanged(c, n) THEN "good" ELSE "bad"])

Settled(c) == \A n \in Addressed(c) : pipe[c].copy[n].state \in {"good", "bad"}

\* What the manifest records: the copies, and the absent notes that are owned without one.
Snapshot(c) == [seeds |-> [n \in Addressed(c) |-> [from |-> pipe[c].address[n],
                                                  first |-> pipe[c].copy[n].first,
                                                  second |-> pipe[c].copy[n].second]],
                absent |-> AbsentIn(c)]

\* The staging directory holds every copy and the manifest: it is renamed as a whole.
Publish(c) ==
  /\ pipe[c].phase = "copy" /\ Settled(c)
  /\ IF \E n \in Addressed(c) : pipe[c].copy[n].state = "bad" THEN Fail(c, "changed")
     ELSE IF container # "none" THEN Fail(c, "unexpected")
     ELSE /\ container' = "own" /\ published' = Snapshot(c)
          /\ pipe' = [pipe EXCEPT ![c] = [pipe[c] EXCEPT !.phase = "append", !.own = Snapshot(c)]]
          /\ UNCHANGED <<memo, caller, error, journal, parentVars, crashes>>

\* The binding that was made is appended, and the session is ready.
AppendBinding(c) ==
  /\ pipe[c].phase = "append"
  /\ journal' = Append(journal, pipe[c].own)
  /\ Settle(c, "ready")
  /\ UNCHANGED <<container, published, error, parentVars, crashes>>

----------------------------------------------------------------------------
(* The rest of the world. *)

\* A source note is written, adopted or removed, by its session's tools or by other programs.
SourceChanges(s, n) ==
  /\ changes < MaxChanges
  /\ \E live \in BOOLEAN, how \in {"tool", "adopt", "shell"} :
       /\ live \/ source[s][n].live
       /\ how = "adopt" => s = "parent" /\ live /\ ~source[s][n].live /\ n \notin parentOwns
       /\ source' = [source EXCEPT ![s][n] = [live |-> live,
                       version |-> IF live THEN @.version + 1 ELSE @.version]]
       /\ parentOwns' = IF s = "parent" /\ how # "shell" THEN parentOwns \cup {n} ELSE parentOwns
       /\ parentSeeds' = IF how = "adopt" THEN parentSeeds \cup {n} ELSE parentSeeds
  /\ changes' = changes + 1
  /\ UNCHANGED <<memoryVars, diskVars, evidence, parentKind, crashes>>

\* The process dies, or the extension is reloaded: the disk is all that stays.
Crash ==
  /\ crashes < MaxCrashes /\ memo # "none"
  /\ crashes' = crashes + 1
  /\ memo' = "none"
  /\ pipe' = [c \in Callers |-> Idle]
  /\ caller' = [c \in Callers |-> "idle"]
  /\ UNCHANGED <<diskVars, parentVars, error>>

Initialise(c) ==
  \/ Restore(c) \/ ReadSources(c) \/ ResolveEnds(c) \/ Prepare(c) \/ Publish(c) \/ AppendBinding(c)
  \/ \E n \in Notes : AskParent(c, n) \/ AskGrand(c, n) \/ Stat(c, n)
                      \/ CopyBegins(c, n) \/ CopyEnds(c, n) \/ Verify(c, n)

Next ==
  \/ \E c \in Callers : Begin(c) \/ Join(c) \/ Initialise(c)
  \/ \E s \in Scopes, n \in Notes : SourceChanges(s, n)
  \/ Crash

\* File operations and promises settle, so an initialisation that has begun goes on.
Fairness == \A c \in Callers : WF_vars(Initialise(c))

Spec == Init /\ [][Next]_vars /\ Fairness

----------------------------------------------------------------------------
(* Properties. *)

\* What is on disk and in the session: the published scope, and every binding of the journal.
Bindings == {journal[i] : i \in DOMAIN journal}
            \cup (IF container = "own" THEN {published} ELSE {})

(* Whatever was interrupted, a scope in place and a binding in the session *)
(* are complete (note-snapshots.ts:187): every note the branch used is     *)
(* there, every one it cleared is there or owned without a file, each copy *)
(* is one version of its source, and seeds are never claimed without the   *)
(* published copies.                                                       *)
NeverPartial ==
  /\ \A b \in Bindings :
       /\ \A n \in Notes : evidence[n] = "used" => n \in DOMAIN b.seeds
       /\ \A n \in Notes : evidence[n] = "cleared" => n \in DOMAIN b.seeds \cup b.absent
       /\ \A n \in DOMAIN b.seeds : b.seeds[n].first = b.seeds[n].second
  /\ \A i \in DOMAIN journal :
       DOMAIN journal[i].seeds # {} => container = "own" /\ published = journal[i]

(* However many handlers ask, at once, after a failure or after a restart, *)
(* one initialisation runs at a time, and it binds the session once        *)
(* (note-store.ts:245).                                                    *)
BoundOnce ==
  /\ Len(journal) <= 1
  /\ \A c, d \in Callers : pipe[c].phase # "idle" /\ pipe[d].phase # "idle" => c = d
  /\ memo = "ready" => journal # <<>>

(* A copy comes from the scope the parent was forked from only if the      *)
(* parent had not taken the note over when the fork began: what the parent *)
(* deleted stays deleted (note-provenance.ts:138).                         *)
OwnedNeverFallsBack ==
  \A c \in Callers, n \in Notes : pipe[c].address[n] = "grand" => n \notin pipe[c].atStart

Failing == \E c \in Callers : pipe[c].phase # "idle" /\ pipe'[c].phase = "idle" /\ memo' = "none"
           /\ crashes' = crashes

(* A scope that an earlier process published and did not live to record is *)
(* taken over as it is: it is not changed, copied again or refused as      *)
(* unexpected data (note-snapshots.ts:147).                                *)
PublishedTakenOver ==
  [][container = "own" => /\ container' = "own" /\ published' = published
                          /\ Failing => error' = "source"]_vars

(* Resuming restores a scope that exists, whatever has become of its       *)
(* sources (docs/reference.md:166).                                        *)
ResumeRestores == [][container = "own" => ~Failing]_vars

(* Whoever asks for the notes gets them or an error (note-store.ts:270).   *)
EveryCallerAnswered == \A c \in Callers : caller[c] = "waiting" ~> caller[c] # "waiting"

=============================================================================
