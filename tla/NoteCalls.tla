----------------------------- MODULE NoteCalls -----------------------------
(***************************************************************************)
(* Calls of a forked session that read and change notes: the notes tool    *)
(* (src/src/notes.ts), the guard of file tools (note-guards.ts), adoption  *)
(* (note-store.ts, note-snapshots.ts) and the manifest of the scope.       *)
(*                                                                         *)
(* A note the fork does not own is a reference to a file of its source.    *)
(* An append, or an edit of the private path, first adopts it: copies the  *)
(* file, records the note as owned, and saves the copy in the manifest.    *)
(* Calls run concurrently; those that change a note take turns in the      *)
(* note's mutation queue, and adoptions take turns for the manifest.       *)
(* Other programs change the source and delete private files meanwhile,    *)
(* and Pi may die between any two steps.                                   *)
(*                                                                         *)
(* A version stands for what sameIdentity compares, as in NoteFork.  The   *)
(* text of a private file is what it has of the source, the versions its   *)
(* first and second half were copied from, and the calls that changed it.  *)
(***************************************************************************)
EXTENDS Naturals, Sequences

CONSTANTS
  Notes,        \* note paths
  Calls,        \* tool calls, each runs once
  NoNote,       \* the note of a call that has not started
  MaxChanges,   \* bound: changes of sources and deletions by other programs
  MaxCrashes    \* bound: deaths of the session's process

ASSUME NamesAssumption == NoNote \notin Notes
ASSUME BoundsAssumption == MaxChanges \in Nat /\ MaxCrashes \in Nat

VARIABLES
  call,         \* what each call does and how far it is
  queue,        \* mutation queue of each private path: calls in order, the head runs
  manifestQueue,\* mutation queue of the manifest's path
  owned,        \* notes recorded as owned, in the session's entries and in #owned
  file,         \* the private files
  manifest,     \* manifest.json: missing, created but "empty", or the scope's "own"
  seeds,        \* its seeds
  \* the outside (external)
  source,       \* the files referred to
  changes, crashes,
  \* history, for the properties only
  told,         \* notes a call has reported to be private
  saved         \* notes whose adoption has been reported complete

outsideVars == <<source, changes, crashes>>
historyVars == <<told, saved>>
vars == <<call, queue, manifestQueue, owned, file, manifest, seeds,
          source, changes, crashes, told, saved>>

NoFile == [live |-> FALSE, first |-> 0, second |-> 0, has |-> {}]
NoCall == [op |-> "none", note |-> NoNote, pc |-> "idle", goal |-> "apply",
           before |-> 0, adoption |-> "none", seen |-> {}, knew |-> {}, why |-> "none"]

CallRecord ==
  [op : {"none", "read", "append", "write", "edit"}, note : Notes \cup {NoNote},
   pc : {"idle", "queued", "refer", "stat", "copy", "copying", "verify", "ensure", "fill",
         "check", "seed", "publish", "apply", "record", "look", "resolve", "reference", "own",
         "blocked", "done", "failed"},
   goal : {"seed", "apply"}, before : Nat,
   adoption : {"none", "owned", "unavailable", "adopted"},
   seen : SUBSET Notes, knew : SUBSET Notes,
   why : {"none", "source", "exists", "changed", "manifest", "missing", "aborted"}]
FileRecord == [live : BOOLEAN, first : Nat, second : Nat, has : SUBSET Calls]

TypeOK ==
  /\ call \in [Calls -> CallRecord]
  /\ queue \in [Notes -> Seq(Calls)] /\ manifestQueue \in Seq(Calls)
  /\ owned \subseteq Notes
  /\ file \in [Notes -> FileRecord]
  /\ manifest \in {"none", "empty", "own"} /\ seeds \subseteq Notes
  /\ source \in [Notes -> [live : BOOLEAN, version : Nat]]
  /\ changes \in 0..MaxChanges /\ crashes \in 0..MaxCrashes
  /\ told \subseteq owned /\ saved \subseteq owned
  /\ \A n \in Notes : \A i, j \in 1..Len(queue[n]) : queue[n][i] = queue[n][j] => i = j

\* A fork with or without seeds: published seeds come with a manifest and with their files.
Init ==
  /\ call = [c \in Calls |-> NoCall]
  /\ queue = [n \in Notes |-> <<>>] /\ manifestQueue = <<>>
  /\ seeds \in SUBSET Notes
  /\ owned = seeds
  /\ file = [n \in Notes |-> IF n \in seeds THEN [NoFile EXCEPT !.live = TRUE] ELSE NoFile]
  /\ manifest = IF seeds = {} THEN "none" ELSE "own"
  /\ source \in [Notes -> {[live |-> TRUE, version |-> 1], [live |-> FALSE, version |-> 0]}]
  /\ changes = 0 /\ crashes = 0
  /\ told = seeds /\ saved = seeds

----------------------------------------------------------------------------
(* Queues and the ends of calls. *)

Note(c) == call[c].note
Waits(c) == queue[Note(c)] # <<>> /\ Head(queue[Note(c)]) = c
\* Mutant: saving an adoption does not wait for other adoptions.
ManifestTurnAny(c) == c \in {manifestQueue[i] : i \in 1..Len(manifestQueue)}

\* Mutant: saving an adoption queues the note's path once more.
ManifestTurnTwice(c) == manifestQueue # <<>> /\ Head(manifestQueue) = c /\ queue[Note(c)] = <<>>

ManifestTurn(c) == manifestQueue # <<>> /\ Head(manifestQueue) = c

\* Only the head of a queue runs, so only the head leaves it.
Without(q, c) == IF q # <<>> /\ Head(q) = c THEN Tail(q) ELSE q
LeaveQueues(c) ==
  /\ queue' = [queue EXCEPT ![Note(c)] = Without(@, c)]
  /\ manifestQueue' = Without(manifestQueue, c)

Go(c, changed) == call' = [call EXCEPT ![c] = changed]
To(c, pc) == Go(c, [call[c] EXCEPT !.pc = pc])

\* An error leaves whatever queue the call is in.
Throw(c, why) ==
  /\ Go(c, [call[c] EXCEPT !.pc = "failed", !.why = why])
  /\ LeaveQueues(c)

KeepQueues == UNCHANGED <<queue, manifestQueue>>
KeepScope  == UNCHANGED <<owned, file, manifest, seeds>>

\* The session's own note: recorded as such, or simply there.
\* Mutant: only files tell what is owned.
OwnsFile(n) == file[n].live

Owns(n) == n \in owned \/ file[n].live

----------------------------------------------------------------------------
(* Starting. *)

\* The guard of an edit looks at ownership before it waits for the note's queue.
Start(c) ==
  /\ call[c].pc = "idle"
  /\ \E op \in {"read", "append", "write", "edit"}, n \in Notes :
       LET direct == op = "read" \/ (op = "edit" /\ Owns(n)) IN
       /\ Go(c, [NoCall EXCEPT !.op = op, !.note = n, !.knew = told \cap {n},
                  !.pc = CASE op = "read" -> "look" [] direct /\ op # "read" -> "ensure"
                           [] OTHER -> "queued"])
       /\ queue' = IF direct THEN queue ELSE [queue EXCEPT ![n] = Append(@, c)]
  /\ UNCHANGED manifestQueue /\ KeepScope /\ UNCHANGED <<outsideVars, historyVars>>

----------------------------------------------------------------------------
(* Adoption, inside the note's queue. *)

\* After adoption an append goes on in the same admission; an edit leaves the queue, and is
\* blocked if there is a new copy to be read first.
AfterAdoption(c, outcome) ==
  IF call[c].op = "append"
  THEN /\ Go(c, [call[c] EXCEPT !.adoption = outcome, !.goal = "apply", !.pc = "ensure"])
       /\ UNCHANGED queue
  ELSE /\ Go(c, [call[c] EXCEPT !.adoption = outcome, !.goal = "apply",
                   !.pc = IF outcome = "adopted" THEN "blocked" ELSE "ensure"])
       /\ queue' = [queue EXCEPT ![Note(c)] = Without(@, c)]

Admit(c) ==
  /\ call[c].pc = "queued" /\ Waits(c)
  /\ \/ /\ call[c].op = "write"
        /\ To(c, "ensure") /\ UNCHANGED queue
     \/ /\ call[c].op # "write" /\ Owns(Note(c))
        /\ AfterAdoption(c, "owned")
     \/ /\ call[c].op # "write" /\ ~Owns(Note(c))
        /\ To(c, "refer") /\ UNCHANGED queue
  /\ UNCHANGED manifestQueue /\ KeepScope /\ UNCHANGED <<outsideVars, historyVars>>

Refer(c) ==
  /\ call[c].pc = "refer"
  /\ \/ /\ source[Note(c)].live
        /\ To(c, "stat") /\ UNCHANGED queue
     \/ /\ ~source[Note(c)].live
        /\ AfterAdoption(c, "unavailable")
  /\ UNCHANGED manifestQueue /\ KeepScope /\ UNCHANGED <<outsideVars, historyVars>>

Stat(c) ==
  /\ call[c].pc = "stat"
  /\ IF source[Note(c)].live
     THEN /\ Go(c, [call[c] EXCEPT !.pc = "copy", !.before = source[Note(c)].version])
          /\ KeepQueues
     ELSE Throw(c, "source")
  /\ KeepScope /\ UNCHANGED <<outsideVars, historyVars>>

\* COPYFILE_EXCL: the private path must still be free.
CopyBegins(c) ==
  /\ call[c].pc = "copy"
  /\ IF file[Note(c)].live \/ ~source[Note(c)].live
     THEN /\ Throw(c, IF file[Note(c)].live THEN "exists" ELSE "source")
          /\ UNCHANGED file
     ELSE /\ To(c, "copying") /\ KeepQueues
          /\ file' = [file EXCEPT ![Note(c)] =
                        [NoFile EXCEPT !.live = TRUE, !.first = source[Note(c)].version]]
  /\ UNCHANGED <<owned, manifest, seeds, outsideVars, historyVars>>

\* An edit in place shows in what is still to be read; a replacement leaves the open file alone.
CopyEnds(c) ==
  /\ call[c].pc = "copying"
  /\ \E v \in {file[Note(c)].first, source[Note(c)].version} :
       file' = IF file[Note(c)].live THEN [file EXCEPT ![Note(c)].second = v] ELSE file
  /\ To(c, "verify") /\ KeepQueues
  /\ UNCHANGED <<owned, manifest, seeds, outsideVars, historyVars>>

\* Mutant: the source is not compared after the copy.
VerifiedAlways(c) == TRUE

\* The copy is there, and sameIdentity of the source before and after.
Verified(c) == /\ file[Note(c)].live /\ source[Note(c)].live
               /\ source[Note(c)].version = call[c].before

\* Mutant: only a verified copy is recorded.
RecordCopyVerified(c) == owned' = IF Verified(c) THEN owned \cup {Note(c)} ELSE owned

\* The copy is recorded as owned whether or not it could be verified.
RecordCopy(c) == owned' = owned \cup {Note(c)}

Verify(c) ==
  /\ call[c].pc = "verify"
  /\ RecordCopy(c)
  /\ IF Verified(c)
     THEN /\ Go(c, [call[c] EXCEPT !.pc = "ensure", !.goal = "seed"])
          /\ manifestQueue' = Append(manifestQueue, c)
          /\ UNCHANGED <<queue, told>>
     ELSE /\ Throw(c, "changed")
          /\ told' = told \cup {Note(c)}
  /\ UNCHANGED <<file, manifest, seeds, saved, outsideVars>>

----------------------------------------------------------------------------
(* The manifest. *)

MayEnsure(c) == call[c].goal = "apply" \/ ManifestTurn(c)

\* Exclusive creation: whoever finds no manifest creates one, which is empty at first.
EnsureOpens(c) ==
  /\ call[c].pc = "ensure" /\ MayEnsure(c)
  /\ To(c, IF manifest = "none" THEN "fill" ELSE "check")
  /\ manifest' = IF manifest = "none" THEN "empty" ELSE manifest
  /\ KeepQueues /\ UNCHANGED <<owned, file, seeds, outsideVars, historyVars>>

EnsureFills(c) ==
  /\ call[c].pc = "fill"
  /\ manifest' = "own"
  /\ To(c, call[c].goal)
  /\ KeepQueues /\ UNCHANGED <<owned, file, seeds, outsideVars, historyVars>>

\* A manifest that does not parse as this owner's is not touched.
EnsureChecks(c) ==
  /\ call[c].pc = "check"
  /\ IF manifest = "own" THEN To(c, call[c].goal) /\ KeepQueues /\ UNCHANGED told
     ELSE /\ Throw(c, "manifest")
          /\ told' = IF call[c].goal = "seed" THEN told \cup {Note(c)} ELSE told
  /\ KeepScope /\ UNCHANGED <<outsideVars, saved>>

SeedRead(c) ==
  /\ call[c].pc = "seed"
  /\ Go(c, [call[c] EXCEPT !.pc = "publish", !.seen = seeds])
  /\ KeepQueues /\ KeepScope /\ UNCHANGED <<outsideVars, historyVars>>

SeedPublish(c) ==
  /\ call[c].pc = "publish"
  /\ seeds' = call[c].seen \cup {Note(c)}
  /\ manifestQueue' = Without(manifestQueue, c)
  /\ AfterAdoption(c, "adopted")
  /\ told' = told \cup {Note(c)} /\ saved' = saved \cup {Note(c)}
  /\ UNCHANGED <<owned, file, manifest, outsideVars>>

----------------------------------------------------------------------------
(* Effects. *)

\* One synchronous step: what is there is read, the record appended, the call recorded.
AppendApplies(c) ==
  /\ call[c].op = "append" /\ call[c].pc = "apply"
  /\ file' = [file EXCEPT ![Note(c)].live = TRUE, ![Note(c)].has = @ \cup {c}]
  /\ owned' = owned \cup {Note(c)} /\ told' = told \cup {Note(c)}
  /\ To(c, "done") /\ LeaveQueues(c)
  /\ UNCHANGED <<manifest, seeds, saved, outsideVars>>

\* The replacement is renamed into its place, and recorded a moment later.
WritePublishes(c) ==
  /\ call[c].op = "write" /\ call[c].pc = "apply"
  /\ file' = [file EXCEPT ![Note(c)] = [NoFile EXCEPT !.live = TRUE, !.has = {c}]]
  /\ To(c, "record") /\ KeepQueues
  /\ UNCHANGED <<owned, manifest, seeds, outsideVars, historyVars>>

\* The tool that was guarded takes its own turn on the file, and may also delete it.
EditRuns(c) ==
  /\ call[c].op = "edit" /\ call[c].pc = "apply" /\ queue[Note(c)] = <<>>
  /\ \/ /\ ~file[Note(c)].live
        /\ Throw(c, "missing") /\ UNCHANGED file
     \/ /\ file[Note(c)].live
        /\ To(c, "record") /\ KeepQueues
        /\ \/ file' = [file EXCEPT ![Note(c)] = NoFile]
           \/ file' = [file EXCEPT ![Note(c)].has = @ \cup {c}]
  /\ UNCHANGED <<owned, manifest, seeds, outsideVars, historyVars>>

Record(c) ==
  /\ call[c].pc = "record"
  /\ owned' = owned \cup {Note(c)} /\ told' = told \cup {Note(c)}
  /\ To(c, "done") /\ LeaveQueues(c)
  /\ UNCHANGED <<file, manifest, seeds, saved, outsideVars>>

\* A cancelled call stops where it looks at its signal: an append at its turn and after
\* adoption, a write before its replacement is published.
Cancel(c) ==
  /\ \/ call[c].op = "append" /\ call[c].pc = "queued" /\ Waits(c)
     \/ call[c].op = "append" /\ call[c].pc = "ensure" /\ call[c].goal = "apply"
     \/ call[c].op = "write" /\ call[c].pc = "apply"
  /\ Throw(c, "aborted")
  /\ KeepScope /\ UNCHANGED <<outsideVars, historyVars>>

----------------------------------------------------------------------------
(* Reading. *)

ReadLooks(c) ==
  /\ call[c].pc = "look"
  /\ To(c, IF Owns(Note(c)) THEN "own" ELSE "resolve")
  /\ KeepQueues /\ KeepScope /\ UNCHANGED <<outsideVars, historyVars>>

ReadResolves(c) ==
  /\ call[c].pc = "resolve"
  /\ To(c, IF source[Note(c)].live THEN "reference" ELSE "own")
  /\ KeepQueues /\ KeepScope /\ UNCHANGED <<outsideVars, historyVars>>

----------------------------------------------------------------------------
(* The rest of the world. *)

\* The source's session, or another program, writes or removes a source file.
SourceChanges(n) ==
  /\ changes < MaxChanges /\ changes' = changes + 1
  /\ \/ source' = [source EXCEPT ![n].live = TRUE, ![n].version = @ + 1]
     \/ source[n].live /\ source' = [source EXCEPT ![n].live = FALSE]
  /\ UNCHANGED <<call, queue, manifestQueue, owned, file, manifest, seeds, crashes, historyVars>>

\* Another program deletes a private file; nothing records that.
PrivateRemoved(n) ==
  /\ changes < MaxChanges /\ changes' = changes + 1
  /\ file[n].live /\ file' = [file EXCEPT ![n] = NoFile]
  /\ UNCHANGED <<call, queue, manifestQueue, owned, manifest, seeds, source, crashes, historyVars>>

Ended(c) == call[c].pc \in {"done", "failed", "blocked", "own", "reference"}
Running(c) == call[c].pc # "idle" /\ ~Ended(c)

\* The process dies: files and session entries stay.
Crash ==
  /\ crashes < MaxCrashes /\ crashes' = crashes + 1
  /\ \E c \in Calls : Running(c)
  /\ call' = [c \in Calls |-> IF Running(c) THEN [NoCall EXCEPT !.pc = "failed"] ELSE call[c]]
  /\ queue' = [n \in Notes |-> <<>>] /\ manifestQueue' = <<>>
  /\ KeepScope /\ UNCHANGED <<source, changes, historyVars>>

Step(c) ==
  \/ Admit(c) \/ Refer(c) \/ Stat(c) \/ CopyBegins(c) \/ CopyEnds(c) \/ Verify(c)
  \/ EnsureOpens(c) \/ EnsureFills(c) \/ EnsureChecks(c) \/ SeedRead(c) \/ SeedPublish(c)
  \/ AppendApplies(c) \/ WritePublishes(c) \/ EditRuns(c) \/ Record(c)
  \/ ReadLooks(c) \/ ReadResolves(c)

Next ==
  \/ \E c \in Calls : Start(c) \/ Step(c) \/ Cancel(c)
  \/ \E n \in Notes : SourceChanges(n) \/ PrivateRemoved(n)
  \/ Crash

\* A started call's file operations complete, and it goes on when they have.
Fairness == \A c \in Calls : WF_vars(Step(c))

Spec == Init /\ [][Next]_vars /\ Fairness
----------------------------------------------------------------------------
(* Properties. *)

(* A note that a call has reported to be private is never read from the    *)
(* source again, though its file be deleted, its copy have failed its      *)
(* check, or the process have died since (docs/reference.md:172, 204).     *)
NoFallback == \A c \in Calls : call[c].pc = "reference" => call[c].knew = {}

(* An append that adopts its note leaves a whole version of the source and *)
(* its own record, nothing else: no other call came between the copy and   *)
(* the append (docs/reference.md:200).  If another program has deleted the *)
(* copy in between there is nothing to preserve.                           *)
AppendKeepsPrefix ==
  [][\A c \in Calls :
       AppendApplies(c) /\ call[c].adoption = "adopted" /\ file[Note(c)].live
       => LET f == file'[Note(c)] IN f.first = f.second /\ f.first = call[c].before
                                     /\ f.has = {c}]_vars

(* An append preserves what was inherited (docs/reference.md:200), also if *)
(* an earlier adoption of the note has got no further than its copy.       *)
InheritedPrefixWhole ==
  [][\A c \in Calls :
       AppendApplies(c) /\ file[Note(c)].live /\ Note(c) \notin told
       => file'[Note(c)].first = file'[Note(c)].second]_vars

(* A complete adoption is in the manifest for good, whatever other         *)
(* adoptions and first writes do to it at the same time                    *)
(* (note-snapshots.ts:233).                                                *)
AdoptionsSaved == saved \subseteq seeds /\ (saved # {} => manifest = "own")

(* The scope of a fork is its own to write (docs/reference.md:145): no     *)
(* call is refused because of the manifest that the fork's own calls make. *)
ScopeWritable == \A c \in Calls : call[c].why # "manifest"

(* Every call that starts ends: no queue waits for itself or for another.  *)
(* (note-snapshots.ts:204)                                                 *)
EveryCallEnds == \A c \in Calls : Running(c) ~> ~Running(c)
=============================================================================
