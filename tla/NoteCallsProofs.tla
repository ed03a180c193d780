-------------------------- MODULE NoteCallsProofs --------------------------
(***************************************************************************)
(* Proofs about NoteCalls for any notes, calls, and numbers of changes and *)
(* crashes.                                                                *)
(***************************************************************************)
EXTENDS NoteCalls, TLAPS

----------------------------------------------------------------------------
(* Queues. *)

Distinct(q) == \A i, j \in 1..Len(q) : q[i] = q[j] => i = j
Queued(q, c) == \E i \in 1..Len(q) : q[i] = c
IsHead(q, c) == q # <<>> /\ Head(q) = c

\* A call that leaves a queue takes no other call's turn.
LEMMA WithoutFacts ==
  ASSUME NEW S, NEW q \in Seq(S), NEW c
  PROVE  /\ Without(q, c) \in Seq(S)
         /\ \A d : Queued(Without(q, c), d) => Queued(q, d)
         /\ \A d : d # c /\ IsHead(q, d) => IsHead(Without(q, c), d)
         /\ Distinct(q) => Distinct(Without(q, c))
<1>1. CASE IsHead(q, c)
  <2>1. Without(q, c) = Tail(q) /\ q # <<>>
    BY <1>1 DEF Without, IsHead
  <2>2. /\ Tail(q) \in Seq(S) /\ Len(q) \in Nat /\ Len(Tail(q)) = Len(q) - 1 /\ Len(q) > 0
        /\ \A i \in 1..Len(Tail(q)) : Tail(q)[i] = q[i + 1] /\ i + 1 \in 1..Len(q)
    BY <2>1
  <2>3. \A d : Queued(Tail(q), d) => Queued(q, d)
    BY <2>2 DEF Queued
  <2>4. Distinct(q) => Distinct(Tail(q))
    <3> SUFFICES ASSUME Distinct(q), NEW i \in 1..Len(Tail(q)), NEW j \in 1..Len(Tail(q)),
                        Tail(q)[i] = Tail(q)[j]
                 PROVE  i = j
      BY DEF Distinct
    <3>1. q[i + 1] = q[j + 1] /\ i + 1 \in 1..Len(q) /\ j + 1 \in 1..Len(q)
      BY <2>2
    <3>2. i + 1 = j + 1
      BY <3>1 DEF Distinct
    <3> QED BY <3>2, <2>2
  <2>5. \A d : d # c /\ IsHead(q, d) => FALSE
    BY <1>1 DEF IsHead
  <2> QED BY <2>1, <2>2, <2>3, <2>4, <2>5
<1>2. CASE ~IsHead(q, c)
  BY <1>2 DEF Without, IsHead
<1> QED BY <1>1, <1>2

LEMMA AppendFacts ==
  ASSUME NEW S, NEW q \in Seq(S), NEW c \in S
  PROVE  /\ Append(q, c) \in Seq(S)
         /\ \A d : Queued(Append(q, c), d) => Queued(q, d) \/ d = c
         /\ \A d : IsHead(q, d) => IsHead(Append(q, c), d)
         /\ Distinct(q) /\ ~Queued(q, c) => Distinct(Append(q, c))
<1>1. /\ Append(q, c) \in Seq(S) /\ Len(q) \in Nat /\ Len(Append(q, c)) = Len(q) + 1
      /\ \A i \in 1..Len(q) : Append(q, c)[i] = q[i]
      /\ Append(q, c)[Len(q) + 1] = c
  OBVIOUS
<1>2. \A d : Queued(Append(q, c), d) => Queued(q, d) \/ d = c
  BY <1>1 DEF Queued
<1>3. \A d : IsHead(q, d) => IsHead(Append(q, c), d)
  BY <1>1 DEF IsHead
<1>4. ASSUME Distinct(q), ~Queued(q, c) PROVE Distinct(Append(q, c))
  BY <1>1, <1>4 DEF Distinct, Queued
<1> QED BY <1>1, <1>2, <1>3, <1>4

----------------------------------------------------------------------------
(* Where calls are, and what is owned. *)

\* A call in a queue has started, on the note of that queue.
Places ==
  /\ \A c \in Calls : call[c].pc \notin {"idle", "failed"} => call[c].note \in Notes
  /\ \A n \in Notes, c \in Calls :
       Queued(queue[n], c) => call[c].note = n /\ call[c].pc # "idle"

\* What a call knows to be private is owned, and so is a copy that it saves.
KnownOwned ==
  \A c \in Calls :
    /\ call[c].knew \subseteq owned \cap {call[c].note}
    /\ call[c].goal = "seed" => call[c].note \in owned
    /\ call[c].pc \in {"seed", "publish"} => call[c].goal = "seed"

Base == TypeOK /\ Places /\ KnownOwned

\* A started call goes on, and may leave its note's queue.
Moves(c) ==
  /\ call[c].pc \notin {"idle", "failed"}
  /\ call'[c] \in CallRecord /\ call' = [call EXCEPT ![c] = call'[c]]
  /\ call'[c].note = call[c].note /\ call'[c].pc # "idle" /\ call'[c].knew = call[c].knew
  /\ \/ queue' = queue
     \/ queue' = [queue EXCEPT ![Note(c)] = Without(@, c)]

Steps(c) == Step(c) \/ Cancel(c)

Live(c) == call[c].pc \notin {"idle", "failed"}

LEMMA GoMoves ==
  ASSUME TypeOK, NEW c \in Calls, Live(c), NEW r \in CallRecord, Go(c, r),
         r.note = call[c].note, r.pc # "idle", r.knew = call[c].knew,
         \/ queue' = queue
         \/ queue' = [queue EXCEPT ![Note(c)] = Without(@, c)]
  PROVE  Moves(c)
<1>1. call' = [call EXCEPT ![c] = r] /\ call'[c] = r
  BY DEF Go, TypeOK
<1> QED BY <1>1 DEF Moves, Live

LEMMA ToMoves ==
  ASSUME TypeOK, NEW c \in Calls, Live(c), NEW pc, To(c, pc), pc # "idle",
         [call[c] EXCEPT !.pc = pc] \in CallRecord, queue' = queue
  PROVE  Moves(c)
<1> DEFINE r == [call[c] EXCEPT !.pc = pc]
<1>1. call[c] \in CallRecord
  BY DEF TypeOK
<1>2. Go(c, r) /\ r.note = call[c].note /\ r.pc # "idle" /\ r.knew = call[c].knew
  BY <1>1 DEF To, CallRecord
<1> QED BY <1>2, GoMoves

LEMMA ThrowMoves ==
  ASSUME TypeOK, NEW c \in Calls, Live(c), NEW why, Throw(c, why),
         why \in {"source", "exists", "changed", "manifest", "missing", "aborted"}
  PROVE  Moves(c)
<1> DEFINE r == [call[c] EXCEPT !.pc = "failed", !.why = why]
<1>1. call[c] \in CallRecord
  BY DEF TypeOK
<1>2. Go(c, r) /\ queue' = [queue EXCEPT ![Note(c)] = Without(@, c)]
  BY DEF Throw, LeaveQueues
<1>3. r \in CallRecord
  BY <1>1 DEF CallRecord
<1>4. r.note = call[c].note /\ r.pc # "idle" /\ r.knew = call[c].knew
  BY <1>1 DEF CallRecord
<1> QED BY <1>2, <1>3, <1>4, GoMoves

LEMMA AdoptionMoves ==
  ASSUME TypeOK, NEW c \in Calls, Live(c), NEW outcome, AfterAdoption(c, outcome),
         outcome \in {"owned", "unavailable", "adopted"}
  PROVE  Moves(c)
<1>1. call[c] \in CallRecord
  BY DEF TypeOK
<1>2. CASE call[c].op = "append"
  <2> DEFINE r == [call[c] EXCEPT !.adoption = outcome, !.goal = "apply", !.pc = "ensure"]
  <2>1. Go(c, r) /\ queue' = queue
    BY <1>2 DEF AfterAdoption
  <2>2. r \in CallRecord /\ r.note = call[c].note /\ r.pc # "idle" /\ r.knew = call[c].knew
    BY <1>1 DEF CallRecord
  <2> QED BY <2>1, <2>2, GoMoves
<1>3. CASE call[c].op # "append"
  <2> DEFINE r == [call[c] EXCEPT !.adoption = outcome, !.goal = "apply",
                     !.pc = IF outcome = "adopted" THEN "blocked" ELSE "ensure"]
  <2>1. Go(c, r) /\ queue' = [queue EXCEPT ![Note(c)] = Without(@, c)]
    BY <1>3 DEF AfterAdoption
  <2>2. r \in CallRecord /\ r.note = call[c].note /\ r.pc # "idle" /\ r.knew = call[c].knew
    BY <1>1 DEF CallRecord
  <2> QED BY <2>1, <2>2, GoMoves
<1> QED BY <1>2, <1>3

LEMMA StepMoves ==
  ASSUME TypeOK, Places, NEW c \in Calls, Steps(c)
  PROVE  Moves(c)
<1>0. call[c] \in CallRecord
  BY DEF TypeOK
<1>1. CASE Admit(c)
  <2>1. Live(c)
    BY <1>1 DEF Admit, Live
  <2>2. CASE To(c, "ensure") /\ queue' = queue
    BY <1>0, <2>1, <2>2, ToMoves DEF CallRecord
  <2>3. CASE To(c, "refer") /\ queue' = queue
    BY <1>0, <2>1, <2>3, ToMoves DEF CallRecord
  <2>4. CASE AfterAdoption(c, "owned")
    BY <2>1, <2>4, AdoptionMoves
  <2> QED BY <1>1, <2>2, <2>3, <2>4 DEF Admit
<1>2. CASE Refer(c)
  <2>1. Live(c)
    BY <1>2 DEF Refer, Live
  <2>2. CASE To(c, "stat") /\ queue' = queue
    BY <1>0, <2>1, <2>2, ToMoves DEF CallRecord
  <2>3. CASE AfterAdoption(c, "unavailable")
    BY <2>1, <2>3, AdoptionMoves
  <2> QED BY <1>2, <2>2, <2>3 DEF Refer
<1>3. CASE Stat(c)
  <2>0. Note(c) \in Notes
    BY <1>3 DEF Stat, Places, Note
  <2>1. Live(c)
    BY <1>3 DEF Stat, Live
  <2> DEFINE r == [call[c] EXCEPT !.pc = "copy", !.before = source[Note(c)].version]
  <2>2. CASE Throw(c, "source")
    BY <2>1, <2>2, ThrowMoves
  <2>3. CASE Go(c, r) /\ queue' = queue
    <3>1. source[Note(c)].version \in Nat
      BY <2>0 DEF TypeOK
    <3>2. r \in CallRecord /\ r.note = call[c].note /\ r.pc # "idle" /\ r.knew = call[c].knew
      BY <1>0, <3>1 DEF CallRecord
    <3> QED BY <2>1, <2>3, <3>2, GoMoves
  <2> QED BY <1>3, <2>2, <2>3 DEF Stat, KeepQueues
<1>4. CASE CopyBegins(c)
  <2>1. Live(c)
    BY <1>4 DEF CopyBegins, Live
  <2>2. CASE Throw(c, "exists") \/ Throw(c, "source")
    BY <2>1, <2>2, ThrowMoves
  <2>3. CASE To(c, "copying") /\ queue' = queue
    BY <1>0, <2>1, <2>3, ToMoves DEF CallRecord
  <2> QED BY <1>4, <2>2, <2>3 DEF CopyBegins, KeepQueues
<1>5. CASE CopyEnds(c)
  BY <1>0, <1>5 DEF TypeOK, Moves, CopyEnds, Go, To, LeaveQueues, KeepQueues, CallRecord
<1>6. CASE Verify(c)
  <2>1. Live(c)
    BY <1>6 DEF Verify, Live
  <2> DEFINE r == [call[c] EXCEPT !.pc = "ensure", !.goal = "seed"]
  <2>2. CASE Throw(c, "changed")
    BY <2>1, <2>2, ThrowMoves
  <2>3. CASE Go(c, r) /\ queue' = queue
    <3>1. r \in CallRecord /\ r.note = call[c].note /\ r.pc # "idle" /\ r.knew = call[c].knew
      BY <1>0 DEF CallRecord
    <3> QED BY <2>1, <2>3, <3>1, GoMoves
  <2> QED BY <1>6, <2>2, <2>3 DEF Verify
<1>7. CASE EnsureOpens(c)
  BY <1>0, <1>7 DEF TypeOK, Moves, EnsureOpens, Go, To, LeaveQueues, KeepQueues, CallRecord
<1>8. CASE EnsureFills(c)
  BY <1>0, <1>8 DEF TypeOK, Moves, EnsureFills, Go, To, LeaveQueues, KeepQueues, CallRecord
<1>9. CASE EnsureChecks(c)
  <2>1. Live(c)
    BY <1>9 DEF EnsureChecks, Live
  <2>2. CASE Throw(c, "manifest")
    BY <2>1, <2>2, ThrowMoves
  <2>3. CASE To(c, call[c].goal) /\ queue' = queue
    BY <1>0, <2>1, <2>3, ToMoves DEF CallRecord
  <2> QED BY <1>9, <2>2, <2>3 DEF EnsureChecks, KeepQueues
<1>10. CASE SeedRead(c)
  BY <1>0, <1>10 DEF TypeOK, Moves, SeedRead, Go, To, LeaveQueues, KeepQueues, CallRecord
<1>11. CASE SeedPublish(c)
  <2>1. Live(c)
    BY <1>11 DEF SeedPublish, Live
  <2> QED BY <1>11, <2>1, AdoptionMoves DEF SeedPublish
<1>12. CASE AppendApplies(c)
  BY <1>0, <1>12 DEF TypeOK, Moves, AppendApplies, Go, To, LeaveQueues, KeepQueues, CallRecord
<1>13. CASE WritePublishes(c)
  BY <1>0, <1>13 DEF TypeOK, Moves, WritePublishes, Go, To, LeaveQueues, KeepQueues, CallRecord
<1>14. CASE EditRuns(c)
  <2>1. Live(c)
    BY <1>14 DEF EditRuns, Live
  <2>2. CASE Throw(c, "missing")
    BY <2>1, <2>2, ThrowMoves
  <2>3. CASE To(c, "record") /\ queue' = queue
    BY <1>0, <2>1, <2>3, ToMoves DEF CallRecord
  <2> QED BY <1>14, <2>2, <2>3 DEF EditRuns, KeepQueues
<1>15. CASE Record(c)
  BY <1>0, <1>15 DEF TypeOK, Moves, Record, Go, To, LeaveQueues, KeepQueues, CallRecord
<1>16. CASE ReadLooks(c)
  BY <1>0, <1>16 DEF TypeOK, Moves, ReadLooks, Go, To, LeaveQueues, KeepQueues, CallRecord
<1>17. CASE ReadResolves(c)
  BY <1>0, <1>17 DEF TypeOK, Moves, ReadResolves, Go, To, LeaveQueues, KeepQueues, CallRecord
<1>18. CASE Cancel(c)
  <2>1. Live(c)
    BY <1>18 DEF Cancel, Live
  <2> QED BY <1>18, <2>1, ThrowMoves DEF Cancel
<1> QED BY <1>1, <1>2, <1>3, <1>4, <1>5, <1>6, <1>7, <1>8, <1>9,
           <1>10, <1>11, <1>12, <1>13, <1>14, <1>15, <1>16, <1>17, <1>18 DEF Steps, Step

LEMMA MovesKeepPlaces ==
  ASSUME TypeOK, Places, NEW c \in Calls, Moves(c)
  PROVE  /\ call' \in [Calls -> CallRecord] /\ queue' \in [Notes -> Seq(Calls)]
         /\ \A n \in Notes : Distinct(queue'[n])
         /\ Places'
<1>1. /\ call' \in [Calls -> CallRecord]
      /\ \A d \in Calls : d # c => call'[d] = call[d]
  BY DEF Moves, TypeOK
<1>2. Note(c) \in Notes
  BY DEF Places, Moves, Note
<1>3. \A n \in Notes : queue[n] \in Seq(Calls) /\ Distinct(queue[n])
  BY DEF TypeOK, Distinct
<1>4. \A n \in Notes : queue'[n] = queue[n] \/ queue'[n] = Without(queue[n], c)
  BY <1>2 DEF Moves, TypeOK
<1>5. /\ queue' \in [Notes -> Seq(Calls)]
      /\ \A n \in Notes : /\ Distinct(queue'[n])
                          /\ \A d : Queued(queue'[n], d) => Queued(queue[n], d)
  <2>1. \A n \in Notes : /\ queue'[n] \in Seq(Calls) /\ Distinct(queue'[n])
                         /\ \A d : Queued(queue'[n], d) => Queued(queue[n], d)
    BY <1>3, <1>4, WithoutFacts
  <2>2. queue' = [n \in Notes |-> queue'[n]]
    BY <1>2 DEF Moves, TypeOK
  <2> QED BY <2>1, <2>2
<1>6. Places'
  BY <1>1, <1>2, <1>5 DEF Places, Moves, Note
<1> QED BY <1>1, <1>5, <1>6

\* What becomes of the fields of a call that goes to pc, throws, or has adopted.
Keeps(c) == /\ call'[c].op = call[c].op /\ call'[c].before = call[c].before
            /\ call'[c].seen = call[c].seen

LEMMA ToFields ==
  ASSUME TypeOK, NEW c \in Calls, NEW pc, To(c, pc)
  PROVE  /\ Keeps(c) /\ call'[c].pc = pc /\ call'[c].goal = call[c].goal
         /\ call'[c].adoption = call[c].adoption
<1>1. call[c] \in CallRecord /\ call'[c] = [call[c] EXCEPT !.pc = pc]
  BY DEF TypeOK, To, Go
<1> QED BY <1>1 DEF CallRecord, Keeps

LEMMA ThrowFields ==
  ASSUME TypeOK, NEW c \in Calls, NEW why, Throw(c, why)
  PROVE  /\ Keeps(c) /\ call'[c].pc = "failed" /\ call'[c].goal = call[c].goal
         /\ manifestQueue' = Without(manifestQueue, c)
<1>1. call[c] \in CallRecord /\ call'[c] = [call[c] EXCEPT !.pc = "failed", !.why = why]
  BY DEF TypeOK, Throw, Go
<1> QED BY <1>1 DEF CallRecord, Keeps, Throw, LeaveQueues

LEMMA AdoptionFields ==
  ASSUME TypeOK, NEW c \in Calls, NEW outcome, AfterAdoption(c, outcome)
  PROVE  /\ Keeps(c) /\ call'[c].goal = "apply" /\ call'[c].adoption = outcome
         /\ call'[c].pc \in {"ensure", "blocked"}
         /\ call[c].op = "append" => queue' = queue
         /\ call[c].op # "append" /\ outcome = "adopted" => call'[c].pc = "blocked"
<1>1. call[c] \in CallRecord
  BY DEF TypeOK
<1>2. CASE call[c].op = "append"
  <2>1. /\ call'[c] = [call[c] EXCEPT !.adoption = outcome, !.goal = "apply", !.pc = "ensure"]
        /\ queue' = queue
    BY <1>2 DEF TypeOK, AfterAdoption, Go
  <2> QED BY <1>1, <1>2, <2>1 DEF CallRecord, Keeps
<1>3. CASE call[c].op # "append"
  <2>1. call'[c] = [call[c] EXCEPT !.adoption = outcome, !.goal = "apply",
                      !.pc = IF outcome = "adopted" THEN "blocked" ELSE "ensure"]
    BY <1>3 DEF TypeOK, AfterAdoption, Go
  <2> QED BY <1>1, <1>3, <2>1 DEF CallRecord, Keeps
<1> QED BY <1>2, <1>3

\* The other fields that a step sets.
LEMMA StatFields ==
  ASSUME TypeOK, NEW c \in Calls,
         Go(c, [call[c] EXCEPT !.pc = "copy", !.before = source[Note(c)].version])
  PROVE  /\ call'[c].pc = "copy" /\ call'[c].goal = call[c].goal /\ call'[c].op = call[c].op
         /\ call'[c].before = source[Note(c)].version /\ call'[c].adoption = call[c].adoption
<1>1. /\ call[c] \in CallRecord
      /\ call'[c] = [call[c] EXCEPT !.pc = "copy", !.before = source[Note(c)].version]
  BY DEF TypeOK, Go
<1> QED BY <1>1 DEF CallRecord

LEMMA VerifyFields ==
  ASSUME TypeOK, NEW c \in Calls, Go(c, [call[c] EXCEPT !.pc = "ensure", !.goal = "seed"])
  PROVE  /\ Keeps(c) /\ call'[c].pc = "ensure" /\ call'[c].goal = "seed"
         /\ call'[c].adoption = call[c].adoption
<1>1. /\ call[c] \in CallRecord
      /\ call'[c] = [call[c] EXCEPT !.pc = "ensure", !.goal = "seed"]
  BY DEF TypeOK, Go
<1> QED BY <1>1 DEF CallRecord, Keeps

LEMMA SeedReadFields ==
  ASSUME TypeOK, NEW c \in Calls, Go(c, [call[c] EXCEPT !.pc = "publish", !.seen = seeds])
  PROVE  /\ call'[c].op = call[c].op /\ call'[c].before = call[c].before
         /\ call'[c].pc = "publish" /\ call'[c].goal = call[c].goal /\ call'[c].seen = seeds
         /\ call'[c].adoption = call[c].adoption
<1>1. /\ call[c] \in CallRecord
      /\ call'[c] = [call[c] EXCEPT !.pc = "publish", !.seen = seeds]
  BY DEF TypeOK, Go
<1> QED BY <1>1 DEF CallRecord

\* What a step does to a call as such, beside Moves.
Scoped(c) ==
  /\ manifestQueue' \in Seq(Calls) /\ file' \in [Notes -> FileRecord]
  /\ owned \subseteq owned' /\ owned' \subseteq Notes
  /\ manifest' \in {"none", "empty", "own"} /\ seeds' \subseteq Notes
  /\ told' \subseteq owned' /\ saved' \subseteq owned'
  /\ UNCHANGED outsideVars
  /\ call'[c].goal = "seed" => call[c].note \in owned'
  /\ call'[c].pc \in {"seed", "publish"} => call'[c].goal = "seed"
  /\ call'[c].pc \in {"resolve", "reference"} => ReadLooks(c) \/ ReadResolves(c)

LEMMA StepScoped ==
  ASSUME Base, NEW c \in Calls, Steps(c), Moves(c)
  PROVE  Scoped(c)
<1>0. /\ call[c] \in CallRecord /\ call[c].note \in Notes /\ Note(c) = call[c].note
      /\ manifestQueue \in Seq(Calls) /\ Without(manifestQueue, c) \in Seq(Calls)
      /\ Append(manifestQueue, c) \in Seq(Calls)
      /\ file \in [Notes -> FileRecord] /\ source \in [Notes -> [live : BOOLEAN, version : Nat]]
      /\ owned \subseteq Notes /\ seeds \subseteq Notes /\ manifest \in {"none", "empty", "own"}
      /\ told \subseteq owned /\ saved \subseteq owned
      /\ call[c].goal = "seed" => call[c].note \in owned
      /\ call[c].pc \in {"seed", "publish"} => call[c].goal = "seed"
      /\ call[c].seen \subseteq Notes
  <2>1. /\ call[c] \in CallRecord /\ call[c].note \in Notes /\ manifestQueue \in Seq(Calls)
    BY DEF Base, TypeOK, Places, Moves
  <2> QED BY <2>1, WithoutFacts, AppendFacts DEF Base, TypeOK, KnownOwned, Note, CallRecord
<1>ok. TypeOK
  BY DEF Base
<1> USE DEF Scoped, KeepQueues, KeepScope, outsideVars, historyVars
<1>1. CASE Admit(c)
  BY <1>0, <1>ok, <1>1, ToFields, AdoptionFields DEF Admit
<1>2. CASE Refer(c)
  BY <1>0, <1>ok, <1>2, ToFields, AdoptionFields DEF Refer
<1>3. CASE Stat(c)
  BY <1>0, <1>ok, <1>3, StatFields, ThrowFields DEF Stat
<1>4. CASE CopyBegins(c)
  <2>1. source[Note(c)].version \in Nat
    BY <1>0
  <2> DEFINE f == [NoFile EXCEPT !.live = TRUE, !.first = source[Note(c)].version]
  <2>2. f \in FileRecord
    BY <2>1 DEF NoFile, FileRecord
  <2>3. file' = [file EXCEPT ![Note(c)] = f] \/ file' = file
    BY <1>4 DEF CopyBegins
  <2>4. file' \in [Notes -> FileRecord]
    BY <1>0, <2>2, <2>3
  <2> HIDE DEF f
  <2> QED BY <1>0, <1>ok, <1>4, <2>4, ToFields, ThrowFields DEF CopyBegins
<1>5. CASE CopyEnds(c)
  <2>1. PICK v \in Nat : file' = [file EXCEPT ![Note(c)].second = v] \/ file' = file
    <3>1. file[Note(c)].first \in Nat /\ source[Note(c)].version \in Nat
      BY <1>0 DEF FileRecord
    <3> QED BY <3>1, <1>5 DEF CopyEnds
  <2>2. [file[Note(c)] EXCEPT !.second = v] \in FileRecord
    BY <1>0 DEF FileRecord
  <2>3. file' \in [Notes -> FileRecord]
    BY <1>0, <2>1, <2>2
  <2>4. /\ To(c, "verify") /\ KeepQueues
        /\ UNCHANGED <<owned, manifest, seeds, outsideVars, historyVars>>
    BY <1>5 DEF CopyEnds
  <2> QED BY <1>0, <1>ok, <2>3, <2>4, ToFields
<1>6. CASE Verify(c)
  BY <1>0, <1>ok, <1>6, VerifyFields, ThrowFields DEF Verify, RecordCopy
<1>7. CASE EnsureOpens(c)
  BY <1>0, <1>ok, <1>7, ToFields DEF EnsureOpens
<1>8. CASE EnsureFills(c)
  BY <1>0, <1>ok, <1>8, ToFields DEF EnsureFills, CallRecord
<1>9. CASE EnsureChecks(c)
  BY <1>0, <1>ok, <1>9, ToFields, ThrowFields DEF EnsureChecks, CallRecord
<1>10. CASE SeedRead(c)
  BY <1>0, <1>ok, <1>10, SeedReadFields DEF SeedRead
<1>11. CASE SeedPublish(c)
  BY <1>0, <1>ok, <1>11, AdoptionFields DEF SeedPublish
<1>12. CASE AppendApplies(c)
  <2>1. file[Note(c)] \in FileRecord
    BY <1>0
  <2>2. file' = [file EXCEPT ![Note(c)] =
                   [file[Note(c)] EXCEPT !.live = TRUE, !.has = file[Note(c)].has \cup {c}]]
    BY <1>0, <1>12, <2>1 DEF AppendApplies, FileRecord
  <2>3. [file[Note(c)] EXCEPT !.live = TRUE, !.has = file[Note(c)].has \cup {c}] \in FileRecord
    BY <2>1 DEF FileRecord
  <2>4. file' \in [Notes -> FileRecord]
    BY <1>0, <2>2, <2>3
  <2>5. /\ To(c, "done") /\ LeaveQueues(c) /\ owned' = owned \cup {Note(c)}
        /\ told' = told \cup {Note(c)} /\ UNCHANGED <<manifest, seeds, saved, outsideVars>>
    BY <1>12 DEF AppendApplies
  <2> QED BY <1>0, <1>ok, <2>4, <2>5, ToFields DEF LeaveQueues
<1>13. CASE WritePublishes(c)
  <2> DEFINE f == [NoFile EXCEPT !.live = TRUE, !.has = {c}]
  <2>1. f \in FileRecord
    BY DEF NoFile, FileRecord
  <2>2. file' = [file EXCEPT ![Note(c)] = f]
    BY <1>13 DEF WritePublishes
  <2>3. file' \in [Notes -> FileRecord]
    BY <1>0, <2>1, <2>2
  <2> HIDE DEF f
  <2> QED BY <1>0, <1>ok, <1>13, <2>3, ToFields DEF WritePublishes
<1>14. CASE EditRuns(c)
  <2>1. /\ file[Note(c)] \in FileRecord /\ NoFile \in FileRecord
        /\ [file[Note(c)] EXCEPT !.has = file[Note(c)].has \cup {c}] \in FileRecord
    BY <1>0 DEF FileRecord, NoFile
  <2>2. \/ file' = file
        \/ file' = [file EXCEPT ![Note(c)] = NoFile]
        \/ file' = [file EXCEPT ![Note(c)] =
                      [file[Note(c)] EXCEPT !.has = file[Note(c)].has \cup {c}]]
    BY <1>0, <1>14 DEF EditRuns
  <2>3. file' \in [Notes -> FileRecord]
    BY <1>0, <2>1, <2>2
  <2>4. /\ Throw(c, "missing") \/ (To(c, "record") /\ KeepQueues)
        /\ UNCHANGED <<owned, manifest, seeds, outsideVars, historyVars>>
    BY <1>14 DEF EditRuns
  <2> QED BY <1>0, <1>ok, <2>3, <2>4, ToFields, ThrowFields
<1>15. CASE Record(c)
  BY <1>0, <1>ok, <1>15, ToFields DEF Record, LeaveQueues
<1>16. CASE ReadLooks(c)
  BY <1>0, <1>ok, <1>16, ToFields DEF ReadLooks
<1>17. CASE ReadResolves(c)
  BY <1>0, <1>ok, <1>17, ToFields DEF ReadResolves
<1>18. CASE Cancel(c)
  BY <1>0, <1>ok, <1>18, ThrowFields DEF Cancel
<1> QED BY <1>1, <1>2, <1>3, <1>4, <1>5, <1>6, <1>7, <1>8, <1>9,
           <1>10, <1>11, <1>12, <1>13, <1>14, <1>15, <1>16, <1>17, <1>18 DEF Steps, Step

LEMMA StepBase ==
  ASSUME Base, NEW c \in Calls, Steps(c)
  PROVE  Base'
<1>1. TypeOK /\ Places
  BY DEF Base
<1>2. Moves(c)
  BY <1>1, StepMoves
<1>3. Scoped(c)
  BY <1>2, StepScoped
<1>4. /\ call' \in [Calls -> CallRecord] /\ queue' \in [Notes -> Seq(Calls)]
      /\ \A n \in Notes : Distinct(queue'[n])
      /\ Places'
  BY <1>1, <1>2, MovesKeepPlaces
<1>5. TypeOK'
  BY <1>1, <1>3, <1>4 DEF TypeOK, Scoped, Distinct, outsideVars
<1>6. KnownOwned'
  <2>1. \A d \in Calls : d # c => call'[d] = call[d]
    BY <1>1, <1>2 DEF Moves, TypeOK
  <2>2. call'[c].knew = call[c].knew /\ call'[c].note = call[c].note
    BY <1>2 DEF Moves
  <2> QED BY <2>1, <2>2, <1>3 DEF Base, KnownOwned, Scoped
<1> QED BY <1>4, <1>5, <1>6 DEF Base

\* The call that starts.
LEMMA StartFields ==
  ASSUME Base, NEW c \in Calls, Start(c)
  PROVE  /\ call' \in [Calls -> CallRecord] /\ \A d \in Calls : d # c => call'[d] = call[d]
         /\ call[c].pc = "idle" /\ call'[c].pc \in {"look", "ensure", "queued"}
         /\ call'[c].goal = "apply" /\ call'[c].note \in Notes /\ call'[c].adoption = "none"
         /\ call'[c].knew = told \cap {call'[c].note}
         /\ call'[c].pc = "ensure" => call'[c].op = "edit"
         /\ \/ queue' = queue
            \/ queue' = [queue EXCEPT ![call'[c].note] = Append(@, c)]
<1>1. PICK op \in {"read", "append", "write", "edit"}, n \in Notes :
        LET direct == op = "read" \/ (op = "edit" /\ Owns(n)) IN
        /\ Go(c, [NoCall EXCEPT !.op = op, !.note = n, !.knew = told \cap {n},
                  !.pc = CASE op = "read" -> "look" [] direct /\ op # "read" -> "ensure"
                           [] OTHER -> "queued"])
        /\ queue' = IF direct THEN queue ELSE [queue EXCEPT ![n] = Append(@, c)]
  BY DEF Start
<1>2. PICK pc \in {"look", "ensure", "queued"} :
        /\ Go(c, [NoCall EXCEPT !.op = op, !.note = n, !.knew = told \cap {n}, !.pc = pc])
        /\ pc = "ensure" => op = "edit"
  <2>1. CASE op = "read"
    BY <1>1, <2>1
  <2>2. CASE op = "edit" /\ Owns(n)
    BY <1>1, <2>2
  <2>3. CASE op # "read" /\ ~(op = "edit" /\ Owns(n))
    BY <1>1, <2>3
  <2> QED BY <2>1, <2>2, <2>3
<1> DEFINE r == [NoCall EXCEPT !.op = op, !.note = n, !.knew = told \cap {n}, !.pc = pc]
<1>3. /\ r \in CallRecord /\ r.pc = pc /\ r.op = op /\ r.note = n /\ r.goal = "apply"
      /\ r.knew = told \cap {n} /\ r.adoption = "none"
  BY DEF NoCall, CallRecord, Base, TypeOK
<1>4. call' = [call EXCEPT ![c] = r]
  BY <1>2 DEF Go
<1> HIDE DEF r
<1>5. /\ call' \in [Calls -> CallRecord] /\ call'[c] = r
      /\ \A d \in Calls : d # c => call'[d] = call[d]
  BY <1>3, <1>4 DEF Base, TypeOK
<1>6. call[c].pc = "idle"
  BY DEF Start
<1> QED BY <1>1, <1>2, <1>3, <1>5, <1>6

LEMMA StartBase ==
  ASSUME Base, NEW c \in Calls, Start(c)
  PROVE  Base'
<1>1. /\ call' \in [Calls -> CallRecord] /\ \A d \in Calls : d # c => call'[d] = call[d]
      /\ call[c].pc = "idle" /\ call'[c].pc \in {"look", "ensure", "queued"}
      /\ call'[c].goal = "apply" /\ call'[c].note \in Notes
      /\ call'[c].knew = told \cap {call'[c].note}
      /\ \/ queue' = queue
         \/ queue' = [queue EXCEPT ![call'[c].note] = Append(@, c)]
  BY StartFields
<1>2. UNCHANGED <<manifestQueue, owned, file, manifest, seeds,
                  source, changes, crashes, told, saved>>
  BY DEF Start, KeepScope, outsideVars, historyVars
<1>3. \A n \in Notes : queue[n] \in Seq(Calls) /\ Distinct(queue[n]) /\ ~Queued(queue[n], c)
  BY <1>1 DEF Base, TypeOK, Places, Distinct
<1>n. PICK m \in Notes : /\ m = call'[c].note
                         /\ \/ queue' = queue
                            \/ queue' = [queue EXCEPT ![m] = Append(@, c)]
  BY <1>1
<1>4. \A n \in Notes : queue'[n] = queue[n] \/ (n = m /\ queue'[n] = Append(queue[n], c))
  BY <1>n DEF Base, TypeOK
<1>5. \A n \in Notes : /\ queue'[n] \in Seq(Calls) /\ Distinct(queue'[n])
                       /\ \A d : Queued(queue'[n], d) =>
                               Queued(queue[n], d) \/ (d = c /\ n = m)
  <2> SUFFICES ASSUME NEW n \in Notes
               PROVE  /\ queue'[n] \in Seq(Calls) /\ Distinct(queue'[n])
                      /\ \A d : Queued(queue'[n], d) => Queued(queue[n], d) \/ (d = c /\ n = m)
    OBVIOUS
  <2>1. CASE queue'[n] = queue[n]
    BY <1>3, <2>1
  <2>2. CASE n = m /\ queue'[n] = Append(queue[n], c)
    BY <1>3, <2>2, AppendFacts
  <2> QED BY <1>4, <2>1, <2>2
<1>6. queue' \in [Notes -> Seq(Calls)]
  <2>1. queue' = [n \in Notes |-> queue'[n]]
    BY <1>n DEF Base, TypeOK
  <2> QED BY <1>5, <2>1
<1>7. TypeOK'
  BY <1>1, <1>2, <1>5, <1>6 DEF Base, TypeOK, Distinct
<1>8. Places'
  <2>1. \A d \in Calls : call'[d].pc \notin {"idle", "failed"} => call'[d].note \in Notes
    BY <1>1 DEF Base, Places
  <2>2. \A n \in Notes, d \in Calls :
          Queued(queue'[n], d) => call'[d].note = n /\ call'[d].pc # "idle"
    <3> SUFFICES ASSUME NEW n \in Notes, NEW d \in Calls, Queued(queue'[n], d)
                 PROVE  call'[d].note = n /\ call'[d].pc # "idle"
      OBVIOUS
    <3>0. Queued(queue[n], d) \/ (d = c /\ n = m)
      BY <1>5
    <3>1. CASE d = c
      BY <3>0, <3>1, <1>1, <1>3, <1>n
    <3>2. CASE d # c
      <4>1. call[d].note = n /\ call[d].pc # "idle"
        BY <3>0, <3>2 DEF Base, Places
      <4> QED BY <4>1, <3>2, <1>1
    <3> QED BY <3>1, <3>2
  <2> QED BY <2>1, <2>2 DEF Places
<1>9. KnownOwned'
  BY <1>1, <1>2 DEF Base, KnownOwned, TypeOK
<1> QED BY <1>7, <1>8, <1>9 DEF Base

\* What other programs do.
Outside == \E n \in Notes : SourceChanges(n) \/ PrivateRemoved(n)

LEMMA OutsideBase ==
  ASSUME Base, Outside
  PROVE  Base'
<1>1. PICK n \in Notes : SourceChanges(n) \/ PrivateRemoved(n)
  BY DEF Outside
<1>2. UNCHANGED <<call, queue, manifestQueue, owned, manifest, seeds, crashes, told, saved>>
  BY <1>1 DEF SourceChanges, PrivateRemoved, historyVars
<1>3. changes' \in 0..MaxChanges
  BY <1>1, BoundsAssumption DEF SourceChanges, PrivateRemoved, Base, TypeOK
<1>4. file' \in [Notes -> FileRecord]
  <2>1. NoFile \in FileRecord
    BY DEF NoFile, FileRecord
  <2> QED BY <1>1, <2>1 DEF SourceChanges, PrivateRemoved, Base, TypeOK
<1>5. source' \in [Notes -> [live : BOOLEAN, version : Nat]]
  <2>1. source[n].version \in Nat /\ source[n] \in [live : BOOLEAN, version : Nat]
    BY DEF Base, TypeOK
  <2>2. \/ source' = source
        \/ source' = [source EXCEPT ![n] = [source[n] EXCEPT !.live = TRUE,
                                                             !.version = source[n].version + 1]]
        \/ source' = [source EXCEPT ![n] = [source[n] EXCEPT !.live = FALSE]]
    BY <1>1, <2>1 DEF SourceChanges, PrivateRemoved, Base, TypeOK
  <2>3. [source[n] EXCEPT !.live = FALSE] \in [live : BOOLEAN, version : Nat]
    BY <2>1
  <2>4. [source[n] EXCEPT !.live = TRUE, !.version = source[n].version + 1]
          \in [live : BOOLEAN, version : Nat]
    <3>1. PICK v \in Nat : v = source[n].version + 1
      BY <2>1
    <3>2. [source[n] EXCEPT !.live = TRUE, !.version = v] \in [live : BOOLEAN, version : Nat]
      BY <2>1
    <3> QED BY <3>1, <3>2
  <2> QED BY <2>2, <2>3, <2>4 DEF Base, TypeOK
<1>6. TypeOK'
  BY <1>2, <1>3, <1>4, <1>5 DEF Base, TypeOK
<1>7. Places' /\ KnownOwned'
  BY <1>2 DEF Base, Places, KnownOwned, Queued
<1> QED BY <1>6, <1>7 DEF Base

\* After a crash nothing runs.
LEMMA CrashFields ==
  ASSUME Base, Crash
  PROVE  /\ call' \in [Calls -> CallRecord]
         /\ \A c \in Calls : \/ ~Running(c) /\ call'[c] = call[c]
                             \/ call'[c] = [NoCall EXCEPT !.pc = "failed"]
         /\ queue' = [n \in Notes |-> <<>>] /\ manifestQueue' = <<>>
         /\ UNCHANGED <<owned, file, manifest, seeds, source, changes, told, saved>>
<1>1. [NoCall EXCEPT !.pc = "failed"] \in CallRecord
  BY DEF NoCall, CallRecord
<1> QED BY <1>1 DEF Crash, Base, TypeOK, KeepScope, historyVars

LEMMA CrashBase ==
  ASSUME Base, Crash
  PROVE  Base'
<1> DEFINE dead == [NoCall EXCEPT !.pc = "failed"]
<1>1. /\ dead.pc = "failed" /\ dead.knew = {} /\ dead.goal = "apply"
  BY DEF NoCall
<1> HIDE DEF dead
<1>2. /\ call' \in [Calls -> CallRecord]
      /\ \A c \in Calls : call'[c] = call[c] \/ call'[c] = dead
      /\ queue' = [n \in Notes |-> <<>>] /\ manifestQueue' = <<>>
      /\ UNCHANGED <<owned, file, manifest, seeds, source, changes, told, saved>>
  BY CrashFields DEF dead
<1>3. crashes' \in 0..MaxCrashes
  BY BoundsAssumption DEF Crash, Base, TypeOK
<1>4. TypeOK'
  BY <1>2, <1>3 DEF Base, TypeOK
<1>5. Places'
  BY <1>1, <1>2 DEF Base, Places, Queued
<1>6. KnownOwned'
  BY <1>1, <1>2 DEF Base, KnownOwned
<1> QED BY <1>4, <1>5, <1>6 DEF Base

LEMMA InitBase == Init => Base
<1> SUFFICES ASSUME Init PROVE Base
  OBVIOUS
<1>1. NoCall \in CallRecord
  BY DEF NoCall, CallRecord
<1>2. NoFile \in FileRecord /\ [NoFile EXCEPT !.live = TRUE] \in FileRecord
  BY DEF NoFile, FileRecord
<1>3. TypeOK
  <2>1. /\ call \in [Calls -> CallRecord]
        /\ queue \in [Notes -> Seq(Calls)] /\ manifestQueue \in Seq(Calls)
    BY <1>1 DEF Init
  <2>2. file \in [Notes -> FileRecord]
    BY <1>2 DEF Init
  <2>3. source \in [Notes -> [live : BOOLEAN, version : Nat]]
    <3>1. /\ [live |-> TRUE, version |-> 1] \in [live : BOOLEAN, version : Nat]
          /\ [live |-> FALSE, version |-> 0] \in [live : BOOLEAN, version : Nat]
      OBVIOUS
    <3> QED BY <3>1 DEF Init
  <2>4. /\ owned \subseteq Notes /\ manifest \in {"none", "empty", "own"} /\ seeds \subseteq Notes
        /\ changes \in 0..MaxChanges /\ crashes \in 0..MaxCrashes
        /\ told \subseteq owned /\ saved \subseteq owned
    BY BoundsAssumption DEF Init
  <2>5. \A n \in Notes : \A i, j \in 1..Len(queue[n]) : queue[n][i] = queue[n][j] => i = j
    BY DEF Init
  <2> QED BY <2>1, <2>2, <2>3, <2>4, <2>5 DEF TypeOK
<1>4. NoCall.pc = "idle" /\ NoCall.knew = {} /\ NoCall.goal = "apply"
  BY DEF NoCall
<1>5. Places /\ KnownOwned
  BY <1>4 DEF Init, Places, KnownOwned, Queued
<1> QED BY <1>3, <1>5 DEF Base

LEMMA NextSplits ==
  ASSUME Next
  PROVE  (\E c \in Calls : Start(c) \/ Steps(c)) \/ Outside \/ Crash
BY DEF Next, Steps, Outside

LEMMA NextBase == Base /\ [Next]_vars => Base'
<1>1. ASSUME Base, Next PROVE Base'
  BY <1>1, NextSplits, StartBase, StepBase, OutsideBase, CrashBase
<1>2. ASSUME Base, UNCHANGED vars PROVE Base'
  BY <1>2 DEF vars, Base, TypeOK, Places, KnownOwned, Queued
<1> QED BY <1>1, <1>2

LEMMA BaseInvariant == Spec => []Base
<1>1. Init => Base
  BY InitBase
<1>2. Base /\ [Next]_vars => Base'
  BY NextBase
<1> QED BY <1>1, <1>2, PTL DEF Spec

(* Calls, queues, files and the manifest keep their types; what has been   *)
(* reported private or adopted is recorded as owned, and no call is twice  *)
(* in a queue (note-store.ts:99).                                          *)
THEOREM TypeCorrect == Spec => []TypeOK
<1>1. Base => TypeOK
  BY DEF Base
<1> QED BY <1>1, BaseInvariant, PTL

----------------------------------------------------------------------------
(* No way back to the source. *)

Honest == \A c \in Calls : call[c].pc \in {"resolve", "reference"} => call[c].knew = {}

LEMMA NextHonest == Base /\ Honest /\ [Next]_vars => Honest'
<1> SUFFICES ASSUME Base, Honest, [Next]_vars, NEW d \in Calls,
                    call'[d].pc \in {"resolve", "reference"}
             PROVE  call'[d].knew = {}
  BY DEF Honest
<1>0. TypeOK /\ Places
  BY DEF Base
<1>1. ASSUME NEW c \in Calls, Start(c) PROVE call'[d].knew = {}
  BY <1>1, StartFields DEF Honest
<1>2. ASSUME NEW c \in Calls, Steps(c) PROVE call'[d].knew = {}
  <2>1. Moves(c)
    BY <1>0, <1>2, StepMoves
  <2>2. /\ d # c => call'[d] = call[d]
        /\ call'[c].knew = call[c].knew
    BY <2>1, <1>0 DEF Moves, TypeOK
  <2>3. CASE d # c
    BY <2>2, <2>3 DEF Honest
  <2>4. CASE d = c
    <3>1. CASE ReadLooks(c)
      <4>1. Note(c) \notin owned
        BY <1>0, <2>4, <3>1, ToFields DEF ReadLooks, Owns
      <4>2. /\ call[c].knew \subseteq owned /\ call[c].knew \subseteq {Note(c)}
        BY DEF Base, KnownOwned, Note
      <4> QED BY <4>1, <4>2, <2>2, <2>4
    <3>2. CASE ReadResolves(c)
      BY <3>2, <2>2, <2>4 DEF ReadResolves, Honest
    <3>3. CASE ~ReadLooks(c) /\ ~ReadResolves(c)
      BY <3>3, <1>2, <2>1, <2>4, StepScoped DEF Scoped
    <3> QED BY <3>1, <3>2, <3>3
  <2> QED BY <2>3, <2>4
<1>3. ASSUME Outside PROVE call'[d].knew = {}
  BY <1>3 DEF Outside, SourceChanges, PrivateRemoved, Honest
<1>4. ASSUME Crash PROVE call'[d].knew = {}
  BY <1>4, CrashFields DEF NoCall, Honest
<1>5. ASSUME UNCHANGED vars PROVE call'[d].knew = {}
  BY <1>5 DEF vars, Honest
<1> QED BY <1>1, <1>2, <1>3, <1>4, <1>5, NextSplits


(* Once a call has said that a note is private, no later read refers to    *)
(* its source (note-store.ts:92), whatever fails or dies in between.       *)
THEOREM NeverFallsBack == Spec => []NoFallback
<1>1. Init => Honest
  BY DEF Init, Honest, NoCall
<1>2. Base /\ Honest /\ [Next]_vars => Honest'
  BY NextHonest
<1>3. Honest => NoFallback
  BY DEF Honest, NoFallback
<1> QED BY <1>1, <1>2, <1>3, BaseInvariant, PTL DEF Spec

----------------------------------------------------------------------------
(* The manifest. *)

\* A call that saves its adoption has the manifest to itself, and has read it as it is.
Saving ==
  \A c \in Calls :
    /\ call[c].pc \in {"fill", "check", "seed", "publish"} /\ call[c].goal = "seed"
         => IsHead(manifestQueue, c)
    /\ call[c].pc \in {"seed", "publish"} => call[c].goal = "seed" /\ manifest = "own"
    /\ call[c].pc = "publish" => call[c].seen = seeds

\* What a step does to the manifest.
Saved(c) ==
  /\ \/ manifestQueue' = manifestQueue
     \/ manifestQueue' = Append(manifestQueue, c)
     \/ manifestQueue' = Without(manifestQueue, c)
  /\ manifest = "own" => manifest' = "own"
  /\ seeds' = seeds \/ IsHead(manifestQueue, c)
  /\ saved' \subseteq seeds' /\ (saved' # {} => manifest' = "own")
  /\ call'[c].pc \in {"fill", "check", "seed", "publish"} /\ call'[c].goal = "seed"
       => IsHead(manifestQueue', c)
  /\ call'[c].pc \in {"seed", "publish"} => call'[c].goal = "seed" /\ manifest' = "own"
  /\ call'[c].pc = "publish" => call'[c].seen = seeds'

LEMMA StepSaved ==
  ASSUME Base, Saving, AdoptionsSaved, NEW c \in Calls, Steps(c)
  PROVE  Saved(c)
<1>0. /\ TypeOK /\ call[c].goal \in {"seed", "apply"} /\ Note(c) = call[c].note
      /\ call[c].pc \in {"fill", "check", "seed", "publish"} /\ call[c].goal = "seed"
           => IsHead(manifestQueue, c)
      /\ call[c].pc \in {"seed", "publish"} => call[c].goal = "seed" /\ manifest = "own"
      /\ call[c].pc = "publish" => call[c].seen = seeds
      /\ saved \subseteq seeds /\ (saved # {} => manifest = "own")
      /\ ManifestTurn(c) <=> IsHead(manifestQueue, c)
  BY DEF Base, TypeOK, Saving, AdoptionsSaved, CallRecord, Note, ManifestTurn, IsHead
<1> USE DEF Saved, KeepQueues, KeepScope, historyVars
<1>1. CASE Admit(c)
  BY <1>0, <1>1, ToFields, AdoptionFields DEF Admit
<1>2. CASE Refer(c)
  BY <1>0, <1>2, ToFields, AdoptionFields DEF Refer
<1>3. CASE Stat(c)
  BY <1>0, <1>3, StatFields, ThrowFields DEF Stat
<1>4. CASE CopyBegins(c)
  BY <1>0, <1>4, ToFields, ThrowFields DEF CopyBegins
<1>5. CASE CopyEnds(c)
  BY <1>0, <1>5, ToFields DEF CopyEnds
<1>6. CASE Verify(c)
  BY <1>0, <1>6, VerifyFields, ThrowFields DEF Verify
<1>7. CASE EnsureOpens(c)
  BY <1>0, <1>7, ToFields DEF EnsureOpens, MayEnsure
<1>8. CASE EnsureFills(c)
  BY <1>0, <1>8, ToFields DEF EnsureFills
<1>9. CASE EnsureChecks(c)
  BY <1>0, <1>9, ToFields, ThrowFields DEF EnsureChecks
<1>10. CASE SeedRead(c)
  BY <1>0, <1>10, SeedReadFields DEF SeedRead
<1>11. CASE SeedPublish(c)
  BY <1>0, <1>11, AdoptionFields DEF SeedPublish
<1>12. CASE AppendApplies(c)
  BY <1>0, <1>12, ToFields DEF AppendApplies, LeaveQueues
<1>13. CASE WritePublishes(c)
  BY <1>0, <1>13, ToFields DEF WritePublishes
<1>14. CASE EditRuns(c)
  BY <1>0, <1>14, ToFields, ThrowFields DEF EditRuns
<1>15. CASE Record(c)
  BY <1>0, <1>15, ToFields DEF Record, LeaveQueues
<1>16. CASE ReadLooks(c)
  BY <1>0, <1>16, ToFields DEF ReadLooks
<1>17. CASE ReadResolves(c)
  BY <1>0, <1>17, ToFields DEF ReadResolves
<1>18. CASE Cancel(c)
  BY <1>0, <1>18, ThrowFields DEF Cancel
<1> QED BY <1>1, <1>2, <1>3, <1>4, <1>5, <1>6, <1>7, <1>8, <1>9,
           <1>10, <1>11, <1>12, <1>13, <1>14, <1>15, <1>16, <1>17, <1>18 DEF Steps, Step

LEMMA NextSaves ==
  ASSUME Base, Saving, AdoptionsSaved, [Next]_vars
  PROVE  Saving' /\ AdoptionsSaved'
<1>0. TypeOK /\ Places /\ manifestQueue \in Seq(Calls)
  BY DEF Base, TypeOK
<1>1. ASSUME NEW c \in Calls, Steps(c) PROVE Saving' /\ AdoptionsSaved'
  <2>1. Saved(c) /\ Moves(c)
    BY <1>0, <1>1, StepSaved, StepMoves
  <2>2. \A d \in Calls : d # c => call'[d] = call[d]
    BY <2>1, <1>0 DEF Moves, TypeOK
  <2>3. ASSUME NEW d \in Calls, d # c, IsHead(manifestQueue, d)
        PROVE  IsHead(manifestQueue', d)
    <3>1. IsHead(Append(manifestQueue, c), d)
      BY <1>0, <2>3, AppendFacts
    <3>2. IsHead(Without(manifestQueue, c), d)
      BY <1>0, <2>3, WithoutFacts
    <3> QED BY <2>1, <2>3, <3>1, <3>2 DEF Saved
  <2>4. \A d \in Calls : d # c /\ IsHead(manifestQueue, d) => seeds' = seeds
    BY <2>1 DEF Saved, IsHead
  <2>5. AdoptionsSaved'
    BY <2>1 DEF Saved, AdoptionsSaved
  <2>6. ASSUME NEW d \in Calls
        PROVE  /\ call'[d].pc \in {"fill", "check", "seed", "publish"} /\ call'[d].goal = "seed"
                    => IsHead(manifestQueue', d)
               /\ call'[d].pc \in {"seed", "publish"} => call'[d].goal = "seed" /\ manifest' = "own"
               /\ call'[d].pc = "publish" => call'[d].seen = seeds'
    <3>1. CASE d = c
      BY <2>1, <3>1 DEF Saved
    <3>2. CASE d # c
      BY <2>1, <2>2, <2>3, <2>4, <3>2 DEF Saved, Saving
    <3> QED BY <3>1, <3>2
  <2> QED BY <2>5, <2>6 DEF Saving
<1>2. ASSUME NEW c \in Calls, Start(c) PROVE Saving' /\ AdoptionsSaved'
  <2>1. UNCHANGED <<manifestQueue, manifest, seeds, saved>>
    BY <1>2 DEF Start, KeepScope, historyVars
  <2>2. /\ \A d \in Calls : d # c => call'[d] = call[d]
        /\ call'[c].pc \in {"look", "ensure", "queued"}
    BY <1>2, StartFields
  <2> QED BY <2>1, <2>2 DEF Saving, AdoptionsSaved, IsHead
<1>3. ASSUME Outside PROVE Saving' /\ AdoptionsSaved'
  BY <1>3 DEF Outside, SourceChanges, PrivateRemoved, historyVars, Saving, AdoptionsSaved, IsHead
<1>4. ASSUME Crash PROVE Saving' /\ AdoptionsSaved'
  <2>1. /\ \A c \in Calls : call'[c].pc \notin {"fill", "check", "seed", "publish"}
        /\ UNCHANGED <<manifest, seeds, saved>>
    BY <1>4, CrashFields DEF Running, Ended, NoCall
  <2> QED BY <2>1 DEF Saving, AdoptionsSaved
<1>5. ASSUME UNCHANGED vars PROVE Saving' /\ AdoptionsSaved'
  BY <1>5 DEF vars, Saving, AdoptionsSaved, IsHead
<1> QED BY <1>1, <1>2, <1>3, <1>4, <1>5, NextSplits

(* No adoption that was reported complete is lost from the manifest, by    *)
(* any number of concurrent adoptions and first writes                     *)
(* (note-snapshots.ts:233).                                                *)
THEOREM AdoptionsStaySaved == Spec => []AdoptionsSaved
<1>1. Init => Saving /\ AdoptionsSaved
  BY DEF Init, Saving, AdoptionsSaved, NoCall
<1>2. Base /\ Saving /\ AdoptionsSaved /\ [Next]_vars => Saving' /\ AdoptionsSaved'
  BY NextSaves
<1> QED BY <1>1, <1>2, BaseInvariant, PTL DEF Spec

----------------------------------------------------------------------------
(* The inherited prefix. *)

\* The steps between admission to the note's queue and leaving it.
InTurn(c) ==
  \/ call[c].pc \in {"refer", "stat", "copy", "copying", "verify"}
  \/ /\ call[c].pc \in {"ensure", "fill", "check", "seed", "publish", "apply", "record"}
     /\ call[c].op \in {"append", "write"} \/ call[c].goal = "seed"

Turns ==
  \A c \in Calls :
    /\ InTurn(c) => IsHead(queue[call[c].note], c)
    /\ call[c].pc = "refer" => call[c].op # "write"
    /\ call[c].pc = "queued" => call[c].goal = "apply"

\* An adoption has been verified, and nothing has been appended to it yet.
Adopting(c) ==
  /\ call[c].pc \in {"ensure", "fill", "check", "seed", "publish", "apply"}
  /\ \/ call[c].goal = "seed"
     \/ call[c].op = "append" /\ call[c].adoption = "adopted"

\* Versions only grow, so a copy lies between what stat saw and what is there now.
Copied(c) ==
  LET f == file[call[c].note] v == source[call[c].note].version IN
  /\ call[c].pc = "copy" => call[c].before <= v
  /\ call[c].pc = "copying" /\ f.live => call[c].before <= f.first /\ f.first <= v /\ f.has = {}
  /\ call[c].pc = "verify" /\ f.live =>
       /\ call[c].before <= f.first /\ f.first <= f.second /\ f.second <= v /\ f.has = {}
  /\ Adopting(c) /\ f.live => f.first = f.second /\ f.first = call[c].before /\ f.has = {}

Copies == \A c \in Calls : Copied(c)

LEMMA StepTurns ==
  ASSUME Base, Turns, NEW c \in Calls, Steps(c)
  PROVE  /\ InTurn(c)' => IsHead(queue'[call[c].note], c)
         /\ call'[c].pc = "refer" => call'[c].op # "write"
         /\ call'[c].pc # "queued"
<1>0. /\ TypeOK /\ call[c].goal \in {"seed", "apply"} /\ Note(c) = call[c].note
      /\ InTurn(c) => IsHead(queue[call[c].note], c)
      /\ call[c].pc = "refer" => call[c].op # "write"
      /\ Waits(c) <=> IsHead(queue[call[c].note], c)
      /\ call[c].op \in {"none", "read", "append", "write", "edit"}
      /\ call[c].pc \in {"seed", "publish"} => call[c].goal = "seed"
  <2>1. /\ TypeOK /\ call[c] \in CallRecord
        /\ (call[c].pc \in {"seed", "publish"} => call[c].goal = "seed")
    BY DEF Base, TypeOK, KnownOwned
  <2>2. /\ InTurn(c) => IsHead(queue[call[c].note], c)
        /\ call[c].pc = "refer" => call[c].op # "write"
    BY DEF Turns
  <2> QED BY <2>1, <2>2 DEF CallRecord, Note, Waits, IsHead
<1> USE DEF InTurn, KeepQueues, Keeps
<1>1. CASE Admit(c)
  <2>1. IsHead(queue[call[c].note], c)
    BY <1>0, <1>1 DEF Admit
  <2>2. CASE To(c, "ensure") /\ UNCHANGED queue
    BY <1>0, <2>1, <2>2, ToFields
  <2>3. CASE To(c, "refer") /\ UNCHANGED queue /\ call[c].op # "write"
    BY <1>0, <2>1, <2>3, ToFields
  <2>4. CASE AfterAdoption(c, "owned") /\ call[c].op # "write"
    BY <1>0, <2>1, <2>4, AdoptionFields
  <2> QED BY <1>1, <2>2, <2>3, <2>4 DEF Admit
<1>2. CASE Refer(c)
  BY <1>0, <1>2, ToFields, AdoptionFields DEF Refer
<1>3. CASE Stat(c)
  BY <1>0, <1>3, StatFields, ThrowFields DEF Stat
<1>4. CASE CopyBegins(c)
  BY <1>0, <1>4, ToFields, ThrowFields DEF CopyBegins
<1>5. CASE CopyEnds(c)
  BY <1>0, <1>5, ToFields DEF CopyEnds
<1>6. CASE Verify(c)
  BY <1>0, <1>6, VerifyFields, ThrowFields DEF Verify
<1>7. CASE EnsureOpens(c)
  BY <1>0, <1>7, ToFields DEF EnsureOpens
<1>8. CASE EnsureFills(c)
  BY <1>0, <1>8, ToFields DEF EnsureFills
<1>9. CASE EnsureChecks(c)
  BY <1>0, <1>9, ToFields, ThrowFields DEF EnsureChecks
<1>10. CASE SeedRead(c)
  BY <1>0, <1>10, SeedReadFields DEF SeedRead
<1>11. CASE SeedPublish(c)
  BY <1>0, <1>11, AdoptionFields DEF SeedPublish
<1>12. CASE AppendApplies(c)
  BY <1>0, <1>12, ToFields DEF AppendApplies
<1>13. CASE WritePublishes(c)
  BY <1>0, <1>13, ToFields DEF WritePublishes
<1>14. CASE EditRuns(c)
  BY <1>0, <1>14, ToFields, ThrowFields DEF EditRuns
<1>15. CASE Record(c)
  BY <1>0, <1>15, ToFields DEF Record
<1>16. CASE ReadLooks(c)
  BY <1>0, <1>16, ToFields DEF ReadLooks
<1>17. CASE ReadResolves(c)
  BY <1>0, <1>17, ToFields DEF ReadResolves
<1>18. CASE Cancel(c)
  BY <1>0, <1>18, ThrowFields DEF Cancel
<1> QED BY <1>1, <1>2, <1>3, <1>4, <1>5, <1>6, <1>7, <1>8, <1>9,
           <1>10, <1>11, <1>12, <1>13, <1>14, <1>15, <1>16, <1>17, <1>18 DEF Steps, Step

\* A call changes no file but its note's, and that one in its turn or in nobody's.
Touches(c) ==
  /\ \A n \in Notes : n # call[c].note => file'[n] = file[n]
  /\ file' = file \/ IsHead(queue[call[c].note], c) \/ queue[call[c].note] = <<>>

LEMMA StepTouches ==
  ASSUME Base, Turns, NEW c \in Calls, Steps(c)
  PROVE  Touches(c)
<1>1. CASE UNCHANGED file
  BY <1>1 DEF Touches
<1>2. CASE CopyBegins(c) \/ CopyEnds(c) \/ AppendApplies(c) \/ WritePublishes(c)
  <2>1. InTurn(c)
    BY <1>2 DEF InTurn, CopyBegins, CopyEnds, AppendApplies, WritePublishes
  <2>2. IsHead(queue[call[c].note], c)
    BY <2>1 DEF Turns
  <2>3. \A n \in Notes : n # call[c].note => file'[n] = file[n]
    BY <1>2 DEF Base, TypeOK, Note, CopyBegins, CopyEnds, AppendApplies, WritePublishes
  <2> QED BY <2>2, <2>3 DEF Touches
<1>3. CASE EditRuns(c)
  <2>1. \A n \in Notes : n # call[c].note => file'[n] = file[n]
    BY <1>3 DEF Base, TypeOK, Note, EditRuns
  <2> QED BY <1>3, <2>1 DEF Touches, EditRuns, Note
<1>4. CASE UNCHANGED file \/ CopyBegins(c) \/ CopyEnds(c) \/ AppendApplies(c)
           \/ WritePublishes(c) \/ EditRuns(c)
  BY <1>1, <1>2, <1>3, <1>4
<1> USE DEF KeepScope
<1>5. UNCHANGED file \/ CopyBegins(c) \/ CopyEnds(c) \/ AppendApplies(c)
      \/ WritePublishes(c) \/ EditRuns(c)
  <2>1. Admit(c) \/ Refer(c) \/ Stat(c) \/ Verify(c) \/ Cancel(c) => UNCHANGED file
    BY DEF Admit, Refer, Stat, Verify, Cancel
  <2>2. EnsureOpens(c) \/ EnsureFills(c) \/ EnsureChecks(c) \/ SeedRead(c) \/ SeedPublish(c)
        => UNCHANGED file
    BY DEF EnsureOpens, EnsureFills, EnsureChecks, SeedRead, SeedPublish
  <2>3. Record(c) \/ ReadLooks(c) \/ ReadResolves(c) => UNCHANGED file
    BY DEF Record, ReadLooks, ReadResolves
  <2> QED BY <2>1, <2>2, <2>3 DEF Steps, Step
<1> QED BY <1>4, <1>5

\* What a step makes of the copy of its own call.
CopiedNow(c) ==
  LET f == file'[call[c].note] v == source[call[c].note].version before == call'[c].before IN
  /\ call'[c].pc = "copy" => before <= v
  /\ call'[c].pc = "copying" /\ f.live => before <= f.first /\ f.first <= v /\ f.has = {}
  /\ call'[c].pc = "verify" /\ f.live =>
       /\ before <= f.first /\ f.first <= f.second /\ f.second <= v /\ f.has = {}
  /\ Adopting(c)' /\ f.live => f.first = f.second /\ f.first = before /\ f.has = {}

LEMMA StepCopied ==
  ASSUME Base, Turns, NEW c \in Calls, Copied(c), Steps(c), Moves(c)
  PROVE  CopiedNow(c)
<1>0. /\ TypeOK /\ call[c].goal \in {"seed", "apply"} /\ Note(c) = call[c].note
      /\ call[c].pc \in {"seed", "publish"} => call[c].goal = "seed"
      /\ call[c].before \in Nat /\ source[call[c].note].version \in Nat
      /\ file[call[c].note] \in FileRecord /\ file \in [Notes -> FileRecord]
      /\ call[c].note \in Notes /\ (call[c].pc = "queued" => call[c].goal = "apply")
  <2>1. /\ TypeOK /\ call[c] \in CallRecord /\ call[c].note \in Notes
        /\ call[c].pc \in {"seed", "publish"} => call[c].goal = "seed"
    BY DEF Base, TypeOK, KnownOwned, Places, Moves
  <2> QED BY <2>1 DEF TypeOK, CallRecord, Note, Turns
<1> USE DEF CopiedNow, Copied, Adopting, KeepQueues, KeepScope, Keeps
<1>1. CASE Admit(c)
  <2>1. call'[c].pc \notin {"copy", "copying", "verify"} /\ UNCHANGED file
    BY <1>0, <1>1, ToFields, AdoptionFields DEF Admit
  <2>2. ~ Adopting(c)'
    BY <1>0, <1>1, ToFields, AdoptionFields DEF Admit
  <2> QED BY <2>1, <2>2
<1>2. CASE Refer(c)
  <2>1. call'[c].pc \notin {"copy", "copying", "verify"} /\ ~ Adopting(c)'
    BY <1>0, <1>2, ToFields, AdoptionFields DEF Refer
  <2> QED BY <2>1
<1>3. CASE Stat(c)
  <2>1. CASE Throw(c, "source")
    BY <1>0, <2>1, ThrowFields
  <2>2. CASE Go(c, [call[c] EXCEPT !.pc = "copy", !.before = source[Note(c)].version])
    <3>1. call'[c].pc = "copy" /\ call'[c].before = source[call[c].note].version
      BY <1>0, <2>2, StatFields
    <3>2. source[call[c].note].version <= source[call[c].note].version
      BY <1>0
    <3> QED BY <3>1, <3>2
  <2> QED BY <1>3, <2>1, <2>2 DEF Stat
<1>4. CASE CopyBegins(c)
  <2>1. CASE To(c, "copying") /\ file' = [file EXCEPT ![Note(c)] =
                   [NoFile EXCEPT !.live = TRUE, !.first = source[Note(c)].version]]
    <3>1. file'[call[c].note] = [NoFile EXCEPT !.live = TRUE,
                                                !.first = source[call[c].note].version]
      BY <1>0, <2>1
    <3>2. file'[call[c].note].first = source[call[c].note].version /\ file'[call[c].note].has = {}
      BY <3>1 DEF NoFile
    <3>3. call'[c].pc = "copying" /\ call'[c].before = call[c].before
      BY <1>0, <2>1, ToFields
    <3>4. call[c].before <= source[call[c].note].version
      BY <1>4 DEF CopyBegins
    <3> QED BY <1>0, <3>2, <3>3, <3>4
  <2>2. CASE Throw(c, "exists") \/ Throw(c, "source")
    BY <1>0, <2>2, ThrowFields
  <2> QED BY <1>4, <2>1, <2>2 DEF CopyBegins
<1>5. CASE CopyEnds(c)
  <2>1. call'[c].pc = "verify" /\ call'[c].before = call[c].before
    BY <1>0, <1>5, ToFields DEF CopyEnds
  <2> DEFINE f == file[call[c].note]
             v == source[call[c].note].version
  <2>2. PICK w \in {f.first, v} :
          file' = IF f.live THEN [file EXCEPT ![Note(c)].second = w] ELSE file
    BY <1>0, <1>5 DEF CopyEnds
  <2>3. CASE f.live
    <3>1. file'[call[c].note] = [f EXCEPT !.second = w]
      BY <1>0, <2>2, <2>3
    <3>2. /\ file'[call[c].note].first = f.first /\ file'[call[c].note].has = f.has
          /\ file'[call[c].note].second = w
      BY <1>0, <3>1 DEF FileRecord
    <3>3. call[c].before <= f.first /\ f.first <= v /\ f.has = {}
      BY <1>5, <2>3 DEF CopyEnds
    <3>4. f.first \in Nat /\ v \in Nat
      BY <1>0 DEF FileRecord
    <3> HIDE DEF f, v
    <3>5. f.first <= w /\ w <= v
      BY <3>3, <3>4, <2>2
    <3> USE DEF f, v
    <3> QED BY <2>1, <3>2, <3>3, <3>5
  <2>4. CASE ~f.live
    BY <2>1, <2>2, <2>4
  <2> QED BY <2>3, <2>4
<1>6. CASE Verify(c)
  <2>1. CASE Throw(c, "changed")
    BY <1>0, <2>1, ThrowFields
  <2>2. CASE Verified(c) /\ Go(c, [call[c] EXCEPT !.pc = "ensure", !.goal = "seed"])
    <3>1. call'[c].pc = "ensure" /\ call'[c].before = call[c].before
      BY <1>0, <2>2, VerifyFields
    <3> DEFINE f == file[call[c].note]
               v == source[call[c].note].version
    <3>2. /\ call[c].before <= f.first /\ f.first <= f.second /\ f.second <= v /\ f.has = {}
          /\ v = call[c].before
      BY <1>0, <1>6, <2>2 DEF Verify, Verified
    <3>3. f.first \in Nat /\ f.second \in Nat /\ v \in Nat
      BY <1>0 DEF FileRecord
    <3> HIDE DEF f, v
    <3>4. f.first = f.second /\ f.first = call[c].before /\ f.has = {}
      BY <3>2, <3>3
    <3>5. file' = file
      BY <1>6 DEF Verify
    <3> USE DEF f, v
    <3> QED BY <3>1, <3>4, <3>5
  <2> QED BY <1>6, <2>1, <2>2 DEF Verify
<1>7. CASE EnsureOpens(c)
  BY <1>0, <1>7, ToFields DEF EnsureOpens
<1>8. CASE EnsureFills(c)
  BY <1>0, <1>8, ToFields DEF EnsureFills
<1>9. CASE EnsureChecks(c)
  BY <1>0, <1>9, ToFields, ThrowFields DEF EnsureChecks
<1>10. CASE SeedRead(c)
  BY <1>0, <1>10, SeedReadFields DEF SeedRead
<1>11. CASE SeedPublish(c)
  BY <1>0, <1>11, AdoptionFields DEF SeedPublish
<1>12. CASE AppendApplies(c)
  BY <1>0, <1>12, ToFields DEF AppendApplies
<1>13. CASE WritePublishes(c)
  BY <1>0, <1>13, ToFields DEF WritePublishes
<1>14. CASE EditRuns(c)
  BY <1>0, <1>14, ToFields, ThrowFields DEF EditRuns
<1>15. CASE Record(c)
  BY <1>0, <1>15, ToFields DEF Record
<1>16. CASE ReadLooks(c)
  BY <1>0, <1>16, ToFields DEF ReadLooks
<1>17. CASE ReadResolves(c)
  BY <1>0, <1>17, ToFields DEF ReadResolves
<1>18. CASE Cancel(c)
  BY <1>0, <1>18, ThrowFields DEF Cancel
<1> QED BY <1>1, <1>2, <1>3, <1>4, <1>5, <1>6, <1>7, <1>8, <1>9,
           <1>10, <1>11, <1>12, <1>13, <1>14, <1>15, <1>16, <1>17, <1>18 DEF Steps, Step

\* What has happened in a call's turn stays as it is when others move.
LEMMA OthersKeepCopies ==
  ASSUME Base, Turns, Copies, NEW c \in Calls, NEW d \in Calls, c # d, Steps(c), Moves(c)
  PROVE  /\ Copied(d)'
         /\ InTurn(d)' => IsHead(queue'[call'[d].note], d)
<1>1. call'[d] = call[d]
  BY DEF Base, TypeOK, Moves
<1>2. InTurn(d) => call[d].note \in Notes
  BY DEF InTurn, Base, Places
<1>3. source' = source
  BY StepScoped DEF Scoped, outsideVars
<1>4. ASSUME InTurn(d)
      PROVE  IsHead(queue'[call[d].note], d) /\ file'[call[d].note] = file[call[d].note]
  <2> DEFINE n == call[d].note
  <2>1. IsHead(queue[n], d) /\ n \in Notes /\ queue[n] \in Seq(Calls)
    BY <1>2, <1>4 DEF Turns, Base, TypeOK
  <2>2. queue'[n] = queue[n] \/ queue'[n] = Without(queue[n], c)
    BY <2>1 DEF Moves, Base, TypeOK
  <2>3. IsHead(Without(queue[n], c), d)
    BY <2>1, WithoutFacts
  <2>4. call[c].note = n => ~IsHead(queue[call[c].note], c) /\ queue[call[c].note] # <<>>
    BY <2>1 DEF IsHead
  <2>5. file'[n] = file[n]
    BY <2>1, <2>4, StepTouches DEF Touches
  <2> QED BY <2>1, <2>2, <2>3, <2>5
<1>5. InTurn(d)' <=> InTurn(d)
  BY <1>1 DEF InTurn
<1>6. Copied(d)'
  <2>1. Copied(d)
    BY DEF Copies
  <2>2. CASE InTurn(d)
    BY <1>1, <1>3, <1>4, <2>1, <2>2 DEF Copied, Adopting
  <2>3. CASE ~InTurn(d)
    BY <1>1, <2>3 DEF Copied, Adopting, InTurn
  <2> QED BY <2>2, <2>3
<1> QED BY <1>1, <1>4, <1>5, <1>6

LEMMA NextCopies ==
  ASSUME Base, Turns, Copies, [Next]_vars
  PROVE  Turns' /\ Copies'
<1>0. TypeOK /\ Places
  BY DEF Base
<1>1. ASSUME NEW c \in Calls, Steps(c) PROVE Turns' /\ Copies'
  <2>1. Moves(c) /\ Copied(c)
    BY <1>0, <1>1, StepMoves DEF Copies
  <2>2. \A d \in Calls : d # c => call'[d] = call[d]
    BY <2>1, <1>0 DEF Moves, TypeOK
  <2>3. call'[c].note = call[c].note
    BY <2>1 DEF Moves
  <2>4. CopiedNow(c)
    BY <1>1, <2>1, StepCopied
  <2>5. source' = source
    BY <1>1, <2>1, StepScoped DEF Scoped, outsideVars
  <2>6. Copied(c)'
    BY <2>3, <2>4, <2>5 DEF CopiedNow, Copied
  <2>7. Copies'
    BY <1>1, <2>1, <2>6, OthersKeepCopies DEF Copies
  <2>8. ASSUME NEW d \in Calls
        PROVE  /\ InTurn(d)' => IsHead(queue'[call'[d].note], d)
               /\ call'[d].pc = "refer" => call'[d].op # "write"
               /\ call'[d].pc = "queued" => call'[d].goal = "apply"
    <3>1. CASE d = c
      BY <1>1, <2>3, <3>1, StepTurns
    <3>2. CASE d # c
      BY <1>1, <2>1, <2>2, <3>2, OthersKeepCopies DEF Turns
    <3> QED BY <3>1, <3>2
  <2> QED BY <2>7, <2>8 DEF Turns
<1>2. ASSUME NEW c \in Calls, Start(c) PROVE Turns' /\ Copies'
  <2>1. UNCHANGED <<file, source>>
    BY <1>2 DEF Start, KeepScope, outsideVars
  <2>2. /\ \A d \in Calls : d # c => call'[d] = call[d]
        /\ call'[c].pc \in {"look", "ensure", "queued"} /\ call'[c].goal = "apply"
        /\ call'[c].adoption = "none" /\ (call'[c].pc = "ensure" => call'[c].op = "edit")
    BY <1>2, StartFields
  <2>3. PICK m \in Notes : queue' = queue \/ queue' = [queue EXCEPT ![m] = Append(@, c)]
    BY <1>2, StartFields
  <2>4. \A n \in Notes : /\ queue[n] \in Seq(Calls)
                         /\ queue'[n] = queue[n] \/ queue'[n] = Append(queue[n], c)
    BY <2>3 DEF Base, TypeOK
  <2>5. ASSUME NEW n \in Notes, NEW d \in Calls, IsHead(queue[n], d)
        PROVE  IsHead(queue'[n], d)
    <3>1. queue[n] \in Seq(Calls)
      BY <2>4
    <3>2. IsHead(Append(queue[n], c), d)
      BY <2>5, <3>1, AppendFacts
    <3> QED BY <2>4, <2>5, <3>2
  <2>6. ~InTurn(c)' /\ ~Adopting(c)'
    BY <2>2 DEF InTurn, Adopting
  <2>7. Copied(c)'
    BY <2>2, <2>6 DEF Copied
  <2>8. ASSUME NEW d \in Calls, d # c
        PROVE  Copied(d)' /\ (InTurn(d)' => IsHead(queue'[call'[d].note], d))
    <3>1. call'[d] = call[d] /\ Copied(d) /\ (InTurn(d) => call[d].note \in Notes)
      BY <2>2, <2>8, <1>0 DEF Copies, InTurn, Places
    <3>2. InTurn(d)' <=> InTurn(d)
      BY <3>1 DEF InTurn
    <3>3. InTurn(d)' => IsHead(queue'[call'[d].note], d)
      BY <3>1, <3>2, <2>5 DEF Turns
    <3>4. Copied(d)'
      BY <3>1, <2>1 DEF Copied, Adopting
    <3> QED BY <3>3, <3>4
  <2> QED BY <2>2, <2>6, <2>7, <2>8 DEF Turns, Copies
<1>3. ASSUME Outside PROVE Turns' /\ Copies'
  <2>1. PICK n \in Notes : SourceChanges(n) \/ PrivateRemoved(n)
    BY <1>3 DEF Outside
  <2>2. UNCHANGED <<call, queue>>
    BY <2>1 DEF SourceChanges, PrivateRemoved
  <2>3. \A m \in Notes : file'[m] = file[m] \/ ~file'[m].live
    BY <1>0, <2>1 DEF SourceChanges, PrivateRemoved, TypeOK, NoFile
  <2>4. \A m \in Notes : /\ source[m].version \in Nat /\ source'[m].version \in Nat
                         /\ source[m].version <= source'[m].version
    <3>1. source \in [Notes -> [live : BOOLEAN, version : Nat]]
      BY <1>0 DEF TypeOK
    <3>2. CASE source' = source
      BY <3>1, <3>2
    <3>3. CASE source' = [source EXCEPT ![n].live = TRUE, ![n].version = @ + 1]
      <4>1. source'[n].version = source[n].version + 1
        BY <3>1, <3>3
      <4>2. \A m \in Notes : m # n => source'[m] = source[m]
        BY <3>1, <3>3
      <4> QED BY <3>1, <4>1, <4>2
    <3>4. CASE source' = [source EXCEPT ![n].live = FALSE]
      <4>1. source'[n].version = source[n].version
        BY <3>1, <3>4
      <4>2. \A m \in Notes : m # n => source'[m] = source[m]
        BY <3>1, <3>4
      <4> QED BY <3>1, <4>1, <4>2
    <3> QED BY <2>1, <3>2, <3>3, <3>4 DEF SourceChanges, PrivateRemoved
  <2>5. Turns'
    BY <2>2 DEF Turns, InTurn
  <2>6. ASSUME NEW c \in Calls PROVE Copied(c)'
    <3>1. CASE call[c].note \in Notes
      <4> DEFINE m == call[c].note
                 v == source[m].version
                 w == source'[m].version
      <4>1. Copied(c) /\ call[c].before \in Nat /\ file[m].first \in Nat /\ file[m].second \in Nat
        BY <1>0, <3>1 DEF Copies, TypeOK, CallRecord, FileRecord
      <4>2. v \in Nat /\ w \in Nat /\ v <= w
        BY <2>4, <3>1
      <4>3. call[c].pc = "copy" => call[c].before <= w
        BY <4>1, <4>2 DEF Copied
      <4>4. file'[m] = file[m] \/ ~file'[m].live
        BY <2>3, <3>1
      <4>5. call[c].pc = "copying" /\ file'[m].live =>
              call[c].before <= file'[m].first /\ file'[m].first <= w /\ file'[m].has = {}
        BY <4>1, <4>2, <4>4 DEF Copied
      <4>6. call[c].pc = "verify" /\ file'[m].live =>
              /\ call[c].before <= file'[m].first /\ file'[m].first <= file'[m].second
              /\ file'[m].second <= w /\ file'[m].has = {}
        BY <4>1, <4>2, <4>4 DEF Copied
      <4>7. Adopting(c) /\ file'[m].live =>
              /\ file'[m].first = file'[m].second /\ file'[m].has = {}
              /\ file'[m].first = call[c].before
        BY <4>1, <4>4 DEF Copied
      <4>8. Adopting(c)' <=> Adopting(c)
        BY <2>2 DEF Adopting
      <4> QED BY <2>2, <4>3, <4>5, <4>6, <4>7, <4>8 DEF Copied
    <3>2. CASE call[c].note \notin Notes
      <4>1. call[c].pc \in {"idle", "failed"}
        BY <1>0, <3>2 DEF Places
      <4> QED BY <2>2, <4>1 DEF Copied, Adopting
    <3> QED BY <3>1, <3>2
  <2> QED BY <2>5, <2>6 DEF Copies
<1>4. ASSUME Crash PROVE Turns' /\ Copies'
  <2>1. \A c \in Calls : call'[c].pc \in {"idle", "done", "failed", "blocked", "own", "reference"}
    BY <1>4, CrashFields DEF Running, Ended, NoCall
  <2> QED BY <2>1 DEF Turns, Copies, InTurn, Copied, Adopting
<1>5. ASSUME UNCHANGED vars PROVE Turns' /\ Copies'
  BY <1>5 DEF vars, Turns, Copies, InTurn, Copied, Adopting
<1> QED BY <1>1, <1>2, <1>3, <1>4, <1>5, NextSplits

PrefixKept ==
  \A c \in Calls :
    AppendApplies(c) /\ call[c].adoption = "adopted" /\ file[Note(c)].live
    => LET f == file'[Note(c)] IN f.first = f.second /\ f.first = call[c].before
                                  /\ f.has = {c}

(* An append that has adopted its note extends one whole version of the    *)
(* source, for any number of concurrent calls, changes of the source and   *)
(* crashes (notes.ts:177).                                                 *)
THEOREM AppendsKeepPrefix == Spec => AppendKeepsPrefix
<1>1. Init => Turns /\ Copies
  <2>1. NoCall.pc = "idle" /\ (Init => \A c \in Calls : call[c] = NoCall)
    BY DEF Init, NoCall
  <2>2. Init => \A c \in Calls : call[c].pc = "idle"
    BY <2>1
  <2> QED BY <2>2 DEF Turns, Copies, InTurn, Copied, Adopting
<1>2. Base /\ Turns /\ Copies /\ [Next]_vars => Turns' /\ Copies'
  BY NextCopies
<1>3. Base /\ Copies => PrefixKept
  <2> SUFFICES ASSUME Base, Copies, NEW c \in Calls, AppendApplies(c),
                      call[c].adoption = "adopted", file[Note(c)].live
               PROVE  LET f == file'[Note(c)] IN f.first = f.second /\ f.first = call[c].before
                                                 /\ f.has = {c}
    BY DEF PrefixKept
  <2>1. Note(c) \in Notes /\ file[Note(c)] \in FileRecord /\ file \in [Notes -> FileRecord]
    BY DEF AppendApplies, Base, Places, TypeOK, Note
  <2>2. /\ file[Note(c)].first = file[Note(c)].second /\ file[Note(c)].first = call[c].before
        /\ file[Note(c)].has = {}
    BY DEF Copies, Copied, Adopting, AppendApplies, Note
  <2>3. file'[Note(c)] = [file[Note(c)] EXCEPT !.live = TRUE, !.has = file[Note(c)].has \cup {c}]
    BY <2>1 DEF AppendApplies, FileRecord
  <2> QED BY <2>1, <2>2, <2>3 DEF FileRecord
<1>4. Spec => [](Base /\ Turns /\ Copies)
  BY <1>1, <1>2, BaseInvariant, PTL DEF Spec
<1>5. [](Base /\ Turns /\ Copies) => [][PrefixKept]_vars
  BY <1>3, PTL
<1> QED BY <1>4, <1>5 DEF AppendKeepsPrefix, PrefixKept
=============================================================================
