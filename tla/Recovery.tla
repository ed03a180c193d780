------------------------------ MODULE Recovery ------------------------------
(***************************************************************************)
(* Sessions and the recovery records of their automatic rollovers:         *)
(* buildAutoHandoff (src/src/recovery.ts) over windows opened by automatic *)
(* rollovers, explicit resets and Pi's own compactions, with edits, cut    *)
(* responses, late results, background scripts and a fork.                 *)
(***************************************************************************)
EXTENDS RecoveryInputs, RecoveryNotes

NoRecord == {}

\* What a rollover keeps, and what its record names; the rest is texts.
BuildAutoHandoff(tail, fit) ==
  [tail       |-> tail,
   inputs     |-> Quoted(tail),
   listed     |-> Discarded(tail) \ Quoted(tail),
   carried    |-> Carried(tail),
   results    |-> Named(tail, fit),
   omitted    |-> Cardinality(Recoverable(tail) \ Named(tail, fit)),
   checkpoint |-> Ancestry(tail).checkpoint,
   skipped    |-> Ancestry(tail).skipped,
   notes      |-> NotesLines(tail)]

Init ==
  /\ log = <<>>
  /\ effects = <<>>
  /\ scope = "source"
  /\ seeds = {}
  /\ record = NoRecord

----------------------------------------------------------------------------
(* Pi's session *)

Append1(entry) ==
  /\ Len(log) < MaxEntries
  /\ log' = Append(log, entry)
  /\ record' = NoRecord

AllCalls ==
  {c \in Path \X (1..MaxCalls) : log[c[1]].kind = "assistant" /\ c[2] <= Len(log[c[1]].calls)}

Ended(c) == \E i \in Path : log[i].kind = "result" /\ log[i].call = c

\* An input of the user gives up the calls that have not ended.
Open ==
  {c \in AllCalls : /\ ~Ended(c)
                    /\ ~Async(c)
                    /\ \A i \in Path : i > c[1] => log[i].kind # "user"}

\* Background work: results of late calls, and scripts whose completion is to come.
Late ==
  {c \in AllCalls : CallAt(c).late = "yes" /\
                    IF CallAt(c).tool = "script"
                    THEN Ended(c) /\ ~\E i \in Path : log[i].kind = "custom" /\ log[i].call = c
                    ELSE ~Ended(c)}

Say ==
  /\ Append1(Blank("user"))
  /\ UNCHANGED <<effects, scope, seeds>>

\* A coordination input.
Coordinate ==
  /\ Open = {}
  /\ Append1(Blank("custom"))
  /\ UNCHANGED <<effects, scope, seeds>>

\* A complete response without calls ends the run.
Idle ==
  LET last == LastOf(Messages)
  IN last # None /\ log[last].kind = "assistant" /\ log[last].stop = "complete" /\ log[last].calls = <<>>

Respond(calls, stop) ==
  /\ Open = {} /\ ~Idle
  /\ Append1([Blank("assistant") EXCEPT !.calls = calls, !.stop = stop])
  /\ UNCHANGED <<effects, scope, seeds>>

\* The guards of a fork refuse notes of the project, and its own file of a note must exist to be read.
Refused(call) ==
  /\ scope = "fork"
  /\ \/ call.path = "relative"
     \/ call.tool = "file" /\ call.does = "read" /\ call.note \notin OwnedNotes

\* In a fork a note is read where it is, and written in the fork.
EffectOf(c) ==
  LET call == CallAt(c)
  IN [note |-> call.note, owner |-> scope, does |-> call.does, call |-> c,
      path |-> IF scope = "source" \/ (call.does = "read" /\ call.note \notin OwnedNotes)
               THEN "source" ELSE "fork"]

\* An append or an edit in a fork may fail when it has copied the project's note; of a patch that
\* deletes the note only the copy is made.
Adopts(call) ==
  /\ scope = "fork" /\ call.note \notin OwnedNotes
  /\ call.tool \in {"notes", "file", "patch"} /\ call.does \in {"partial", "delete"}
  /\ call.path = "absolute"

\* What a tool did to a note is in the journal before its result is in the session.
Finish(c, outcome) ==
  LET call == CallAt(c)
      acts == call.does # "nothing" /\ outcome # "error" /\ ~(call.tool = "script" /\ call.late = "yes")
  IN /\ c \in Open \cup {d \in Late : Async(d)}
     /\ outcome = "partly" => acts /\ call.tool \in {"patch", "script"}
     /\ acts => ~Refused(call)
     /\ Append1([Blank("result") EXCEPT !.call = c, !.outcome = outcome])
     /\ \/ acts /\ effects' = Append(effects, EffectOf(c))
        \/ /\ outcome = "error" /\ Adopts(call)
           /\ effects' = Append(effects, [EffectOf(c) EXCEPT !.does = "partial"])
        \/ ~acts /\ UNCHANGED effects
     /\ UNCHANGED <<scope, seeds>>

\* A background script touches a note.
Act(c) ==
  /\ c \in Late
  /\ CallAt(c).tool = "script"
  /\ CallAt(c).does # "nothing"
  /\ ~Refused(CallAt(c))
  /\ \A k \in DOMAIN effects : effects[k].call # c
  /\ effects' = Append(effects, EffectOf(c))
  /\ record' = NoRecord
  /\ UNCHANGED <<log, scope, seeds>>

\* Its completion is delivered.
Complete(c) ==
  /\ c \in Late
  /\ CallAt(c).tool = "script"
  /\ Open = {}
  /\ Append1([Blank("custom") EXCEPT !.call = c])
  /\ UNCHANGED <<effects, scope, seeds>>

Edits == {i \in Path : log[i].kind = "edit"}

Edit(i, text) ==
  /\ i \in Messages
  /\ Cardinality(Edits) < MaxEdits
  /\ Append1([Blank("edit") EXCEPT !.target = i, !.text = text])
  /\ UNCHANGED <<effects, scope, seeds>>

----------------------------------------------------------------------------
(* Windows *)

HasMessages == Open = {} /\ Window(Len(log)) \cap Messages # {}

\* An automatic rollover keeps a tail and writes a record of what it does not keep.
Rollover(tail, fit) ==
  /\ HasMessages
  /\ Len(log) < MaxEntries
  /\ log' = Append(log, [Blank("boundary") EXCEPT !.kept = IF tail = {} THEN None ELSE Min(tail)])
  /\ record' = {BuildAutoHandoff(tail, fit)}
  /\ UNCHANGED <<effects, scope, seeds>>

\* new_context: the model writes the handoff.
Reset ==
  /\ HasMessages
  /\ Append1([Blank("boundary") EXCEPT !.made = "reset"])
  /\ UNCHANGED <<effects, scope, seeds>>

\* Pi's own compaction may keep a tail too.
Compact(kept) ==
  /\ HasMessages
  /\ kept = None \/ SafeStart(kept)
  /\ Append1([Blank("boundary") EXCEPT !.made = "native", !.kept = kept])
  /\ UNCHANGED <<effects, scope, seeds>>

\* A fork inherits the session; its parent's background work reports to the parent.
Fork(owned) ==
  /\ scope = "source"
  /\ Open = {} /\ Late = {}
  /\ scope' = "fork"
  /\ seeds' = owned
  /\ record' = NoRecord
  /\ UNCHANGED <<log, effects>>

\* A step in which a response has one of the given calls and ends, an edit is, one of the given.
Step(responses, stops, texts) ==
  \/ Say
  \/ Coordinate
  \/ \E calls \in responses, stop \in stops : Respond(calls, stop)
  \/ \E c \in AllCalls, outcome \in {"ok", "error", "partly"} : Finish(c, outcome)
  \/ \E c \in AllCalls : Act(c)
  \/ \E c \in AllCalls : Complete(c)
  \/ \E i \in Path, text \in texts : Edit(i, text)
  \/ \E tail \in Tails, fit \in Fits : Rollover(tail, fit)
  \/ Reset
  \/ \E kept \in 0..Len(log) : Compact(kept)
  \/ \E owned \in SUBSET Notes : Fork(owned)

Next == Step(BoundedSeq(Calls, MaxCalls), {"complete", "cut"}, {"omit", "replace"})

Spec == Init /\ [][Next]_vars

----------------------------------------------------------------------------
(* Properties *)

\* Types; effects and results name calls that were made, and no window starts with a result.
TypeOK ==
  /\ log \in Seq(Entries) /\ Len(log) <= MaxEntries
  /\ effects \in Seq(Effects)
  /\ scope \in {"source", "fork"}
  /\ seeds \in SUBSET Notes
  /\ \A k \in DOMAIN effects : effects[k].call \in AllCalls
  /\ \A i \in Path : log[i].kind = "result" => log[i].call \in AllCalls
  /\ \A b \in Boundaries : log[b].kept # None =>
       log[b].kept \in Messages /\ log[b].kept < b /\ log[log[b].kept].kind # "result"
  /\ \A r \in record : r.tail \cup r.inputs \cup r.carried \cup r.results \subseteq Messages

\* The latest owner input, or answer, since the last boundary that was not automatic.
LatestOwner == LastOf(Owners(Shown, Shown))

\* However many automatic rollovers follow, the model reads the owner's latest words: in the tail,
\* quoted, or carried from the window they were said in, edits of them included
\* (recoveryAncestry, selectedInputs; docs/reference.md).
KeepsLatestOwner ==
  \A r \in record' : LatestOwner # None => LatestOwner \in r.tail \cup r.inputs \cup r.carried

LatestOwnerKept == [][KeepsLatestOwner]_vars

Repeatable(r) == r.inputs \cup r.listed \cup r.carried \cup r.results

\* What the tail shows is not in the record as well, though edits give entries other names, and
\* nothing is carried into a window in which the owner has spoken (projectedToolEntries, selectedInputs).
RepeatsNothing ==
  \A r \in record' :
    /\ Repeatable(r) \cap r.tail = {}
    /\ r.carried # {} => Owners(r.tail \cup r.inputs \cup r.listed, Projected) = {}

NothingRepeated == [][RepeatsNothing]_vars

\* The last boundary that is an explicit reset or Pi's own.
LastHandoff == LastOf({b \in Boundaries : log[b].made # "auto"})

\* A record takes nothing from before the last handoff, which it names unless an owner input of a
\* later window is nearer; it names no record that is automatic, and nothing that was edited out,
\* by a later window's edit either (recoveryAncestry, projectedCurrent).
RevivesNothing ==
  \A r \in record' :
    /\ Repeatable(r) \subseteq Start(LastHandoff)..Len(log)
    /\ \A i \in Repeatable(r) : ~Omitted(i)
    /\ r.checkpoint \in {None, LastHandoff}

NothingRevived == [][RevivesNothing]_vars

\* A later response shows that the model has received an entry: it is complete, or it went on to
\* call tools and one of its own calls has a result.
Received(i) ==
  \E a \in Path :
    /\ a > i /\ log[a].kind = "assistant"
    /\ \/ a \in Projected /\ log[a].stop = "complete"
       \/ \E s \in Projected : log[s].kind = "result" /\ log[s].call[1] = a

\* The results that a rollover discards before the model received them.
Unseen(r) == {i \in Projected \ r.tail : log[i].kind = "result" /\ ~Received(i)}

\* The record names these results, or they are among the earlier ones that it counts.
Tells(r, results) ==
  /\ Cardinality(results \ r.results) <= r.omitted
  /\ \A i \in results \ r.results, j \in r.results : i < j

\* No result is lost unread: the record tells of each one that is discarded before the model received
\* it, those of the batch without a later complete response (docs/reference.md:43).
TellsUnseenResults == \A r \in record' : Tells(r, Unseen(r))

UnseenResultsTold == [][TellsUnseenResults]_vars

\* After the entry a response was cut off, and then the result of an async call of an earlier
\* response arrived, which trailingStart takes for a result of the response that was cut off.
Overtaken(i) ==
  \E a, s \in Projected :
    /\ i < a /\ a < s
    /\ log[a].kind = "assistant" /\ log[a].stop = "cut"
    /\ log[s].kind = "result" /\ Async(log[s].call) /\ log[s].call[1] < a

\* What the code does achieve: a record tells of each unseen result, unless one of an async call has
\* overtaken it; the results of other calls never do, whatever is cut off, given up or edited
\* (recoverableToolResults, planBatch).
TellsUnlessOvertaken == \A r \in record' : Tells(r, {i \in Unseen(r) : ~Overtaken(i)})

UnseenToldUnlessOvertaken == [][TellsUnlessOvertaken]_vars

\* Effects that the chain shows; of background scripts those whose completion has arrived.
Evident == {k \in Told : log[ReceiptOf(k)].kind = "custom" \/ CallAt(effects[k].call).late = "no"}

Changes(note, path) ==
  {k \in Evident : effects[k].note = note /\ effects[k].path = path /\ effects[k].does # "read"}

\* A note that was written, and not cleared later or, by what the entries tell, later.
Active(note) ==
  \E k \in Changes(note, scope) :
    /\ effects[k].does \notin Clears
    /\ \A j \in Changes(note, scope) :
         effects[j].does \in Clears => j < k /\ ReceiptOf(j) < ReceiptOf(k)

WrittenLines(r) == {line \in ToSet(r.notes) : IsWritten(line)}

\* Of a note under its own path: when a line says that the latest full write is visible at an entry
\* of the tail, that entry wrote the note, and the tail shows every evident change since.  A note
\* of the session's scope that was written and not cleared is named, unless the lines are used up
\* (applyTouch, retainedEdit, scopeRecoveryTouches, renderSessionNotes).
TellsNotes ==
  \A r \in record' :
    /\ \A line \in WrittenLines(r) : line.claim = "full" /\ line.path \in {"source", "fork"} =>
         \E w \in Changes(line.note, line.path) :
           /\ effects[w].does = "full" /\ effects[w].call[1] = line.at
           /\ \A k \in Changes(line.note, line.path) :
                k >= w => effects[k].call[1] \in r.tail /\ Tool(k) # "script"
    /\ \A note \in Notes : Active(note) =>
         \/ \E line \in WrittenLines(r) : line.note = note /\ line.path = scope
         \/ Cardinality(WrittenLines(r)) = MaxWritten

NotesTold == [][TellsNotes]_vars
============================================================================
