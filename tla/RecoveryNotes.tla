---------------------------- MODULE RecoveryNotes ----------------------------
(***************************************************************************)
(* What a recovery record says of notes: src/src/note-evidence.ts,         *)
(* recovery-note-touches.ts, note-tool-effects.ts and recovery-notes.ts.   *)
(* The record tells from the messages what a call did and whether the tail *)
(* shows it, and from the journal what it does not show.                   *)
(***************************************************************************)
EXTENDS RecoverySession

\* projectedNotes: the entries of the chain, without those edited out.
Shown == {i \in ChainEntries : ~Omitted(i)}

\* effectReceipts: the last entry that says that the call has come to an end.
Receipt(c) == LastOf({i \in ChainEntries : log[i].kind \in {"result", "custom"} /\ log[i].call = c})

ReceiptOf(k) == Receipt(effects[k].call)

Told == {k \in DOMAIN effects : ReceiptOf(k) \in Shown}

----------------------------------------------------------------------------
(* Touches.  An effect has at most two: what its call shows, and what the  *)
(* journal says of the same file if the call spells it differently.        *)

Linked(k) == effects[k].call \in CallsOf(Shown)

Tool(k) == CallAt(effects[k].call).tool

\* An empty note and one that is gone have no state to tell of.
Clears == {"clear", "delete"}

Observed(does) ==
  CASE does = "read"     -> "read"
    [] does \in Clears -> "clear"
    [] OTHER             -> "observed"

\* A file tool's path is taken as it is spelled; a notes call whose result has a new text has none.
Spelled(k) ==
  CASE Tool(k) \in {"file", "patch"} -> IF CallAt(effects[k].call).path = "relative" THEN "relative" ELSE effects[k].path
    [] Tool(k) = "notes" /\ Replaced(ReceiptOf(k)) -> "bare"
    [] OTHER -> effects[k].path

\* recordedTouches
Recorded(k) ==
  [note |-> effects[k].note, path |-> effects[k].path, owner |-> effects[k].owner,
   kind |-> Observed(effects[k].does), entry |-> Reference(ReceiptOf(k)), kept |-> FALSE]

Seen(k, kind, entry, kept) ==
  [note |-> effects[k].note, path |-> Spelled(k),
   owner |-> IF Spelled(k) = effects[k].path THEN effects[k].owner ELSE "none",
   kind |-> kind, entry |-> entry, kept |-> kept]

\* touchesFromAssistantCall, or touchesFromToolResult of a call that is not shown.  Of a patch, one
\* that creates or empties a file shows its text as an edit does, and one that deletes it clears the
\* note.  The text of a notes call's result is the same for an empty write.  A script's nested calls
\* are evidence only.
Content(k, tail) ==
  LET does == effects[k].does
      call == effects[k].call
      r    == Receipt(call)
  IN CASE log[r].outcome = "error" -> <<>>
       [] Tool(k) = "patch" /\ Linked(k) ->
            <<Seen(k, IF does = "delete" THEN "clear" ELSE "partial", call[1], call[1] \in tail)>>
       [] Tool(k) \in {"notes", "file"} /\ Linked(k) -> <<Seen(k, does, call[1], call[1] \in tail)>>
       [] Tool(k) = "notes" /\ ~Linked(k) /\ ~Replaced(r) ->
            <<Seen(k, IF does = "clear" THEN "full" ELSE does, r, r \in tail)>>
       [] Tool(k) = "script" /\ log[r].kind = "result" /\ log[r].outcome = "ok" /\ CallAt(call).late = "no" ->
            <<Seen(k, Observed(does), Reference(r), FALSE)>>
       [] OTHER -> <<>>

\* sessionNoteTouches: the journal adds what no message covers.
Touches(k, tail) ==
  Content(k, tail) \o
  (IF \E t \in ToSet(Content(k, tail)) : t.path = effects[k].path THEN <<>> ELSE <<Recorded(k)>>)

----------------------------------------------------------------------------
(* scopeRecoveryTouches *)

\* ownedPaths
OwnedNotes ==
  seeds \cup {effects[k].note : k \in {j \in DOMAIN effects :
                effects[j].owner = "fork" /\ effects[j].path = "fork" /\ effects[j].does # "read"}}

\* Inherited history describes the bytes of the project's notes, not those of the fork's copies.
Scoped(t) ==
  CASE scope = "source" -> [t EXCEPT !.path = IF t.path = "bare" THEN "source" ELSE t.path]
    [] scope = "fork" /\ t.path = "fork" -> t
    [] scope = "fork" /\ t.path # "fork" /\ t.note \in OwnedNotes /\ t.owner # "fork" ->
         [t EXCEPT !.path = "fork", !.kind = Observed(t.kind), !.kept = FALSE]
    [] scope = "fork" /\ t.path = "bare" /\ t.note \notin OwnedNotes -> t
    [] OTHER -> [t EXCEPT !.path = "reference", !.kind = "read", !.kept = FALSE]

----------------------------------------------------------------------------
(* trackedNotes: a line for each file, the one touched last at the end. *)

SameFile(line, t) == line.note = t.note /\ line.path = t.path

Line(t, claim, at, updated) ==
  [note |-> t.note, path |-> t.path, claim |-> claim, at |-> at, updated |-> updated]

\* retainedEdit
RetainedEdit(old, t) ==
  LET full == {line \in old : line.claim = "full"}
  IN IF full # {} THEN {[line EXCEPT !.updated = t.entry] : line \in full}
                  ELSE {Line(t, "partial", t.entry, None)}

\* Mutant: a write that is only evidenced leaves what was known of the note.
WrittenKeep(old, t) ==
  CASE t.kind = "full" /\ t.kept -> {Line(t, "full", t.entry, None)}
    [] t.kind = "partial" /\ t.kept -> RetainedEdit(old, t)
    [] t.kind \in {"full", "partial"} /\ ~t.kept -> {Line(t, "compacted", t.entry, None)}
    [] t.kind = "observed" -> IF old # {} THEN old ELSE {Line(t, "effect", t.entry, None)}

\* applyTouch of a write
Written(old, t) ==
  CASE t.kind = "full" /\ t.kept -> {Line(t, "full", t.entry, None)}
    [] t.kind = "partial" /\ t.kept -> RetainedEdit(old, t)
    [] t.kind \in {"full", "partial"} /\ ~t.kept -> {Line(t, "compacted", t.entry, None)}
    [] t.kind = "observed" -> {Line(t, "effect", t.entry, None)}

IsWritten(line) == line.claim # "read"

Apply(lines, t) ==
  LET old    == {line \in ToSet(lines) : SameFile(line, t)}
      others == SelectSeq(lines, LAMBDA line : ~SameFile(line, t))
  IN CASE t.kind = "clear" -> others
       [] t.kind = "read"  -> IF \E line \in old : IsWritten(line) THEN lines
                              ELSE Append(others, Line(t, "read", t.entry, None))
       [] OTHER -> others \o SetToSeq(Written(old, t))

\* Effects in the order of the entries that tell of them.
InOrder == SetToSortSeq(Told, LAMBDA j, k : ReceiptOf(j) < ReceiptOf(k))

Tracked(tail) ==
  FoldLeft(Apply, <<>>,
           FoldLeft(LAMBDA touches, k : touches \o [n \in DOMAIN Touches(k, tail) |-> Scoped(Touches(k, tail)[n])],
                    <<>>, InOrder))

\* renderSessionNotes: the newest of each kind.
NotesLines(tail) ==
  LET written == SelectSeq(Tracked(tail), IsWritten)
      read    == SelectSeq(Tracked(tail), LAMBDA line : ~IsWritten(line))
      Newest(s, n) == SubSeq(s, IF Len(s) > n THEN Len(s) - n + 1 ELSE 1, Len(s))
  IN Newest(written, MaxWritten) \o Newest(read, MaxRead)
============================================================================
