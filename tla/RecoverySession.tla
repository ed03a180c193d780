--------------------------- MODULE RecoverySession ---------------------------
(***************************************************************************)
(* The evidence that an automatic recovery record is made from: the path   *)
(* of a session to its leaf, with the windows and context edits on it      *)
(* (src/src/history-entries.ts, src/src/recovery.ts), and the journal of   *)
(* verified effects on notes (src/src/note-store.ts).                      *)
(*                                                                         *)
(* An entry is its position on the path.  What messages say is left out:   *)
(* an edit takes an entry out of the context or replaces its text.         *)
(***************************************************************************)
EXTENDS Integers, Sequences, SequencesExt, FiniteSetsExt

CONSTANTS
  Notes,        \* note paths within a scope
  Calls,        \* the tool calls that are made
  MaxEntries,   \* bound: entries of the session
  MaxEdits,     \* bound: context edits
  MaxCalls,     \* bound: tool calls of a response
  MaxWritten,   \* MAX_WRITTEN_NOTES
  MaxRead,      \* MAX_READ_NOTES
  Fits          \* how many headers of results a record may have room for

\* An ask is an unnamespaced call of the registered ask_question; a patch is a tool that
\* reports what it committed; a script calls tools itself.  A clear empties the file, and what
\* removes it is a delete.  path: how a file tool
\* spells the note's path.  late: the result, or the script's effects, may come in a later turn.
CallTypes ==
  [tool : {"ask", "other", "notes", "file", "patch", "script"},
   does : {"nothing", "read", "full", "partial", "clear", "delete"}, note : Notes,
   path : {"absolute", "relative"}, late : {"no", "yes"}]

ASSUME BoundsAssumption ==
  {MaxEntries, MaxEdits, MaxCalls, MaxWritten, MaxRead} \cup Fits \subseteq Nat
ASSUME CallsAssumption ==
  /\ Calls \subseteq CallTypes
  /\ \A call \in Calls : /\ call.late = "yes" => call.tool \in {"other", "script"}
                         /\ call.does = "delete" => call.tool \in {"patch", "script"}

VARIABLES
  log,       \* the entries of the path
  effects,   \* NOTES_TOUCH records: what calls did to notes, in the order they did it
  scope,     \* whose notes the session writes: of the project, "source", or its own, "fork"
  seeds,     \* the notes that a fork owns from its start
  record     \* the recovery record, in the step in which it is made

vars == <<log, effects, scope, seeds, record>>

None == 0

\* Of an assistant message its calls and whether it is complete; of a result, or of a
\* completion that a background script delivers, the call by its message and number;
\* of a boundary who made it and what it keeps.
Entries ==
  [kind : {"user", "custom", "assistant", "result", "edit", "boundary"},
   calls : Seq(Calls), stop : {"complete", "cut"},
   call : (0..MaxEntries) \X (0..MaxCalls), outcome : {"ok", "error", "partly"},
   target : 0..MaxEntries, text : {"omit", "replace"},
   made : {"auto", "reset", "native"}, kept : 0..MaxEntries]

Effects ==
  [note : Notes, path : {"source", "fork"}, owner : {"source", "fork"},
   does : {"read", "full", "partial", "clear", "delete"},
   call : (1..MaxEntries) \X (1..MaxCalls)]

Blank(kind) ==
  [kind |-> kind, calls |-> <<>>, stop |-> "complete", call |-> <<0, 0>>, outcome |-> "ok",
   target |-> None, text |-> "omit", made |-> "auto", kept |-> None]

----------------------------------------------------------------------------
(* Windows. *)

Path == 1..Len(log)

LastOf(S) == IF S = {} THEN None ELSE Max(S)

Boundaries == {i \in Path : log[i].kind = "boundary"}
BoundaryOf(n) == LastOf({b \in Boundaries : b <= n})

\* contextStart of the first n entries
Start(n) ==
  LET b == BoundaryOf(n) IN IF b # None /\ log[b].kept # None THEN log[b].kept ELSE b + 1

Window(n) == Start(n)..n

\* Mutant: an explicit reset does not end the chain.
AutomaticUnlessNative(b) == log[b].made # "native"

\* automaticBoundary: a record of Posthorse's own making, after a threshold or an overflow.
Automatic(b) == log[b].made = "auto"

\* The automatic boundaries that no other has followed, back to the last that is not automatic.
Chain == {b \in Boundaries : \A c \in Boundaries : c >= b => Automatic(c)}

BeforeChain == IF Chain = {} THEN Len(log) ELSE Min(Chain) - 1

\* automaticChainStart
ChainEntries == Start(BeforeChain)..Len(log)

----------------------------------------------------------------------------
(* Context edits: the last edit of an entry counts. *)

EditOf(i) == LastOf({e \in Path : log[e].kind = "edit" /\ log[e].target = i})

Omitted(i)  == EditOf(i) # None /\ log[EditOf(i)].text = "omit"
Replaced(i) == EditOf(i) # None /\ log[EditOf(i)].text = "replace"

\* The entry that history read finds the effective text by.
Reference(i) == IF Replaced(i) THEN EditOf(i) ELSE i

Messages == {i \in Path : log[i].kind \in {"user", "custom", "assistant", "result"}}

\* What Pi projects (external): the window without the entries edited out.
Projected == {i \in Window(Len(log)) \cap Messages : ~Omitted(i)}

\* The calls of the messages of S; new text has none.
CallsOf(S) ==
  {c \in S \X (1..MaxCalls) :
     log[c[1]].kind = "assistant" /\ c[2] <= Len(log[c[1]].calls) /\ ~Replaced(c[1])}

AnswersOf(S) == {log[i].call : i \in {j \in S : log[j].kind = "result"}}

CallAt(c) == log[c[1]].calls[c[2]]

\* Calls whose results may come in a later turn, in sessions of a host that has such calls.
Async(c) == CallAt(c).late = "yes" /\ CallAt(c).tool # "script"

----------------------------------------------------------------------------
(* The tails that a rollover may keep: retention.ts.  Rollover has their choice by size. *)

Suffix(i) == {j \in Projected : j >= i}

\* Mutant: a window may start with a result.
SafeStartAny(i) == i \in Projected

SafeStart(i) == i \in Projected /\ log[i].kind # "result"

\* The empty tail is always possible.
Tails == {{}} \cup {Suffix(i) : i \in {j \in Path : SafeStart(j) /\ AnswersOf(Suffix(j)) = CallsOf(Suffix(j))}}
============================================================================
