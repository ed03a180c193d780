------------------------------ MODULE Rollover ------------------------------
(***************************************************************************)
(* Context rollover: the turn_end, session_before_compact and              *)
(* context_with_system handlers of src/src/rollover.ts, with the choice of *)
(* the retained tail in src/src/retention.ts.                              *)
(*                                                                         *)
(* A session is here the path to the leaf, and an entry its position on    *)
(* it; ReminderLookup has the tree.  Pi projects the summary of the last   *)
(* compaction, the entries it keeps and all entries after it, without      *)
(* those that a context edit omits.  Sizes are in tokens of four           *)
(* characters; both limits of a record are multiples of four.              *)
(***************************************************************************)
EXTENDS Integers, Sequences, FiniteSetsExt

CONSTANTS
  Line,           \* tokens at which Pi compacts
  Margin,         \* PAGE_MARGIN_TOKENS
  Overhead,       \* system prompt, guidance and tools
  MaxHandoff,     \* MAX_HANDOFF_CHARS / 4
  MinRecord,      \* MIN_PAGE_CHARS / 4
  Costs,          \* sizes of tool results; queued input apart, messages have size 1
  InputCost,      \* size of queued input
  Records,        \* sizes of recovery records and requested handoffs
  MaxCalls,       \* bound: tool calls of a response
  MaxEntries,     \* bound: entries of the session
  MaxQueue,       \* bound: queued messages
  MaxOmitted      \* bound: entries omitted by context edits

ASSUME SizesAssumption ==
  /\ {Line, Margin, Overhead, MaxHandoff, MinRecord, InputCost, MaxCalls, MaxEntries,
      MaxQueue, MaxOmitted} \subseteq Nat
  /\ Costs \subseteq Nat \ {0} /\ Records \subseteq Nat \ {0}

VARIABLES
  log,       \* the entries of the path
  omitted,   \* the entries that context edits omit
  queue,     \* queued messages: event.context.pendingMessages
  phase,     \* of Pi's run: idle, run, asked, tools, settled
  request    \* the messages of the request being made

vars == <<log, omitted, queue, phase, request>>

Roles == {"user", "custom", "reminder", "assistant", "result", "sentinel", "compaction"}

\* Of a compaction: what it keeps, whether Posthorse wrote it, whether its record
\* announces a tail.  Of an assistant message: its tool calls.  Of a tool result:
\* the call, by the message that made it and its number there.  Of a reminder: the
\* window that it was sent for.
Entries == [role : Roles, cost : Nat, calls : 0..MaxCalls,
            call : (0..MaxEntries) \X (0..MaxCalls),
            kept : 0..MaxEntries, posthorse : BOOLEAN, marked : BOOLEAN,
            window : 0..MaxEntries]

None == 0

Message(role) ==
  [role |-> role, cost |-> 1, calls |-> 0, call |-> <<0, 0>>,
   kept |-> None, posthorse |-> FALSE, marked |-> FALSE, window |-> None]

Compaction(cost, kept, posthorse, marked) ==
  [role |-> "compaction", cost |-> cost, calls |-> 0, call |-> <<0, 0>>,
   kept |-> kept, posthorse |-> posthorse, marked |-> marked, window |-> None]

Input == [Message("user") EXCEPT !.cost = InputCost]

Reminder(window) == [Message("reminder") EXCEPT !.window = window]

\* What may be queued.
Queueable == {Input} \cup {Reminder(w) : w \in 0..MaxEntries}

\* A compaction keeps entries before it.
TypeOK ==
  /\ log \in Seq(Entries) /\ Len(log) <= MaxEntries
  /\ \A i \in DOMAIN log : log[i].role = "compaction" => log[i].kept < i
  /\ omitted \subseteq DOMAIN log
  /\ queue \in Seq(Queueable) /\ Len(queue) <= MaxQueue
  /\ phase \in {"idle", "run", "asked", "tools", "settled"}
  /\ request \in Seq(0..MaxEntries)

Init ==
  /\ log = <<>> /\ omitted = {} /\ queue = <<>>
  /\ phase = "idle" /\ request = <<>>

----------------------------------------------------------------------------
(* What Pi projects (external). *)

IsCompaction(i) == log[i].role = "compaction"

\* The compaction whose summary opens the context.
Boundary ==
  LET C == {i \in DOMAIN log : IsCompaction(i)} IN IF C = {} THEN None ELSE Max(C)

KeptRange ==
  IF Boundary = None \/ log[Boundary].kept = None THEN {}
  ELSE log[Boundary].kept .. (Boundary - 1)

\* The entries projected after the summary.
Active == KeptRange \cup (Boundary + 1) .. Len(log)

\* The window the session is in, by the boundary of Posthorse's that opened it.
Window ==
  LET P == {i \in DOMAIN log : log[i].posthorse} IN IF P = {} THEN None ELSE Max(P)

\* Entries with messages of the conversation.
Visible == {i \in Active \ omitted : log[i].role \notin {"compaction", "sentinel"}}

Cost(S) == MapThenSumSet(LAMBDA i : log[i].cost, S)

\* pendingTokens of freshPayloadChars.
Pending ==
  LET Queued(role) == Cardinality({i \in DOMAIN queue : queue[i].role = role})
  IN InputCost * Queued("user") + Queued("reminder")

Usage == Overhead + Cost(Visible) + IF Boundary = None THEN 0 ELSE log[Boundary].cost

----------------------------------------------------------------------------
(* retention.ts *)

AtLeast0(n)   == IF n < 0 THEN 0 ELSE n
Smaller(m, n) == IF m < n THEN m ELSE n

\* freshPayloadChars: half of what a fresh window leaves.
Payload(pending) == AtLeast0((Line - Margin - Overhead - pending) \div 2)

CallsOf(S)   == {c \in S \X (1..MaxCalls) : log[c[1]].role = "assistant" /\ c[2] <= log[c[1]].calls}
AnswersOf(S) == {log[i].call : i \in {j \in S : log[j].role = "result"}}

\* Mutant: calls may miss their results.
PairedLoosely(S) == AnswersOf(S) \subseteq CallsOf(S)

\* pairedTail, in a session in which a result follows its call.
Paired(S) == AnswersOf(S) = CallsOf(S)

SafeStart(i) == i \in Visible /\ log[i].role # "result"

Suffix(i) == {j \in Visible : j >= i}

\* boundedTail: the first safe start, from the cut on, of a tail that fits.
BoundedTail(start, max) ==
  LET fits == {i \in Active : /\ i >= start /\ SafeStart(i)
                              /\ Cost(Suffix(i)) \in 1..max /\ Paired(Suffix(i))}
  IN IF fits = {} THEN None ELSE Min(fits)

\* Where retainedTail starts to look: the cut that Pi prepared, else the native
\* cut for keepRecentTokens, of which nothing is assumed here.
Starts(prepared) == IF prepared \in Active THEN {prepared} ELSE Active

Limit(pending)    == Smaller(MaxHandoff, Payload(pending))
TailRoom(pending) == Payload(pending) - Limit(pending)

\* The tails of automaticRecovery, None when keepRecentTokens or the room for a
\* tail is zero or nothing fits.
Tails(prepared, pending) ==
  {None} \cup {BoundedTail(s, TailRoom(pending)) : s \in Starts(prepared)}

\* A recovery record is built only when at least a small one fits.
Recoverable(record, pending) ==
  MinRecord <= Limit(pending) /\ record <= Limit(pending)

----------------------------------------------------------------------------
(* turn_end *)

Append2(entries) == log' = log \o entries /\ Len(log') <= MaxEntries

AllAnswered ==
  LET last == Max({i \in DOMAIN log : log[i].role = "assistant"})
  IN AnswersOf({i \in DOMAIN log : i > last}) = CallsOf({last})

\* An earlier handler of the turn may have drafted a boundary of its own, or a context
\* edit, which omits an entry.
Drafts == {"nothing", "boundary", "edit"}

Earlier(drafted) ==
  IF drafted = "boundary" THEN <<Compaction(1, None, FALSE, FALSE)>> ELSE <<>>

Edited(drafted) ==
  IF drafted = "edit"
    THEN Cardinality(omitted) < MaxOmitted /\ \E i \in Visible : omitted' = omitted \cup {i}
    ELSE UNCHANGED omitted

\* Mutant: the handoff was admitted once; what was queued since is not looked at.
ExplicitResetAdmitted(handoff, drafted) ==
  Append2(Earlier(drafted) \o
    (IF handoff > Limit(0)
       THEN <<Message("custom")>>
       ELSE <<Compaction(handoff, None, TRUE, FALSE)>>))

\* explicitReset: the handoff, or a notice that it no longer fits.
ExplicitReset(handoff, drafted) ==
  Append2(Earlier(drafted) \o
    (IF handoff > Limit(Pending)
       THEN <<Message("custom")>>
       ELSE <<Compaction(handoff, None, TRUE, FALSE)>>))

\* freshWindowWithoutInput
FreshWithoutInput ==
  Boundary # None /\ ~\E i \in Visible : log[i].role \in {"user", "custom", "reminder"}

\* fallbackTurnEligible and the conditions of thresholdFallback.
FallbackDue(stop, outcome, drafted, automatic) ==
  /\ stop # "length" /\ outcome = "completed" /\ drafted = "nothing"
  /\ automatic /\ Usage >= Line /\ FreshWithoutInput

Fallback ==
  \E record \in Records, tail \in Tails(None, Pending) :
    /\ Recoverable(record, Pending)
    /\ Append2(<<Compaction(record, tail, TRUE, tail # None)>>)

Unrecoverable(pending) == ~\E record \in Records : Recoverable(record, pending)

\* The whole handler.  automatic: compaction is enabled, the budget supported and the
\* usage known, as it is not between a boundary and the next answer; handoff: what
\* take() returns, None if nothing.
TurnEnd(stop, outcome, handoff, drafted, automatic) ==
  /\ phase = "tools" /\ AllAnswered
  /\ phase' = "settled"
  /\ request' = <<>> /\ Edited(drafted)
  /\ \/ /\ \/ stop \in {"error", "aborted"}
           \/ handoff # None /\ outcome = "aborted"
        /\ Append2(Earlier(drafted)) /\ UNCHANGED queue
     \/ /\ stop \notin {"error", "aborted"} /\ handoff # None /\ outcome # "aborted"
        /\ ExplicitReset(handoff, drafted) /\ UNCHANGED queue
     \/ /\ stop \notin {"error", "aborted"} /\ handoff = None
        /\ FallbackDue(stop, outcome, drafted, automatic) /\ ~Unrecoverable(Pending)
        /\ Fallback /\ UNCHANGED queue
     \/ /\ stop \notin {"error", "aborted"} /\ handoff = None
        /\ ~FallbackDue(stop, outcome, drafted, automatic) \/ Unrecoverable(Pending)
        /\ Append2(Earlier(drafted))
        /\ queue' \in {queue} \cup
             (IF automatic /\ Len(queue) < MaxQueue THEN {Append(queue, Reminder(Window))} ELSE {})

----------------------------------------------------------------------------
(* session_before_compact *)

\* Mutant: the boundary entry is not persisted.
DraftUnpersisted(prepared, record, tail) ==
  IF tail # None THEN <<Compaction(record, tail, TRUE, TRUE)>>
  ELSE <<Compaction(record, Len(log) + 1, TRUE, FALSE)>>

\* automaticDraft: without a tail the boundary keeps its own sentinel.
Draft(prepared, record, tail) ==
  IF tail # None THEN <<Compaction(record, tail, TRUE, TRUE)>>
  ELSE <<Message("sentinel"), Compaction(record, Len(log) + 1, TRUE, FALSE)>>

\* Pi compacts by itself between turns, or after an overflow.  Pending input is
\* not looked at: it is delivered, and checked, later.
BeforeCompact(prepared, record) ==
  /\ phase \in {"idle", "settled", "asked"} /\ log # <<>>
  /\ Recoverable(record, 0)
  /\ \E tail \in Tails(prepared, 0) : Append2(Draft(prepared, record, tail))
  /\ phase' = IF phase = "asked" THEN "run" ELSE phase
  /\ request' = <<>> /\ UNCHANGED <<omitted, queue>>

\* Pi cancels after the draft: its sentinel stays.
CancelDraft ==
  /\ phase \in {"idle", "settled", "asked"} /\ log # <<>> /\ ~Unrecoverable(0)
  /\ Append2(<<Message("sentinel")>>)
  /\ phase' = "idle"
  /\ request' = <<>> /\ UNCHANGED <<omitted, queue>>

\* A manual compaction, or one that an unsupported budget leaves to Pi.
NativeCompact(kept) ==
  /\ phase \in {"idle", "settled"}
  /\ kept \in Active /\ SafeStart(kept)
  /\ Append2(<<Compaction(1, kept, FALSE, FALSE)>>)
  /\ request' = <<>> /\ UNCHANGED <<omitted, queue, phase>>

----------------------------------------------------------------------------
(* context_with_system *)

\* A reminder that was sent for an earlier window, wherever it stands.  (The budget it
\* names as well is the same throughout here; ReminderLookup changes it.)
Stale(i) == log[i].role = "reminder" /\ log[i].window # Window

\* The k-th of S is the one with k - 1 before it.
InOrder(S) ==
  [k \in 1..Cardinality(S) |-> CHOOSE i \in S : Cardinality({j \in S : j < i}) = k - 1]

\* Pi's messages without stale reminders: the summary, then the visible entries.
Filtered ==
  (IF Boundary = None THEN <<>> ELSE <<Boundary>>) \o InOrder({i \in Visible : ~Stale(i)})

\* Mutant: filtered reminders are counted.
RetainedCountAll == Cardinality(KeptRange \cap Visible)

\* countRetainedMessages
RetainedCount == Cardinality({i \in KeptRange \cap Visible : ~Stale(i)})

\* chronologicalRetainedTail, of messages without stale reminders: the retained
\* messages move before the record that announces them.  An anchor, None here, opens a tail
\* that starts with an answer.
Chronological(messages) ==
  LET count  == RetainedCount
      tail   == SubSeq(messages, 2, count + 1)
      anchor == IF log[tail[1]].role = "assistant" THEN <<None>> ELSE <<>>
  IN
  IF Boundary # None /\ log[Boundary].marked /\ 0 < count /\ count < Len(messages)
    THEN anchor \o tail \o <<messages[1]>> \o SubSeq(messages, count + 2, Len(messages))
    ELSE messages

Request ==
  /\ phase = "run"
  /\ request' = Chronological(Filtered)
  /\ phase' = "asked"
  /\ UNCHANGED <<log, omitted, queue>>

----------------------------------------------------------------------------
(* What Pi and other extensions do. *)

Say(message, next) ==
  /\ Append2(<<message>>) /\ phase' = next
  /\ request' = <<>> /\ UNCHANGED omitted

\* A prompt starts a run.
Prompt == phase = "idle" /\ Say(Message("user"), "run") /\ UNCHANGED queue

\* Input that arrives during a run is queued; a custom message counts as a user's.
Steer ==
  /\ phase \in {"asked", "tools"} /\ Len(queue) < MaxQueue
  /\ queue' = Append(queue, Input)
  /\ request' = <<>> /\ UNCHANGED <<log, omitted, phase>>

Respond(calls) ==
  /\ phase = "asked"
  /\ Say([Message("assistant") EXCEPT !.calls = calls], "tools")
  /\ UNCHANGED queue

\* Results come in any order.
Finish(call, cost) ==
  /\ phase = "tools" /\ call \in CallsOf(DOMAIN log) \ AnswersOf(DOMAIN log)
  /\ call[1] = Max({i \in DOMAIN log : log[i].role = "assistant"})
  /\ Say([Message("result") EXCEPT !.call = call, !.cost = cost], "tools")
  /\ UNCHANGED queue

\* The next turn of the run: queued input first.
Deliver ==
  /\ phase = "settled" /\ queue # <<>>
  /\ Say(Head(queue), "run") /\ queue' = Tail(queue)

Continue ==
  /\ phase = "settled" /\ queue = <<>>
  /\ phase' \in {"run", "idle"} /\ request' = <<>> /\ UNCHANGED <<log, omitted, queue>>

\* The process ends; calls may stay unanswered, queued input is lost.
Restart ==
  /\ phase # "idle" /\ phase' = "idle" /\ queue' = <<>>
  /\ request' = <<>> /\ UNCHANGED <<log, omitted>>

\* A context edit takes an entry out of the context.
Omit(i) ==
  /\ phase \in {"idle", "settled"} /\ Cardinality(omitted) < MaxOmitted
  /\ i \in Visible /\ omitted' = omitted \cup {i}
  /\ request' = <<>> /\ UNCHANGED <<log, queue, phase>>

Next ==
  \/ \E stop \in {"toolUse", "length", "error", "aborted"},
        outcome \in {"completed", "aborted"}, handoff \in Records \cup {None},
        drafted \in Drafts, automatic \in BOOLEAN : TurnEnd(stop, outcome, handoff, drafted, automatic)
  \/ \E prepared \in DOMAIN log, record \in Records : BeforeCompact(prepared, record)
  \/ CancelDraft
  \/ \E kept \in DOMAIN log : NativeCompact(kept)
  \/ Request
  \/ Prompt
  \/ Steer
  \/ \E calls \in 0..MaxCalls : Respond(calls)
  \/ \E call \in CallsOf(DOMAIN log), cost \in Costs : Finish(call, cost)
  \/ Deliver
  \/ Continue
  \/ Restart
  \/ \E i \in DOMAIN log : Omit(i)

Spec == Init /\ [][Next]_vars

----------------------------------------------------------------------------
(* Properties. *)

\* The step commits a boundary of Posthorse's.
Commits == Len(log') > Len(log) /\ log'[Len(log')].posthorse

\* After a rollover the window is at most half full, input queued at the
\* turn's end included, whatever the record, the native cut and the sizes of the groups
\* (docs/reference.md:42): neither rollover is due again at once.
HalfStaysFree ==
  [][Commits =>
       2 * (Usage' - Overhead) + Overhead + Margin + (IF phase = "tools" THEN Pending ELSE 0)
         <= Line]_vars

\* Of the messages of S: each call has its result and each result its call.
Whole(S) ==
  /\ \A i \in S, k \in 1..MaxCalls :
       log[i].role = "assistant" /\ k <= log[i].calls =>
         \E r \in S : log[r].role = "result" /\ log[r].call = <<i, k>>
  /\ \A r \in S : log[r].role = "result" => log[r].call[1] \in S

\* What a rollover keeps is whole: no result without its call, no call without its
\* result, though the session may have both, after a restart or an edit.  Its
\* record announces a tail exactly when there is one.
TailIsWhole ==
  [][Commits => Whole(Visible)' /\ (log'[Len(log')].marked <=> Visible' # {})]_vars

\* The model reads a session in the order in which it happened: the tail kept by
\* an automatic rollover before its record, later messages after it, and no
\* answer before the first input.  (Pi's own summaries stand before what they keep.)
RequestInOrder ==
  (request # <<>> /\ Boundary # None /\ log[Boundary].posthorse) =>
    /\ \A i, j \in DOMAIN request : i < j => request[i] < request[j]
    /\ request[1] # None => log[request[1]].role # "assistant"
============================================================================
