--------------------------- MODULE ReminderLookup ---------------------------
(***************************************************************************)
(* The task-note reminder and the leaf-certified lookup behind it:         *)
(* src/src/reminders.ts, with the filter and the sending end of            *)
(* src/src/rollover.ts.                                                    *)
(*                                                                         *)
(* A session is a tree of entries in which Pi appends below a movable leaf. *)
(* The lookup answers two questions about the path to the leaf: which      *)
(* window it is in, and which reminders are in the active context.  It     *)
(* keeps its last answer, and certifies by the identity of the leaf's      *)
(* entry that the path has only grown since.                               *)
(*                                                                         *)
(* Entries are numbered in the order of their creation, so that a path is  *)
(* a set: a walk from the leaf visits the larger number first.             *)
(***************************************************************************)
EXTENDS Integers, Sequences, FiniteSets

CONSTANTS
  Sessions,     \* session ids with their files and managers
  Budgets,      \* pairs of context window and reserve
  Off,          \* the policy under which Pi does not compact
  MaxEntries,   \* bound: entries of a session
  MaxLoads,     \* bound: how often a session is read into memory
  MaxQueue      \* bound: reminders on their way

ASSUME BoundsAssumption ==
  /\ MaxEntries \in Nat /\ MaxLoads \in Nat /\ MaxQueue \in Nat
  /\ Sessions # {} /\ Budgets # {} /\ Off \notin Budgets

Kinds      == {"message", "reminder", "native", "posthorse", "legacy"}
Boundaries == {"native", "posthorse", "legacy"}

None == 0   \* no entry; as a window, "initial"

Fingerprints == [window : 0..MaxEntries, budget : Budgets]
NoReminder   == [window |-> None, budget |-> Off]

\* path: the entry and its ancestors; kept: firstKeptEntryId of a compaction.
Entries == [kind : Kinds, kept : 0..MaxEntries, details : Fingerprints \cup {NoReminder},
            path : SUBSET (1..MaxEntries)]

VARIABLES
  \* Pi's (external)
  session,
  tree,      \* its entries
  load,      \* an entry object is an entry of one load of a session
  leaf,
  policy,
  queue,     \* reminders sent but not appended yet
  \* the extension's
  cache,     \* the closure variable `state` of createReminderLookup
  shown      \* the reminders in the model request being made

hostVars == <<session, tree, load, leaf, policy, queue>>
vars == <<session, tree, load, leaf, policy, queue, cache, shown>>

Undefined == [session |-> "none"]
States == [session : Sessions, load : 0..MaxLoads, leaf : 0..MaxEntries,
           windowId : 0..MaxEntries, reminders : SUBSET (1..MaxEntries)]

TypeOK ==
  /\ session \in Sessions /\ load \in 0..MaxLoads
  /\ tree \in Seq(Entries) /\ Len(tree) <= MaxEntries
  /\ leaf \in 0..Len(tree)
  /\ policy \in Budgets \cup {Off}
  /\ queue \in Seq(Fingerprints)
  /\ cache \in States \cup {Undefined}
  /\ shown \subseteq 1..MaxEntries

Init ==
  /\ session \in Sessions /\ tree = <<>> /\ load = 0 /\ leaf = None
  /\ policy \in Budgets \cup {Off}
  /\ queue = <<>> /\ cache = Undefined /\ shown = {}

----------------------------------------------------------------------------
(* The path to the leaf. *)

Path == IF leaf = None THEN {} ELSE tree[leaf].path

IsBoundary(e) == tree[e].kind \in Boundaries
IsWindow(e)   == tree[e].kind \in {"posthorse", "legacy"}
IsReminder(e) == tree[e].kind = "reminder"

\* The last element of a set of entries that satisfies P, None if there is none.
LastOf(S) == IF S = {} THEN None ELSE CHOOSE e \in S : \A f \in S : f <= e

LastBoundary(S) == LastOf({e \in S : IsBoundary(e)})
LastWindow(S)   == LastOf({e \in S : IsWindow(e)})

\* contextStart: the entries that are active, a kept tail included.
Active(S) ==
  LET b == LastBoundary(S)
      kept == tree[b].kept
  IN
  IF b = None THEN S
  ELSE IF tree[b].kind # "legacy" /\ kept \in S THEN {e \in S : e >= kept}
  ELSE {e \in S : e > b}

\* What Pi projects: it does not know the legacy markers.
Projected(S) ==
  LET b == LastOf({e \in S : tree[e].kind \in {"native", "posthorse"}}) IN
  IF b = None THEN S
  ELSE IF tree[b].kept \in S THEN {e \in S : e >= tree[b].kept}
  ELSE {e \in S : e > b}

----------------------------------------------------------------------------
(* createReminderLookup *)

\* advanceBoundary: whether a walk down from the leaf has met, at entry e of S,
\* the last boundary and all that the boundary keeps.
Kept(S, e) ==
  LET b == LastBoundary(S) IN
  /\ b # None /\ e <= b
  /\ \/ tree[b].kind = "legacy"
     \/ tree[b].kept \in S /\ e <= tree[b].kept

\* Where the walk of scanAncestry ends: at the first entry at which the window
\* and the kept range are known, else at the root.
Visited(S) ==
  LET stops == {e \in S : LastWindow(S) >= e /\ Kept(S, e)} IN
  IF stops = {} THEN S ELSE {e \in S : e >= LastOf(stops)}

\* Mutant: a boundary on the way does not end the certificate.
ExtendsAcross(S, previous) ==
  /\ previous # Undefined /\ previous.load = load
  /\ previous.leaf \in S

\* The walk meets the leaf of the previous state before any boundary.
Extends(S, previous) ==
  /\ previous # Undefined /\ previous.load = load
  /\ previous.leaf \in S
  /\ LastBoundary(S) <= previous.leaf

\* The state of the same manager, session and file.
Previous == IF cache # Undefined /\ cache.session = session THEN cache ELSE Undefined

State(window, reminders) ==
  [session |-> session, load |-> load, leaf |-> leaf,
   windowId |-> window, reminders |-> reminders]

Rescanned(S) ==
  LET entries == Visited(S) IN
  State(LastWindow(entries), {e \in Active(entries) : IsReminder(e)})

Extended(S, previous) ==
  State(previous.windowId,
        previous.reminders \cup {e \in S : e > previous.leaf /\ IsReminder(e)})

\* The leaf is the entry object that the previous state was made for.
SameLeaf(previous) ==
  /\ previous # Undefined /\ previous.leaf = leaf
  /\ leaf = None \/ previous.load = load

Read ==
  IF SameLeaf(Previous) THEN Previous
  ELSE IF Extends(Path, Previous) THEN Extended(Path, Previous)
  ELSE Rescanned(Path)

\* reset(), on session_start and on session_tree.
Reset == cache' = Undefined /\ shown' = {} /\ UNCHANGED hostVars

----------------------------------------------------------------------------
(* Sending and filtering. *)

Current(state) == [window |-> state.windowId, budget |-> policy]

\* Mutant: pending messages are not looked at.
AlreadyAppended(state) == \E e \in state.reminders : tree[e].details = Current(state)

\* hasReminder, and the pending messages of the event.
AlreadyPresent(state) ==
  \/ \E e \in state.reminders : tree[e].details = Current(state)
  \/ \E i \in DOMAIN queue : queue[i] = Current(state)

\* Mutant: whether Pi compacts is not asked.
TurnEndAlways ==
  /\ cache' = Read /\ shown' = {}
  /\ AlreadyPresent(Read) \/ Len(queue) < MaxQueue
  /\ queue' = IF AlreadyPresent(Read) THEN queue ELSE Append(queue, Current(Read))
  /\ UNCHANGED <<session, tree, load, leaf, policy>>

\* The end of a working turn inside the checkpoint band, under a budget that Pi
\* compacts by: reminderDecision, then sendMessage.
TurnEnd ==
  /\ policy # Off
  /\ cache' = Read /\ shown' = {}
  /\ AlreadyPresent(Read) \/ Len(queue) < MaxQueue
  /\ queue' = IF AlreadyPresent(Read) THEN queue ELSE Append(queue, Current(Read))
  /\ UNCHANGED <<session, tree, load, leaf, policy>>

\* Mutant: the budget is left out of the comparison.
StaleByWindow(e, state) == policy = Off \/ tree[e].details.window # state.windowId

\* staleReminderPredicate, in a session of Pi.  Left out: the window named by a message of the
\* type "context-window" (rollover.ts:91), which only the host of the retired fork made; Pi's
\* projection of a legacy entry has no message.
Stale(e, state) == policy = Off \/ tree[e].details # Current(state)

\* The context_with_system handler: the lookup is read only when the request
\* contains a reminder.
FilterRequest ==
  LET reminders == {e \in Projected(Path) : IsReminder(e)} IN
  /\ IF reminders = {}
       THEN shown' = {} /\ cache' = cache
       ELSE shown' = {e \in reminders : ~Stale(e, Read)} /\ cache' = Read
  /\ UNCHANGED hostVars
----------------------------------------------------------------------------
(* What Pi does. *)

New(kind, kept, details) ==
  [kind |-> kind, kept |-> kept, details |-> details,
   path |-> Path \cup {Len(tree) + 1}]

\* The queue is delivered, or a new entry appended, below the leaf.
AppendEntry(entry) ==
  /\ Len(tree) < MaxEntries
  /\ tree' = Append(tree, entry)
  /\ leaf' = Len(tree) + 1
  /\ shown' = {} /\ UNCHANGED <<session, load, policy, cache>>

AppendMessage ==
  AppendEntry(New("message", None, NoReminder)) /\ UNCHANGED queue

\* Pi's own compaction, or one drafted by the extension.  It keeps nothing or an
\* active tail.
Compact(kind, kept) ==
  /\ kept \in Active(Path) \cup {None}
  /\ AppendEntry(New(kind, kept, NoReminder)) /\ UNCHANGED queue

\* A marker that a retired fork of Pi wrote, before any compaction of this one.
AppendLegacyWindow ==
  /\ \A e \in DOMAIN tree : tree[e].kind \notin {"native", "posthorse"}
  /\ AppendEntry(New("legacy", None, NoReminder)) /\ UNCHANGED queue

Deliver ==
  /\ queue # <<>>
  /\ AppendEntry(New("reminder", None, Head(queue))) /\ queue' = Tail(queue)

\* /tree: the leaf moves while Pi is idle, nothing queued.  Its event, a Reset,
\* comes after.
Navigate(e) ==
  /\ queue = <<>> /\ leaf' = e
  /\ shown' = {} /\ UNCHANGED <<session, tree, load, policy, queue, cache>>

\* The session is read again from its file.
Reload ==
  /\ queue = <<>> /\ load < MaxLoads
  /\ load' = load + 1 /\ leaf' = Len(tree)
  /\ shown' = {} /\ UNCHANGED <<session, tree, policy, queue, cache>>

\* Another session takes over: new, or with entries that only the appends to come
\* put in place.  Their numbers are those of the session left behind.
Switch(s) ==
  /\ queue = <<>> /\ load < MaxLoads /\ s # session
  /\ session' = s /\ tree' = <<>> /\ load' = load + 1 /\ leaf' = None
  /\ shown' = {} /\ UNCHANGED <<policy, queue, cache>>

\* A fork continues with the entries, and entry objects, of the session it leaves.
Fork(s) ==
  /\ queue = <<>> /\ s # session /\ session' = s
  /\ shown' = {} /\ UNCHANGED <<tree, load, leaf, policy, queue, cache>>

\* Another model, other settings.
ChangePolicy(p) ==
  /\ policy' = p
  /\ shown' = {} /\ UNCHANGED <<session, tree, load, leaf, queue, cache>>

Next ==
  \/ TurnEnd
  \/ FilterRequest
  \/ Reset
  \/ AppendMessage
  \/ \E kind \in {"native", "posthorse"}, kept \in 0..MaxEntries : Compact(kind, kept)
  \/ AppendLegacyWindow
  \/ Deliver
  \/ \E e \in 0..Len(tree) : Navigate(e)
  \/ Reload
  \/ \E s \in Sessions : Switch(s) \/ Fork(s)
  \/ \E p \in Budgets \cup {Off} : ChangePolicy(p)

Spec == Init /\ [][Next]_vars

----------------------------------------------------------------------------
(* Properties. *)

\* What the lookup answers, certified from its last state or not, is what a scan
\* of the whole path answers: the last window on it, and every reminder of the
\* active context (docs/reference.md:50).  It holds after compactions, moves in
\* the tree, reloads and changes of the session, whether or not the events that
\* announce them have arrived.
LookupExact ==
  /\ Read.windowId = LastWindow(Path)
  /\ Read.reminders = {e \in Active(Path) : IsReminder(e)}

\* At most one reminder for a window, context size and reserve is in the active
\* context or on its way into it (docs/reference.md:39), however many working turns
\* end in the band before it is delivered.
OneReminder ==
  \A f \in {queue[i] : i \in DOMAIN queue} \cup {tree[e].details : e \in {r \in Active(Path) : IsReminder(r)}} :
    Cardinality({e \in Active(Path) : IsReminder(e) /\ tree[e].details = f})
      + Cardinality({i \in DOMAIN queue : queue[i] = f}) <= 1

ShowsOnlyCurrent ==
  \A e \in shown' :
    /\ policy # Off
    /\ tree[e].details = [window |-> LastWindow(Path), budget |-> policy]

\* A request shows a reminder only in the window and under the policy it was
\* sent for; one sent before a rollover or for another model stays out of it,
\* also when it arrives late or a kept tail carries it.
ShownIsCurrent == [][ShowsOnlyCurrent]_vars
============================================================================
