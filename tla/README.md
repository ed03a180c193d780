# Verification of Posthorse

Posthorse is an extension of the Pi coding agent. It keeps a long task going across context
windows: it rolls a full window over without a summary, lets the model ask for a clean one, keeps
notes outside of the conversation, and pages history and notes into what is left of a window. This
directory holds TLA+ modules translated from its source, the TLC configurations that check them,
and TLAPS proofs about them. Paths below are of the repository; `src/rollover.ts` and the like are
in its `src` directory.

## Inventory

| Component | State | Operations | What makes it correct |
|---|---|---|---|
| Reset requests (`reset-requests.ts`, tool in `context-tools.ts`) | the maps `#active` and `#roots` of a turn | tool start and end, request, take, clear | a reset is granted exactly when the whole foreground batch, nested calls included, succeeded, and it is the first receipt's first handoff |
| Page reservations (`paging.ts`, `budget.ts`) | tokens reserved and the usage they were reserved at | size, reserve, refuse, error, notes page, reset | pages of sibling calls never overrun the window together, and are not counted twice |
| Reminder lookup (`reminders.ts`) | the last answer, certified by the leaf entry's identity | read, reset; the decision to send, the stale filter | the cached answer is that of a full scan; one reminder per window and budget; no stale one is shown |
| Rollover and retention (`rollover.ts`, `retention.ts`) | none of its own: it drafts session entries | turn_end, session_before_compact, context_with_system | what is kept is whole, record and tail leave half of the window, requests are in order |
| Recovery record (`recovery*.ts`, `note-evidence.ts`, `note-tool-effects.ts`) | none; reads the session and the journal of effects on notes | selects inputs, results, notes and earlier records | the owner's latest input is in it, no result is lost unread, it repeats nothing, revives nothing from before a handoff, and claims a note visible only if it is |
| Guidance (`guidance.ts`) | none | a section of the system prompt | it is present once in each request |
| Notes store and forks (`note-store.ts`, `note-snapshots.ts`, `note-provenance.ts`, `note-scopes.ts`, `note-discovery.ts`, `note-inventory.ts`) | a memoised binding of the session to a scope directory; manifests and copies on disk | get, adopt, snapshot, seed a manifest, resolve a reference | a fork never writes its parent's notes, a partial copy is never taken for a whole one |
| Notes tool and guards (`notes.ts`, `note-guards.ts`, `files.ts`) | recorded file paths of pending tool calls | list, read, write, append, search; guards on file tools | foreign notes are read-only, writes are atomic |
| History (`history*.ts`) | none; cursors in the conversation | search, read | every match is found once, in priority order, on live sessions |
| Session archive (`session-files.ts`, `session-lines.ts`, `message-text.ts`) | none | scan files, filter lines | the prefilter loses no match |
| Cards (`ui.ts`, `ui/`), wiring (`index.ts`), contracts | none that others read | rendering, registration | - |

Pi is the environment. It calls the handlers one at a time, but tool calls run concurrently, and a
handler that awaits lets others run. Pi owns the session (a tree of entries below a movable leaf),
its projection to messages, the queue of steering messages, and the decision when to compact.
The components meet in few places: `turn_start` clears both requests and reservations
(`rollover.ts:418`), `turn_end` takes the granted request before anything else and falls through
to the fallback and then the reminder (`rollover.ts:433`), the request filter removes stale
reminders and counts what is left of the retained tail with the same predicate
(`rollover.ts:166`), and page tools, handoffs and records share the arithmetic of `budget.ts`.

Hard behaviours, each listed with its line under "hazards" in PROJECT.json: nested and background
calls that outlive what started them; failures that callers catch; parallel page calls that see the
same usage; a cache whose keys can be reused by another session; messages queued in one window and
delivered in another; tails cut through groups of calls and results; sizes that are checked apart
and must fit together; snapshots that a crash interrupts; sessions that grow while they are read.

## Modules

### ResetRequests, with its contract ResetContract

`ResetContract` says what `docs/reference.md:28` promises of one turn with sets and sequences: the
foreground calls, what became of each, the wishes that were accepted, and the handoff granted.
`ResetRequests` is the class: `active` and `roots` are its two maps, `Start`, `Finish`, `Admit`,
`Take` and `Clear` its methods, and the actions are the events of Pi that call them. A
`ForegroundCall` object is named by the id of its call: both maps are cleared together and an id
starts once. Pi may start nested calls of ended parents (detached work), across turns, and may
abandon a turn without `turn_end`. History variables (`accountable`, `spoiled`, `accepted`) record
what really happened and are read by properties only.

* `Bookkeeping`: the maps tell what happened. A live call is in `#active` exactly if it and all
  above it are live; the state of a foreground call is failed exactly if a call it answers for
  failed, and its handoff is the first one accepted.
* `LegitimateRequestAdmitted`: a request from a tree that is live up to its root is not refused.
* `ImplementsContract`: every step is a step of the contract, or none, under the mapping that reads
  a receipt off the status of a call.

### PageReservations

`pending`, `lastKnows` and `lastUsage` are the accounting object of `paging.ts`. `Capacity` and what
it stands on is `budget.ts`. Each page tool has an action that gives the sizes its page can have,
and which calls `Size` and `Reserve` in one step, as the code does without an `await` between.
Pi counts results of a serial batch one by one, of a parallel batch at its end, and those of nested
calls never (external). `MarginAssumption` names what the margin of 1,000 tokens has to absorb: the
header and continuation line of a history page, which are not in `size()`, and an error text that
`size()` has just let through. Errors that a tool throws by itself (an unknown path, a binary file)
are not reserved by the code, and are results of other tools here.

* `ChargedExactly`: what is charged is at least what Pi has yet to count and at most that and the
  nested pages. The other properties follow from it.
* `StaysWithinLine`, `RefusedOnlyWhenFull`, `LeavesHalfFree`: no page takes the window past the line,
  none is refused while the smallest page would fit, and before usage is known half of the fresh
  window stays free (`docs/reference.md:118`).

### ReminderLookup

The session is a tree of entries with a leaf that `/tree` moves; an entry object is an entry of one
load of a session, so a reload keeps ids and changes identity. `cache` is the closure variable of
`createReminderLookup`; `Read` is its `read`, with the three ways to answer: the leaf is unchanged,
the path has grown (`Extends`), or the walk of `scanAncestry`. Entries are numbered in the order of
creation, so a path is a set and the walk visits the larger number first. `TurnEnd` is a working
turn in the checkpoint band, `FilterRequest` the stale filter, `Reset` both events that reset.

* `LookupExact`: whatever way it answers, the lookup returns what a scan of the whole path would,
  also in the time between a change of the session and the event that announces it.
* `OneReminder`: at most one reminder of a window and budget is active or queued.
* `ShownIsCurrent`: no request shows a reminder of another window or policy.

Assumed of Pi: nothing is queued when a session is navigated, reloaded, switched or forked;
`event.context.pendingMessages` is the whole queue; a compaction keeps an active tail or nothing;
markers of the retired fork precede all compactions. Left out: the branch of `staleReminderPredicate`
that reads the window from a message of the type `context-window` (`rollover.ts:91`); only the host of
the retired fork made such messages, and Pi projects none for a legacy entry.

### Rollover

`log` is the path to the leaf, an entry is its position. `TurnEnd` is the whole `turn_end` handler
with its four outcomes (nothing, explicit reset or its deferral, threshold fallback, reminder);
`BeforeCompact` is `session_before_compact` with the boundary entry that `automaticDraft` appends,
`CancelDraft` what is left when Pi cancels after it; `Request` is the request filter that drops
reminders sent for another window and reorders the retained tail. An earlier handler of the turn may
have drafted a boundary or a context edit (`Drafts`), which the fallback yields to; the draft is
committed with what the handler adds. `BoundedTail`, `Paired` and `SafeStart` are the functions of `retention.ts`. The
native cut is free: the tail may start anywhere from the cut on, so the properties hold for every
cut. Sizes are in tokens; only tool results vary, as the record does. Context edits omit entries;
replacing edits change only sizes and are left out, as are system messages, which every function
here skips, legacy windows, and sessions without a usable budget, in which Pi's own compaction
runs (`NativeCompact`).

* `HalfStaysFree`: after a rollover, record, tail and the input queued at the turn's end leave half
  of what a fresh window has (`docs/reference.md:42`), whichever path made it.
* `TailIsWhole`: what a rollover keeps has every call with its result and every result with its
  call, though the session may have lost some; the record announces a tail exactly if there is one.
* `RequestInOrder`: in a window that Posthorse opened the model reads entries in the order in which
  they happened, the tail before the record, and no answer first.

### NoteFork

The whole life of a fork's binding: `createNotesStore` (`memo`, `Begin`, `Join`, `Settle`, `Fail`),
`loadNotesBinding` and `forkBinding` (`ReadSources`, `AskParent`, `AskGrand`, `ResolveEnds`),
`snapshot` (`Prepare`, the three steps of a copy, `Verify`, `Publish`) and the appended entry
(`AppendBinding`). Whether a binding is to be made is decided when the initialisation begins; a
binding found there is used as it is (`Restore`). There is a step at every `await` between which the disk may look different; the
batched copies run in any order. The parent is a project or a fork of one, so that a reference may
reach a grandparent, or its notes have no single root, and then a branch that used notes cannot be
forked; what its journal and its manifest say it owns are two variables, because the
code reads the first early and the second late. A file is a version: every change that
`sameIdentity` can see makes a new one, in-place edits under an open file included, and a copy
remembers the versions of its two halves. `Crash` loses the memory and keeps the disk, its
`.staging-*` directories apart, which nothing reads.

* `NeverPartial`: a scope in place, and a binding in the session, has every note the branch used,
  each copy is one version of its source, and seeds are backed by published copies.
* `BoundOnce`: one initialisation at a time; the session is bound once, whatever failed before.
* `OwnedNeverFallsBack`: a note that the parent had taken over and deleted is not copied from
  further up.
* `PublishedTakenOver`: a scope in place is not changed, copied again or refused.
* `EveryCallerAnswered`: whoever asks is answered.
* `ResumeRestores` does not hold, see Findings.

### NoteCalls

What the notes tool and the guard of file tools do to a fork's notes, call by call: `read`
(`ReadLooks`, `ReadResolves`), `append` (adoption, then `prepareWrite`, then one synchronous step),
`write` (publish, then record) and edits of a private path, which adopt in the guard and are blocked
if that made a copy. `queue` is Pi's `withFileMutationQueue` of each private path, `manifestQueue`
that of the manifest: first come, first served, taken as external. `EnsureOpens` and `EnsureFills`
are the two steps of an exclusive `writeFile`, as another call sees them; `EnsureChecks` is the
second look of a call that found the file there. Ownership is a set and the presence of a file, as
in `owns`. `told` and `saved` record what calls have reported and are read by properties only.

* `NoFallback`: once a call has said that a note is private, no read refers to the source again:
  not after the file is deleted, the verification failed, or a restart.
* `AppendKeepsPrefix`: an append that adopts extends exactly one version of the source.
* `AdoptionsSaved`: parallel adoptions and first writes lose no seed of the manifest.
* `EveryCallEnds`: the nested queues never wait for each other in a circle.
* `ScopeWritable` and `InheritedPrefixWhole` do not hold, see Findings.

Left out: creations through file tools on a private path (they only prepare the manifest),
operations on foreign paths (refused without effect, or an adoption as in an edit), and the listing
of scopes.

### HistorySearch

A walk is what a model does with `history search`: call after call with the cursor of the page
before, until a page says that there is no more. `SearchArchive` and `ScanFile` are
`archivedMatches`, one step per file, since other sessions append while a file is awaited;
`SearchBranch` is `branchMatches`, which awaits nothing. `scan` is the `SearchAccumulator` with its
two `groups`; `Recent` is what `archiveCollector` keeps of a file; `AddPart` is `hitFragment` and the
loop of `searchParts`. `Deliver` answers with a page for the `room` that the budget leaves, and
`Refuse` refuses one (`PageReservations` says when). An entry is its place in a file; only entries
that match are modelled, with the size of their excerpt and their priority. `Write`, `Leave` and
`Navigate` are other calls and sessions. `due`, `shown` and `calm` record what there was to show,
what was shown, and whether the files kept their order, and are read by properties only.

* `AllShown`: a walk to its last page has shown every hit that there was at its start, whole.
* `ContinuesExactly`: no character of a hit is left out or repeated by the cut between two pages.
* `OriginalsFirst`: an echo is shown only after all originals, also over pages.
* `CursorAdvances`: each cursor lies behind the last one, so appended lookups cannot keep a walk
  going.
* `CursorHonoured`: a walk fails if and only if the entry of its cursor is not to be found any more.

The first four are claimed while `calm`: the documentation says that reordered files may change
results (`docs/reference.md:122`), and so does another branch. Writes to the file in front, new
windows and edits are allowed. `SubSeq` and folds stand for the loops. A branch is any set of
entries, a superset of the paths of a tree. Left out: cancellation, which only ends a call; the
ripgrep prefilter, which may also leave out a file whose first match is appended during the search;
edits of session files by other programs; entries without an id; a room too small for the mark of a
cut hit, which the minimum of 1000 characters excludes for the ids that Pi makes.

### Recovery, with RecoverySession, RecoveryInputs and RecoveryNotes

What a record says, and goes back to, over a whole session. `RecoverySession` is the evidence:
`log`, the path to the leaf, and `effects`, the journal that `SessionNotes.record` writes; with the
windows of `contextStart`, the chain of automatic boundaries, the edits, and the tails that retention
allows (`Rollover` says which one by size; here every one is tried). `RecoveryInputs` is the choice
of inputs and tool results: a set of entries stands for a list in their order. `RecoveryNotes` is
the way from the effects of calls to the lines of notes: `Content` what the messages show of a call,
`Recorded` what the journal has of it, `Touches` both, `Scoped` their place in a fork, `Tracked` the
fold of `applyTouch`. `BuildAutoHandoff` puts the parts together, and `Rollover(tail, fit)` appends
the boundary with that record; `fit` is how many headers of results there is room for. The other
actions are Pi's: input, responses that may be cut off, results that may be late, background scripts
with their completions, edits, explicit resets, Pi's own compaction, a fork. What a message says is
left out; an edit that replaces a text takes the calls out of a message and the path out of a notes
result.

* `LatestOwnerKept`: however many records follow one another, the owner's latest input or answer
  since the last handoff is in the tail, quoted, or carried.
* `NothingRepeated`: nothing that the tail shows is in the record too, although an edit gives an
  entry another reference; nothing is carried when the owner has spoken in this window.
* `NothingRevived`: nothing comes from before the last boundary that is an explicit reset or Pi's
  own, nothing that was edited out comes back, and an automatic record is never nested in another.
* `UnseenToldUnlessOvertaken`: a result that the model never received, because no response after it
  was complete or had one of its own calls answered, is named, or counted among the earlier ones;
  unless the result of an async call of an earlier response arrived after a response that was cut
  off. `UnseenResultsTold` is the same without the exception, and does not hold, see Findings.
* `NotesTold`: where a line says that the latest full write is visible in the tail, it is, with all
  changes since; and a note of this session that was written and not cleared has a line.

What these leave out, and a reader of a record should know: (a) until the completion of a background
script arrives, its effects are placed at its launch (`note-evidence.ts:79`), so a line may call an
older write the latest; (b) a clear by such a script, delivered after a later write by another call,
removes the line of that write; (c) a file tool's relative spelling of a note, `.pi/notes/a.md`, is
a file of its own (`recovery-note-touches.ts:101`), so the note has two lines, and a clear through
the notes tool leaves the one; (d) a cleared note whose call was edited out of the context counts as
written, since the result of an empty write reads like any other, and the line says to read it.
`Evident`, `Active` and the condition on paths in `TellsNotes` say so in the model. Left out: the
wording of a record and how its characters are divided among its parts (which leaves a line, a list
entry or an excerpt out when it does not fit); the advice at the end of the notes section, which
follows from its first line; legacy windows; reads of notes under the spelling of another scope.

### Findings

Four runs show a disagreement between documentation and code; each is a short trace.

* `note_fork_resume`: the scope is published, the process dies before the session records it, a
  source note is removed: every start fails with "source note unavailable" while the note is missing, beside the
  complete scope. `docs/reference.md:166` says that resume restores the existing scope. The code
  looks for a published scope only after it has resolved the sources again.
* `note_first_write`: two notes of an empty fork are written in parallel: the second finds
  `manifest.json` created and still empty, and is refused for an "unexpected notes manifest" that is
  its own session's. `docs/reference.md:145` gives the fork a writable scope.
* `note_append_restart`: the process dies while an adoption copies: part of the note stays at the
  private path, counts as owned, and the next append extends it. `docs/reference.md:200` says that
  the inherited prefix is preserved. (A copy whose check fails in a live process is reported.)
* `recovery_late_result`: a response makes an async call and an ordinary one, the ordinary result
  arrives, the next response is cut off, the async result arrives, and a rollover keeps no tail. The
  ordinary result is neither named nor counted, though no complete response followed it:
  `trailingStart` takes the async result for an answer to the response that was cut off.
  `docs/reference.md:43` says that such results are kept from the trailing batch without a later
  complete response. Async calls occur in the journals of older hosts only, as the same line says.

## Runs and bounds

All runs are exhaustive. Names in PROJECT.json, and what the bounds let happen:

* `reset_requests`: four calls, two handoffs, two turns, by symmetry. Four calls make a foreground
  call with a nested call that nests one more beside a sibling; two turns let background calls of
  the first reach the second.
* `page_reservations`: the code's sizes scaled down, keeping their order, three page calls in a turn
  and three policies (normal, unsupported, compaction off). Three calls are the least in which a
  call sees growth caused by a second while a third is outstanding.
* `reminder_paths`: two sessions of up to four entries, two loads, two budgets, two queued reminders.
  A kept tail with a reminder before a window before the leaf takes four entries, and a reused id
  takes one, so each load leaves room for two entries less; a reminder on its way counts as the entry
  that it will be (`LoadsShorten`).
* `rollover`: six entries, two calls in an answer, tool results of one and of seven tokens in a window
  of eleven, one queued message and one omission. A full record and a tail of two messages fit, a
  large handoff does not, and a large result brings a fresh window to the line. Queued input has five
  tokens: with it, a small handoff that was admitted before it came must be deferred, and no tail fits.
  `CHECK_DEADLOCK FALSE`: the model stops when the log is full.
* `note_fork`: two notes, two callers, one change of a source and one crash. A second note makes
  batches partial, a second caller makes sharing matter; one change is enough to spoil a copy, one
  crash to separate any two steps; a failed start is tried again without bound. TLC's symmetry is
  unsound for liveness: instead, of two sessions that differ in the names of their notes only one is
  started from, and of callers that are all idle, so alike, the same one begins (`MCSpec`).
  `note_fork_resume`: one caller is enough.
* `note_calls`: two notes, two calls that run once, two changes by other programs and one crash. Two
  calls meet in one note's queue, or in the manifest's with two notes. The runs say `CHECK_DEADLOCK
  FALSE`, because a behaviour ends when both calls have run; `EveryCallEnds` finds the deadlocks that
  matter. `note_first_write` and `note_append_restart` are the smallest instances that show the
  findings.
* `history_search`: two files with three matches at the start and one that is appended, one new
  window, edit or move of the branch, and searches for one or two results. Three hits and an appended
  one exceed what a file's window keeps for a page of one (`Kept`), and leave a cursor's entry, a page
  and one more to be told apart. A hit has four characters; a page has room for two of them with a
  mark, or for two whole hits. `CHECK_DEADLOCK FALSE`: a behaviour ends with its walk.
* `recovery`: ten mixes of calls, edits and scopes (`Mixes`), each to a length of five to seven
  entries, since all kinds together could be checked only at lengths too short to matter: chains of windows with edits, with
  answers, with coordination, unseen and late results, what the tail shows of notes, background
  scripts, edits of notes calls, spellings and limits, and forks. Six entries make two windows with an
  input each before a rollover; seven make two writes with their results before one; five with a
  late call, a cut response and two results. `recovery_late_result` is the smallest instance that
  shows its finding: one mix of five entries, without edits. One edit is enough, because only the last of an entry counts.
  One line of each kind, and room for one header or for all, let both limits be reached.
  `CHECK_DEADLOCK FALSE`: the model stops when the log is full.

Fairness is assumed in `NoteFork` and `NoteCalls` only: file operations and promises settle, so an
initialisation or a call that has begun takes its next step (weak fairness of `Initialise(c)` and
`Step(c)`). Nothing is assumed of other programs, of cancellation or of crashes. The other modules
claim no liveness: their handlers run to the end in one call, and when Pi calls is Pi's.

## Proofs

| Theorem | For all | By |
|---|---|---|
| `ResetRequestsProofs`: `TypeCorrect`, `BookkeepingCorrect`, `LegitimateRequestsAdmitted`, `ClassImplementsContract` | calls, handoffs, number of turns | an inductive invariant of the maps against the history: live calls are active, roots are faithful, names are of started calls, wishes are of this turn's roots |
| `PageReservationsProofs`: `TypeCorrect`, `ChargeCorrect`, `WithinLine`, `RefusalsJustified`, `FreshHalfStaysFree` | sizes that meet the two assumptions | `ChargedExactly` is inductive once one knows that counted pages are in the usage: the usage has grown by at least what has landed since the last call; with an unknown usage every page stays charged, and what is left is the fresh share |
| `ReminderLookupProofs`: `TypeCorrect`, `LookupAlwaysExact`, `OnlyCurrentShown`, `ReminderIsSingle` | sessions, budgets, entries, loads, reminders on their way | `Ancestry` (a path holds its entries' paths) and `Certified` (a cache of this load is exact for the path of its leaf); for the last, `Singles` (the active reminders differ for every entry that may become the leaf, since an append adds at most itself to what is active) and `QueueDiffers` |
| `NoteCallsProofs`: `TypeCorrect`, `NeverFallsBack`, `AdoptionsStaySaved`, `AppendsKeepPrefix` | notes, calls, changes, crashes | `Places`: who is in a queue is there once, for its own note; `KnownOwned`: what was reported or saved is recorded; `Saving`: who saves has the manifest's queue to itself and has read the manifest as it is; `Turns` and `Copies`: who adopts or appends is at the head of its note's queue, and versions only grow, so `before` ≤ `first` ≤ `second` ≤ the source's version, all equal once the copy is verified |
| `NoteForkProofs`: `TypeCorrect`, `BoundJustOnce`, `OwnedIsFinal`, `PublishedStays`, `RecordsAreWhole` | notes, callers, changes, crashes | `Single`: only one caller is not idle, and only a session without a binding is given one; `Chosen`: whoever copies has an answer for every note and an empty place to publish in; `Remembered`: what was owned at the start is in the journal as it was read; `OneVersion`: versions are read in order and only grow; `Recorded`: what is about to be appended is whole and, if it has seeds, in place |
| `RecoveryProofs`: `TypeCorrect`, `RecordsRepeatNothing`, `UnseenIsTold`, `UnseenIsToldWithoutAsync` | calls, notes, limits, lengths of sessions | a session only grows by entries that fit it; a tail has the question of each answer in it, so a carried answer in the tail would be an input of this window; what was not received and not overtaken lies behind `TrailingStart`, since a result that is not of an async call follows no response but its own; the named results are the last of the recoverable ones; without async calls nothing is overtaken |
| `RecoveryProofs`: `RecordsReviveNothing` | as `RecoveryProofs` | `Forward`: no window starts before the handoff that it follows, because a boundary keeps only what the window it closes shows; every window of the chain follows the last handoff, so nothing a record quotes, lists, names or carries is older |
| `RecoveryProofs`: `LatestOwnerIsKept` | as `RecoveryProofs` | `Answered`: only results and edits come between a question and its answer, so no window starts between them and an answer is an owner input of each window it is in; what the last window does not show is in one that a boundary of the chain closed, and the nearest with an owner input is that of the latest |
| `RolloverProofs`: `TypeCorrect`, `RequestsInOrder`, `TailsAreWhole`, `HalfIsFree` | budgets, costs, records, lengths of sessions | `LogOK`: a compaction keeps entries before it, and a boundary of Posthorse that announces no tail keeps nothing or the sentinel beside it; `Outcome`: a step changes no entry, and if it commits a boundary that is a record within the limit with a tail that may be kept (`RollsOver`), so the tail shown next is the one that was measured; `SameCost`: entries that two sessions share cost the same in both, though the sum over a set is not computed; the two retained runs and the rest are each in the order of the entries, and so is their join |
| `HistorySearchProofs`: `TypeCorrect`, `CursorsAreHonoured` | files, entries, sizes, rooms, limits | `Sound`: a search that seeks has the file of its cursor's entry before it unless the entry is hidden, and one that collects has found it; `AddInduction`, `BranchInduction` and `PartInduction` say once what holds at every step of the three folds |
| `HistorySearchProofs`: `NothingIsLeftOut`, `PagesContinue`, `EchoesWait`, `CursorsAdvance` | as above, while no file changes places and the branch does not move | `InOrder`: `Ahead` is the walk's order, fixed while `calm`; `ShownInOrder`: the pages have shown exactly what lies before the cursor; `ScanInOrder`: what a search holds is in that order and behind the cursor, and every hit that is due in a file that was read is held, was shown, or lies behind all that a page can hold (`Covered`); `DuesOK`: what is due is not hidden from any later search |

Assumptions are the named ones of the modules: names differ, sizes are natural numbers, and for
pages the margin covers what it is there for. `BookkeepingCorrect` is needed as it stands for the
contract: a turn grants the first settled root, so the state of every root must tell what became of
its tree. `Certified` is what makes the lookup's short cut right: a state made for an entry object
stays true of that object's path because entries are never changed, and the walk gives it up at the
first boundary.

`FreshHalfStaysFree` is under the hypothesis `Roomy`: the line of every policy holds the margin, the
system prompt, the tools and the guidance. The code does not enforce it: with a smaller line
`freshPayloadChars` is zero, a page call answers with its refusal, and the refusal alone may pass the
bound of `LeavesHalfFree`. The instance of the run meets it; what holds without it is `FreshShare`.

Model-checked only: `EveryCallerAnswered` and `EveryCallEnds`, which are liveness under fairness and
out of TLAPS' reach here, and `NotesTold`, whose claims come from a fold over the touches of all
effects.


## Plan

1. `ResetRequests`, `PageReservations`, `ReminderLookup`, `Rollover`: the core of a turn (done).
2. `NoteFork` and `NoteCalls`: a fork's notes, from the making of its scope to the calls that use it
   (done). Still to do here: `NoteGuards`, which operations the input of a file tool stands for and
   what the guard does to foreign paths while `/tree` moves; `NoteDiscovery`, the collapsing of
   identical copies; an abstract specification of the pair: a fork sees its parent's notes as of
   the fork until it takes them over, and never changes them.
3. `HistorySearch`: search with cursors over sessions that grow and a branch that moves (done).
   Still to do here: an abstract walk that shows each hit once, with `HistorySearch` refining it
   while no file changes places; `history read` of one entry, text and images, and the search for
   its id.
4. `Recovery`, with `RecoverySession`, `RecoveryInputs` and `RecoveryNotes`: what a record names and
   claims, over chains of windows (done). Still to do here: a script's effects between its launch and
   its completion, claimed as `NotesTold` claims the others.
5. Proofs: `NotesTold`, from what holds at every touch of the fold. Every other safety and action
   property of a passing run is proved.
