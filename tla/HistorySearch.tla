---------------------------- MODULE HistorySearch ----------------------------
(***************************************************************************)
(* A search of the history, page after page: src/src/history-search.ts     *)
(* ranks and collects the matches, history-pages.ts cuts a page and makes  *)
(* the cursor of the next, session-files.ts lists the files.               *)
(*                                                                         *)
(* Entries are appended while a search goes on, by the searching session   *)
(* (its own lookups are entries that match) and by others; a new window    *)
(* takes entries out of the context, and /tree moves the branch.  A cursor *)
(* is all that a page leaves behind: the next search starts from the files *)
(* as they are.  Only entries that match the query are modelled; the rest  *)
(* of a file does not bear on what is found.                               *)
(***************************************************************************)
EXTENDS Integers, FiniteSets, SequencesExt

CONSTANTS
  Current,      \* the searching session's file
  Others,       \* session files of the same project
  Limits,       \* results that a search may ask for on its page, at most
  Sizes,        \* characters that a hit may print
  Rooms,        \* characters that a page may have for hits
  Mark,         \* characters that say where a hit that is cut goes on
  MaxStart,     \* bound: matching entries at the start, in all files
  MaxWrites,    \* bound: matching entries that are written afterwards
  MaxMoves      \* bound: new windows, edits and moves in the tree

Files == Others \cup {Current}

ASSUME FilesAssumption == IsFiniteSet(Others) /\ Current \notin Others
ASSUME SizesAssumption == /\ Limits \subseteq Nat \ {0} /\ Sizes \subseteq Nat \ {0}
                          /\ Mark \in Nat /\ Rooms \subseteq {r \in Nat : r > Mark}
ASSUME BoundsAssumption == MaxStart \in Nat /\ MaxWrites \in Nat /\ MaxMoves \in Nat

VARIABLES
  \* the session directory and the session
  log,          \* the entries of each file that match, oldest first
  order,        \* the files, newest modified first
  branch,       \* which entries of Current are on the active branch
  active,       \* which of them the model sees in its context
  \* a walk: searches that each continue from the cursor of the page before
  walk,         \* "ready" for its next search, "scanning", "done" or "failed"
  all,          \* whether the walk searches every file, or the active branch
  cursor,       \* where the last page stopped
  scan,         \* the search that is running
  writes, moves,
  \* history, for the properties only
  due,          \* the hits there were to find when the walk began
  shown,        \* how many characters of each hit its pages have shown
  page,         \* the fragments of the last page
  calm          \* no file has changed places, and the branch has not moved

sessionVars == <<log, order, branch, active, writes, moves>>
historyVars == <<due, shown, page, calm>>
vars == <<log, order, branch, active, walk, all, cursor, scan,
          writes, moves, due, shown, page, calm>>

Priorities == {0, 1}   \* originals, and echoes of what was recovered
Hit == [file : Files, pos : 1..(MaxStart + MaxWrites)]
NoHit == [file |-> Current, pos |-> 0]
NoCursor == [hit |-> NoHit, offset |-> 0]
NoScan == [left |-> <<>>, hidden |-> {}, limit |-> 0, seeking |-> FALSE, groups |-> [p \in Priorities |-> <<>>]]

Positions(f) == 1..Len(log[f])
Matches == {h \in Hit : h.pos \in Positions(h.file)}
PriorityOf(h) == log[h.file][h.pos].priority
SizeOf(h) == log[h.file][h.pos].size
TypeOK ==
  /\ \A f \in Files : log[f] \in Seq([priority : Priorities, size : Sizes])
  /\ ToSet(order) = Files /\ Len(order) = Cardinality(Files)
  /\ branch \subseteq Positions(Current) /\ active \subseteq branch
  /\ walk \in {"ready", "scanning", "done", "failed"} /\ all \in BOOLEAN
  /\ cursor # NoCursor => cursor.hit \in Matches /\ cursor.offset \in 1..SizeOf(cursor.hit)
  /\ ToSet(scan.left) \subseteq Files /\ scan.limit \in Limits \cup {0} /\ scan.seeking \in BOOLEAN
  /\ \A p \in Priorities : /\ ToSet(scan.groups[p]) \subseteq {h \in Matches : PriorityOf(h) = p}
                           /\ Len(scan.groups[p]) <= scan.limit + 1
  /\ due \subseteq Matches /\ calm \in BOOLEAN /\ writes \in 0..MaxWrites /\ moves \in 0..MaxMoves
  /\ \A h \in Hit : shown[h] \in Nat /\ (shown[h] > 0 => h \in Matches /\ shown[h] <= SizeOf(h))

\* What a path holds from a context's start on.
From(path, k) == {p \in path : p >= k}

Entries(l) == Cardinality({h \in Hit : h.pos \in DOMAIN l[h.file]})
Logs == UNION {[1..n -> [priority : Priorities, size : Sizes]] : n \in 0..MaxStart}

Init ==
  /\ log \in {l \in [Files -> Logs] : Entries(l) <= MaxStart}
  /\ order \in SetToSeqs(Files)
  /\ branch = Positions(Current) /\ active \in {From(branch, k) : k \in 1..MaxStart + 1}
  /\ walk = "ready" /\ all \in BOOLEAN
  /\ cursor = NoCursor /\ scan = NoScan
  /\ writes = 0 /\ moves = 0 /\ due = {} /\ shown = [h \in Hit |-> 0] /\ page = <<>> /\ calm = TRUE

----------------------------------------------------------------------------
(* Ranking: SearchAccumulator. *)

\* The text of an entry that is hidden is in the context, or off the branch that is searched.
Found(s, h) == ~(h.file = Current /\ h.pos \in s.hidden)

Anchor(h) == cursor # NoCursor /\ h = cursor.hit
Behind(p) == cursor # NoCursor /\ p < PriorityOf(cursor.hit)
SeekingIn(s, p) == s.seeking /\ p = PriorityOf(cursor.hit)

\* The page before has shown all of the entry that the cursor names.
Finished(h) == cursor.offset = SizeOf(h)

\* Mutant: all that a file has kept is collected.
CollectAll(s, h) == [s EXCEPT !.groups[PriorityOf(h)] = Append(@, h)]

Collect(s, h) ==
  IF Len(s.groups[PriorityOf(h)]) <= s.limit
  THEN [s EXCEPT !.groups[PriorityOf(h)] = Append(@, h)]
  ELSE s

\* Mutant: the first hit ends the search for the cursor's entry.
AddNext(s, h) ==
  IF Behind(PriorityOf(h)) THEN s
  ELSE Collect([s EXCEPT !.seeking = @ /\ ~SeekingIn(s, PriorityOf(h))], h)

Add(s, h) ==
  IF Behind(PriorityOf(h)) THEN s
  ELSE IF ~SeekingIn(s, PriorityOf(h)) THEN Collect(s, h)
  ELSE IF ~Anchor(h) THEN s
  ELSE LET found == [s EXCEPT !.seeking = FALSE]
       IN IF Finished(h) THEN found ELSE Collect(found, h)

Enough(s) == Len(s.groups[0]) > s.limit

\* Mutant: newest first, whatever its priority.
EchoesFirst(s) == s.groups[1] \o s.groups[0]

Ranked(s) == s.groups[0] \o s.groups[1]

----------------------------------------------------------------------------
(* Searching. *)

At(f, i) == [file |-> f, pos |-> i]
HitsOf(f, p) == {i \in Positions(f) : PriorityOf(At(f, i)) = p /\ Found(scan, At(f, i))}

\* The highest n positions of S.
Latest(S, n) == {i \in S : Cardinality({j \in S : j > i}) < n}

NewestFirst(f, S) ==
  [k \in 1..Cardinality(S) |-> At(f, CHOOSE i \in S : Cardinality({j \in S : j > i}) = k - 1)]

\* Mutant: there is room for the cursor's entry or for the look ahead, not for both.
KeptOne == scan.limit + 1

\* Of a file, the cursor's entry, a page and one more.
Kept == scan.limit + 2

\* archiveCollector: the newest hits of a file, or the newest up to the cursor's entry if that is
\* still to be found.
Recent(f, p) ==
  LET hits == HitsOf(f, p)
      upTo == IF ~SeekingIn(scan, p) THEN hits
              ELSE {i \in hits : cursor.hit.file = f /\ cursor.hit.pos \in hits /\ i <= cursor.hit.pos}
  IN NewestFirst(f, Latest(upTo, Kept))

Begin(limit, hidden, left) ==
  [NoScan EXCEPT !.limit = limit, !.hidden = hidden, !.left = left, !.seeking = cursor # NoCursor]

\* The hits that a walk is to show are those of its first search.
DueNow == IF cursor = NoCursor /\ page = <<>>
          THEN {h \in Matches : (all \/ h.file = Current) /\ Found(scan', h)}
          ELSE due

\* What the context shows is fixed when the call is made, and so is the order of the files.
SearchArchive(limit) ==
  /\ walk = "ready" /\ all
  /\ walk' = "scanning"
  /\ scan' = Begin(limit, active, order)
  /\ due' = DueNow
  /\ UNCHANGED <<sessionVars, all, cursor, shown, page, calm>>

\* archivedMatches: the search reads the next file.
ScanFile ==
  /\ walk = "scanning" /\ scan.left # <<>>
  /\ LET f == Head(scan.left)
         after == FoldLeft(Add, [scan EXCEPT !.left = Tail(@)], Recent(f, 0) \o Recent(f, 1))
     IN scan' = IF Enough(after) THEN [after EXCEPT !.left = <<>>] ELSE after
  /\ UNCHANGED <<sessionVars, walk, all, cursor, historyVars>>

AddUnlessEnough(s, h) == IF Enough(s) \/ ~Found(s, h) THEN s ELSE Add(s, h)

\* branchMatches: the branch is read from its leaf, at once.
SearchBranch(limit) ==
  /\ walk = "ready" /\ ~all
  /\ walk' = "scanning"
  /\ scan' = FoldLeft(AddUnlessEnough,
                      Begin(limit, active \cup (Positions(Current) \ branch), <<>>),
                      NewestFirst(Current, Positions(Current)))
  /\ due' = DueNow
  /\ UNCHANGED <<sessionVars, all, cursor, shown, page, calm>>

----------------------------------------------------------------------------
(* A page: searchParts. *)

\* Mutant: every hit is shown from its start.
FromStart(h) == 0

\* How much of a hit earlier pages have shown.
Offset(h) == IF Anchor(h) THEN cursor.offset ELSE 0

\* One more fragment, if it fits: later hits are shown whole or not at all.
AddPart(a, h) ==
  LET from == Offset(h)
      mark == IF from > 0 \/ SizeOf(h) > a.room THEN Mark ELSE 0
      to == IF from + a.room - mark < SizeOf(h) THEN from + a.room - mark ELSE SizeOf(h)
      left == a.room - (mark + to - from) - 1
      count == Len(a.parts) + 1
  IN IF a.full \/ (a.parts # <<>> /\ SizeOf(h) - from > a.room) \/ mark >= a.room
     THEN [a EXCEPT !.full = TRUE]
     ELSE [parts |-> Append(a.parts, [hit |-> h, from |-> from, to |-> to]),
           room |-> left, full |-> left <= 0 \/ count >= scan.limit, of |-> a.of,
           next |-> IF to < SizeOf(h) \/ count < a.of THEN [hit |-> h, offset |-> to] ELSE NoCursor]

Parts(room) == LET hits == Ranked(scan)
               IN FoldLeft(AddPart, [parts |-> <<>>, room |-> room, full |-> FALSE,
                                     of |-> Len(hits), next |-> NoCursor], hits)

\* Mutant: a cursor that is not found again ends the walk in silence.
LostNever == FALSE

\* The cursor's entry is not among the hits any more.
Lost == scan.seeking

Scanned == walk = "scanning" /\ scan.left = <<>>

Fail ==
  /\ Scanned /\ Lost
  /\ walk' = "failed" /\ scan' = NoScan
  /\ UNCHANGED <<sessionVars, all, cursor, historyVars>>

Deliver(room) ==
  /\ Scanned /\ ~Lost
  /\ LET p == Parts(room)
     IN /\ page' = p.parts
        /\ shown' = [h \in Hit |-> IF \E i \in DOMAIN p.parts : p.parts[i].hit = h
                                   THEN (CHOOSE x \in ToSet(p.parts) : x.hit = h).to
                                   ELSE shown[h]]
        /\ IF p.next = NoCursor THEN walk' = "done" /\ cursor' = cursor
                                ELSE walk' = "ready" /\ cursor' = p.next
  /\ scan' = NoScan
  /\ UNCHANGED <<sessionVars, all, due, calm>>

\* Too little of the context is left: the call may be made again with the same cursor.
Refuse ==
  /\ Scanned /\ ~Lost
  /\ walk' = "ready" /\ scan' = NoScan
  /\ UNCHANGED <<sessionVars, all, cursor, historyVars>>

----------------------------------------------------------------------------
(* The sessions go on. *)

Started == walk # "ready" \/ page # <<>>
FilePlace(f) == CHOOSE i \in DOMAIN order : order[i] = f
ToFront(f) == [k \in DOMAIN order |-> IF k = 1 THEN f
                                      ELSE IF k <= FilePlace(f) THEN order[k - 1] ELSE order[k]]

\* A session writes an entry that matches.  Current's is on the branch and in the context, where
\* a reminder does not count as seen.
Write(f) ==
  /\ walk \in {"ready", "scanning"} /\ writes < MaxWrites
  /\ writes' = writes + 1
  /\ order' = ToFront(f)
  /\ LET new == IF f = Current THEN {Len(log[f]) + 1} ELSE {}
     IN \E p \in Priorities, n \in Sizes :
          /\ log' = [log EXCEPT ![f] = Append(@, [priority |-> p, size |-> n])]
          /\ branch' = branch \cup new
          /\ active' = active \cup new \/ (p = 1 /\ active' = active)
  /\ calm' = (calm /\ (Started /\ all => Head(order) = f))
  /\ UNCHANGED <<walk, all, cursor, scan, moves, due, shown, page>>

\* A new window, or an edit, takes entries out of the context.
Leave ==
  /\ walk \in {"ready", "scanning"} /\ moves < MaxMoves
  /\ \E i \in active : active' = From(active, i + 1) \/ active' = active \ {i}
  /\ moves' = moves + 1
  /\ UNCHANGED <<log, order, branch, writes, walk, all, cursor, scan, historyVars>>

\* /tree moves to another branch, which has a context of its own.
Navigate ==
  /\ walk \in {"ready", "scanning"} /\ moves < MaxMoves
  /\ \E path \in SUBSET Positions(Current), k \in 1..Len(log[Current]) + 1 :
       branch' = path /\ active' = From(path, k)
  /\ moves' = moves + 1
  /\ calm' = (calm /\ ~Started)
  /\ UNCHANGED <<log, order, writes, walk, all, cursor, scan, due, shown, page>>

Next ==
  \/ \E limit \in Limits : SearchArchive(limit) \/ SearchBranch(limit)
  \/ ScanFile \/ Fail \/ Refuse
  \/ \E room \in Rooms : Deliver(room)
  \/ \E f \in Files : Write(f)
  \/ Leave \/ Navigate

Spec == Init /\ [][Next]_vars
----------------------------------------------------------------------------
(* Properties. *)

(* A walk to its last page shows every hit there was when it began, whole, *)
(* whatever the sessions append and whichever pages are refused            *)
(* (docs/reference.md:122).                                                *)
AllShown == walk = "done" /\ calm => \A h \in due : shown[h] = SizeOf(h)

(* A page goes on where the pages before it stopped: no character of a hit *)
(* is left out or shown twice (history-pages.ts:47).                       *)
ContinuesExactly ==
  [][calm => \A i \in DOMAIN page' :
               page' = page \/ page'[i].from = shown[page'[i].hit]]_vars

(* An echo is shown only when there is no original left to show, however   *)
(* recent the echo is (docs/reference.md:122).                             *)
OriginalsFirst ==
  [][calm /\ page' # page /\ (\E i \in DOMAIN page' : PriorityOf(page'[i].hit) = 1)
     => \A h \in due : PriorityOf(h) = 0 => shown'[h] = SizeOf(h)]_vars

\* The order of a walk: priority, then file, then age, then the place in the text.
Precedes(c, d) ==
  \/ PriorityOf(c.hit) < PriorityOf(d.hit)
  \/ /\ PriorityOf(c.hit) = PriorityOf(d.hit)
     /\ \/ FilePlace(c.hit.file) < FilePlace(d.hit.file)
        \/ /\ c.hit.file = d.hit.file
           /\ \/ d.hit.pos < c.hit.pos
              \/ d.hit.pos = c.hit.pos /\ c.offset < d.offset

(* Every cursor lies behind the one before, so what is appended meanwhile, *)
(* the walk's own lookups above all, cannot keep it alive                  *)
(* (docs/reference.md:122).                                                *)
CursorAdvances ==
  [][calm /\ cursor # NoCursor /\ cursor' # cursor => Precedes(cursor, cursor')]_vars

(* A walk fails exactly if the entry of its cursor is not to be found any  *)
(* more; it never goes on from somewhere else or ends as if it were done   *)
(* (history-search.ts:176).                                                *)
CursorHonoured ==
  [][Scanned /\ walk' # walk /\ cursor # NoCursor
     => (walk' = "failed" <=> ~Found(scan, cursor.hit))]_vars
=============================================================================
