-------------------------- MODULE PageReservations --------------------------
(***************************************************************************)
(* The shared page budget of the notes and history tools:                  *)
(* src/src/paging.ts over src/src/budget.ts.                               *)
(*                                                                         *)
(* A page tool asks size() how many characters fit, builds its page and    *)
(* reserves the page's tokens before Pi sees the result.  Pi counts the    *)
(* results of a serial batch as each lands, those of a parallel batch only *)
(* when all have; results of nested calls it never counts on their own.    *)
(* A tool's size() and reserve() run in one synchronous step, so one call  *)
(* is one action.  A token is four characters.                             *)
(***************************************************************************)
EXTENDS Integers

CONSTANTS
  MaxPageChars, MinPageChars,   \* MAX_PAGE_CHARS, MIN_PAGE_CHARS
  MarginTokens,                 \* PAGE_MARGIN_TOKENS
  ImageTokens,                  \* ESTIMATED_IMAGE_CHARS / 4
  MinUsable,                    \* MIN_USABLE_TOKENS
  GuidanceTokens,               \* guidanceTokens(ctx)
  OverheadTokens,               \* system prompt and active tools
  RefusalTokens, ErrorTokens,   \* the texts of refuse() and of a tool's own error
  FooterChars,                  \* a continuation line
  FrameSizes,                   \* headers and continuations of history read pages
  Policies,                     \* context window, reserve, enabled
  TextSizes, HeaderSizes, ImageCounts,  \* what tools have to show
  Usages, OtherResults,         \* tokens Pi reports; results of other tools
  MaxCalls, MaxUsage            \* bounds: page calls in one turn, reported usage

ASSUME SizesAssumption ==
  /\ {MaxPageChars, MinPageChars, MarginTokens, ImageTokens, RefusalTokens,
      ErrorTokens, FooterChars, GuidanceTokens, OverheadTokens,
      MinUsable, MaxCalls, MaxUsage} \subseteq Nat
  /\ TextSizes \subseteq Nat /\ HeaderSizes \subseteq Nat
  /\ ImageCounts \subseteq Nat /\ FrameSizes \subseteq Nat
  /\ Usages \subseteq Nat /\ OtherResults \subseteq Nat
  /\ Policies \subseteq [window : Nat, reserve : Nat, enabled : BOOLEAN]
\* What the margin must absorb: header and continuation text outside size(), and
\* an error text that size() has just let through.
ASSUME MarginAssumption ==
  /\ FooterChars <= 4 * MarginTokens
  /\ \A f \in FrameSizes : f <= 4 * MarginTokens
  /\ 0 < MinPageChars /\ MinPageChars <= MaxPageChars
  /\ 4 * ErrorTokens <= MinPageChars

VARIABLES
  pending,      \* accounting.pendingTokens
  lastKnows,    \* accounting.usage: "tokens" (a number), "null" or "nothing" (undefined)
  lastUsage,    \* that number
  \* what Pi does (external)
  inTurn,
  mode,         \* whether the turn's batch runs in series or in parallel
  policy,       \* effective compaction settings and context window
  knows,        \* getContextUsage(): "tokens", "null" tokens, or "nothing"
  usage,        \* its tokens
  \* history, for the properties only
  outstanding,  \* page tokens produced in this turn that Pi has yet to count
  landed,       \* page tokens of this turn that Pi has counted
  nested,       \* page tokens of nested calls, which Pi never counts
  calls,        \* page calls of this turn
  outcome       \* what the last call did

accounting == <<pending, lastKnows, lastUsage>>
hostVars   == <<inTurn, mode, policy, knows, usage>>
history    == <<outstanding, landed, nested, calls, outcome>>
vars == <<pending, lastKnows, lastUsage, inTurn, mode, policy, knows, usage,
          outstanding, landed, nested, calls, outcome>>

TypeOK ==
  /\ pending \in Nat /\ lastUsage \in Nat
  /\ lastKnows \in {"tokens", "null", "nothing"}
  /\ inTurn \in BOOLEAN /\ mode \in {"serial", "parallel"}
  /\ policy \in Policies
  /\ knows \in {"tokens", "null", "nothing"} /\ usage \in Nat
  /\ outstanding \in Nat /\ landed \in Nat /\ nested \in Nat /\ calls \in Nat
  /\ outcome \in {"none", "page", "error", "refused", "imageRefused"}

Init ==
  /\ pending = 0 /\ lastKnows = "nothing" /\ lastUsage = 0
  /\ inTurn = FALSE /\ mode = "serial" /\ policy \in Policies
  /\ knows = "nothing" /\ usage = 0
  /\ outstanding = 0 /\ landed = 0 /\ nested = 0 /\ calls = 0 /\ outcome = "none"

----------------------------------------------------------------------------
(* budget.ts *)

AtLeast0(n)  == IF n < 0 THEN 0 ELSE n
Smaller(m, n) == IF m < n THEN m ELSE n
Tokens(chars) == (chars + 3) \div 4

Usable(p)    == p.window - p.reserve
Supported(p) == ~p.enabled \/ Usable(p) >= MinUsable
\* The tokens a window may hold: the rollover line, or all of it when Pi does
\* not compact there.
Line(p) == IF p.enabled /\ Supported(p) THEN Usable(p) + 1 ELSE p.window

\* Mutant: the fresh window is not halved.
FreshWhole(p) ==
  Smaller(MaxPageChars \div 4,
          AtLeast0(Line(p) - MarginTokens - OverheadTokens - GuidanceTokens))

\* freshPayloadChars in tokens, without pending messages: half of what the
\* prompt, the tools and the guidance leave.
FreshTokens(p) ==
  Smaller(MaxPageChars \div 4,
          AtLeast0((Line(p) - MarginTokens - OverheadTokens - GuidanceTokens) \div 2))

Capacity ==
  IF knows = "tokens" THEN Line(policy) - usage - GuidanceTokens
  ELSE MarginTokens + IF knows = "null" THEN FreshTokens(policy) ELSE MaxPageChars \div 4

----------------------------------------------------------------------------
(* paging.ts *)

\* Mutants: growth of the native usage is not taken off what was reserved, or
\* is taken off without a floor.
ChargedGross == pending
ChargedNoFloor ==
  IF knows = "tokens" /\ lastKnows = "tokens" THEN pending - AtLeast0(usage - lastUsage) ELSE pending

\* reconcile: usage growth since the last call has already counted serial results.
Charged ==
  IF knows = "tokens" /\ lastKnows = "tokens" THEN AtLeast0(pending - AtLeast0(usage - lastUsage)) ELSE pending

Remaining == Capacity - Charged

Size(images) ==
  Smaller(MaxPageChars, 4 * AtLeast0(Remaining - MarginTokens) - images * 4 * ImageTokens)

\* Every answer is reserved before Pi has it.
Reserve(t, isNested) ==
  /\ pending' = Charged + t
  /\ lastKnows' = knows /\ lastUsage' = usage
  /\ outstanding' = IF isNested THEN outstanding ELSE outstanding + t
  /\ nested' = IF isNested THEN nested + t ELSE nested
  /\ calls' = calls + 1 /\ landed' = landed
  /\ UNCHANGED hostVars

\* Mutant: a refusal always carries its guidance.
RefuseAlways(images, isNested) ==
  outcome' = "refused" /\ Reserve(RefusalTokens, isNested)

\* A refusal drops its text when even that no longer fits.
Refuse(images, isNested) ==
  /\ outcome' = IF images = 0 THEN "refused" ELSE "imageRefused"
  /\ Reserve(IF RefusalTokens <= Remaining THEN RefusalTokens ELSE 0, isNested)

Serve(t, isNested) == outcome' = "page" /\ Reserve(t, isNested)
Error(isNested)    == outcome' = "error" /\ Reserve(ErrorTokens, isNested)

\* A call of a page tool; a serial foreground call starts when Pi has counted
\* the one before, nested work may run at any time.
MayCall(isNested) ==
  /\ calls < MaxCalls
  /\ isNested \/ (inTurn /\ (mode = "serial" => outstanding = 0))

\* pages.notes: header, rows up to where the row cap ends, and a footer when rows
\* are left.
NotesPage(isNested, header, text, cap) ==
  LET chars == Size(0) - header
      rows == Smaller(cap, Smaller(text, chars))
      end == IF rows < text THEN Smaller(rows, chars - FooterChars) ELSE rows
  IN
  /\ MayCall(isNested)
  /\ \/ Size(0) < MinPageChars /\ Refuse(0, isNested)
     \/ Size(0) >= MinPageChars /\ chars <= FooterChars /\ Error(isNested)
     \/ /\ Size(0) >= MinPageChars /\ chars > FooterChars
        /\ Serve(Tokens(header + end + IF end < text THEN FooterChars ELSE 0), isNested)

\* notes read: the continuation line comes on top of the page.
ReadNote(isNested, header, text) ==
  LET chars == Size(0) - header
      end == Smaller(text, chars)
  IN
  /\ MayCall(isNested)
  /\ \/ Size(0) < MinPageChars /\ Refuse(0, isNested)
     \/ Size(0) >= MinPageChars /\ chars <= 0 /\ Error(isNested)
     \/ /\ Size(0) >= MinPageChars /\ chars > 0
        /\ Serve(Tokens(header + end + IF end < text THEN FooterChars ELSE 0), isNested)

\* history search: fragments, note of skipped entries and footer stay within size().
SearchHistory(isNested, text) ==
  /\ MayCall(isNested)
  /\ \/ Size(0) < MinPageChars /\ Refuse(0, isNested)
     \/ Size(0) >= MinPageChars /\ Error(isNested)
     \/ Size(0) >= MinPageChars /\ Serve(Tokens(Smaller(text, Size(0))), isNested)

\* history read: one image is in size(); more take their characters from the text.
ReadHistory(isNested, text, images, frame) ==
  LET first == IF images > 0 THEN 1 ELSE 0
      size  == Size(first)
  IN
  /\ MayCall(isNested)
  /\ \/ size < MinPageChars /\ Refuse(first, isNested)
     \/ /\ size >= MinPageChars
        /\ \E n \in first..images :
             LET extra == (n - first) * ImageTokens IN
             /\ 4 * extra <= size - MinPageChars \/ n = first
             /\ n = images \/ 4 * (extra + ImageTokens) > size - MinPageChars
             /\ Serve(Tokens(frame + Smaller(text, size - 4 * extra)) + n * ImageTokens, isNested)

\* A tool's error that goes through pages.error.
FailCall(isNested) ==
  /\ MayCall(isNested)
  /\ \/ Size(0) < MinPageChars /\ Refuse(0, isNested)
     \/ Size(0) >= MinPageChars /\ Error(isNested)

\* turn_start and session_start: reset().
Reset == pending' = 0 /\ lastKnows' = "nothing" /\ lastUsage' = 0

----------------------------------------------------------------------------
(* What Pi does. *)

TurnStart(m, k, u) ==
  /\ ~inTurn /\ inTurn' = TRUE
  /\ mode' = m /\ knows' = k /\ usage' = u
  /\ Reset
  /\ outstanding' = 0 /\ landed' = 0 /\ nested' = 0 /\ calls' = 0 /\ outcome' = "none"
  /\ UNCHANGED policy

\* Pi counts the result of a serial call.
Land ==
  /\ inTurn /\ mode = "serial" /\ outstanding > 0
  /\ usage' = IF knows = "tokens" THEN usage + outstanding ELSE usage
  /\ outstanding' = 0 /\ landed' = landed + outstanding
  /\ UNCHANGED <<accounting, inTurn, mode, policy, knows, nested, calls, outcome>>

\* Another tool of a serial batch returns n tokens.
OtherResult(n) ==
  /\ inTurn /\ mode = "serial" /\ outstanding = 0
  /\ knows = "tokens" /\ usage + n <= MaxUsage
  /\ usage' = usage + n
  /\ UNCHANGED <<accounting, inTurn, mode, policy, knows, history>>

TurnEnd ==
  /\ inTurn /\ inTurn' = FALSE
  /\ usage' = IF knows = "tokens" THEN usage + outstanding ELSE usage
  /\ outstanding' = 0 /\ landed' = landed + outstanding
  /\ UNCHANGED <<accounting, mode, policy, knows, nested, calls, outcome>>

\* Settings and the model's window may change at any time.
ChangePolicy(p) ==
  /\ policy' = p
  /\ UNCHANGED <<accounting, inTurn, mode, knows, usage, history>>

Next ==
  \/ \E n \in BOOLEAN, h \in HeaderSizes, t, cap \in TextSizes : NotesPage(n, h, t, cap)
  \/ \E n \in BOOLEAN, h \in HeaderSizes, t \in TextSizes : ReadNote(n, h, t)
  \/ \E n \in BOOLEAN, t \in TextSizes : SearchHistory(n, t)
  \/ \E n \in BOOLEAN, t \in TextSizes, i \in ImageCounts, f \in FrameSizes :
       ReadHistory(n, t, i, f)
  \/ \E n \in BOOLEAN : FailCall(n)
  \/ \E m \in {"serial", "parallel"}, u \in Usages : TurnStart(m, "tokens", u)
  \/ \E m \in {"serial", "parallel"}, k \in {"null", "nothing"} : TurnStart(m, k, 0)
  \/ Land
  \/ \E n \in OtherResults : OtherResult(n)
  \/ TurnEnd
  \/ \E p \in Policies : ChangePolicy(p)

Spec == Init /\ [][Next]_vars

----------------------------------------------------------------------------
(* Properties. *)

\* The heart of the budget: with a known usage, what is charged against the
\* window is at least what Pi has yet to count, and at most that plus nested
\* pages; with an unknown one, it is every page of the turn.
ChargedExactly ==
  IF knows = "tokens"
    THEN outstanding <= Charged /\ Charged <= outstanding + nested
    ELSE outstanding + landed <= pending

\* No answer of a page tool, with all siblings Pi has yet to count and the
\* guidance, takes the window past the line (docs/reference.md:118): pages,
\* errors and refusals alike, in series or in parallel.
StaysWithinLine ==
  [][(outstanding' > outstanding /\ knows = "tokens") =>
       usage + outstanding' + GuidanceTokens <= Line(policy)]_vars

\* Before usage is known, all pages of a turn leave half of the fresh window
\* free, up to the margin.
LeavesHalfFree ==
  [][(outstanding' > outstanding /\ knows = "null") =>
       2 * (landed + outstanding') <= Line(policy) + MarginTokens - OverheadTokens - GuidanceTokens]_vars

\* Pages already counted by Pi are not counted twice: a page is refused only
\* when the window truly lacks the room for a smallest page beside what Pi
\* counts, what it has yet to count, and the pages of nested calls.
RefusedOnlyWhenFull ==
  [][(calls' > calls /\ outcome' \in {"refused", "imageRefused"} /\ knows = "tokens") =>
       4 * (Line(policy) - usage - outstanding - nested - GuidanceTokens - MarginTokens)
         < MinPageChars + IF outcome' = "refused" THEN 0 ELSE 4 * ImageTokens]_vars
============================================================================
