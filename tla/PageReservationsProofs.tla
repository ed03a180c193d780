----------------------- MODULE PageReservationsProofs -----------------------
(***************************************************************************)
(* Proofs about PageReservations for all sizes, policies and usages that   *)
(* meet its two assumptions, and for any number of calls.                  *)
(***************************************************************************)
EXTENDS PageReservations, TLAPS

\* The shape of the accounting between calls; inductive with TypeOK.
Accounting ==
  /\ ChargedExactly
  /\ knows # "tokens" => lastKnows # "tokens"
  /\ knows = "tokens" /\ lastKnows # "tokens" => pending = 0
  /\ lastKnows = "tokens" => lastUsage <= usage

\* The disjuncts of Next that are calls of page tools.
PageCall ==
  \/ \E n \in BOOLEAN, h \in HeaderSizes, t, cap \in TextSizes : NotesPage(n, h, t, cap)
  \/ \E n \in BOOLEAN, h \in HeaderSizes, t \in TextSizes : ReadNote(n, h, t)
  \/ \E n \in BOOLEAN, t \in TextSizes : SearchHistory(n, t)
  \/ \E n \in BOOLEAN, t \in TextSizes, i \in ImageCounts, f \in FrameSizes :
       ReadHistory(n, t, i, f)
  \/ \E n \in BOOLEAN : FailCall(n)

\* One call of a page tool: it reserves some tokens, and none that do not fit.
Answer(n, t) ==
  /\ Reserve(t, n)
  /\ t = 0 \/ t <= Remaining
  /\ outcome' \in {"page", "error", "refused", "imageRefused"}
  /\ outcome' = "refused" => Size(0) < MinPageChars
  /\ outcome' = "imageRefused" => Size(1) < MinPageChars

LEMMA PolicyFacts ==
  ASSUME TypeOK
  PROVE  /\ Line(policy) \in Int /\ FreshTokens(policy) \in Int
         /\ Capacity \in Int /\ Charged \in Nat /\ Remaining \in Int
<1>1. /\ policy.window \in Nat /\ policy.reserve \in Nat /\ policy.enabled \in BOOLEAN
      /\ MaxPageChars \in Nat /\ MarginTokens \in Nat
      /\ OverheadTokens \in Nat /\ GuidanceTokens \in Nat
  BY SizesAssumption DEF TypeOK
<1>2. Line(policy) \in Int
  BY <1>1 DEF Line, Usable
<1>3. FreshTokens(policy) \in Int
  <2>1. MaxPageChars \div 4 \in Int
    BY <1>1
  <2>2. (Line(policy) - MarginTokens - OverheadTokens - GuidanceTokens) \div 2 \in Int
    BY <1>1, <1>2
  <2> QED BY <2>1, <2>2 DEF FreshTokens, Smaller, AtLeast0
<1>4. Capacity \in Int
  <2>1. MaxPageChars \div 4 \in Int
    BY <1>1
  <2>2. usage \in Nat
    BY DEF TypeOK
  <2> QED BY <1>1, <1>2, <1>3, <2>1, <2>2 DEF Capacity
<1>5. Charged \in Nat
  <2>1. pending \in Nat /\ usage \in Nat /\ lastUsage \in Nat
    BY DEF TypeOK
  <2> QED BY <2>1 DEF Charged, AtLeast0
<1> QED BY <1>2, <1>3, <1>4, <1>5 DEF Remaining

\* What size() hands out leaves the margin free.
LEMMA SizeFits ==
  ASSUME TypeOK, NEW i \in {0, 1}
  PROVE  /\ Size(i) \in Int
         /\ Size(i) + 4 * (i * ImageTokens) <= 4 * (Remaining - MarginTokens)
            \/ Size(i) <= 0
<1>1. Remaining \in Int /\ MarginTokens \in Nat /\ ImageTokens \in Nat /\ MaxPageChars \in Nat
  BY PolicyFacts, SizesAssumption
<1>2. CASE i = 0
  BY <1>1, <1>2 DEF Size, Smaller, AtLeast0
<1>3. CASE i = 1
  BY <1>1, <1>3 DEF Size, Smaller, AtLeast0
<1> QED BY <1>2, <1>3

\* A refusal reserves what fits, or nothing.
LEMMA RefuseAnswers ==
  ASSUME TypeOK, NEW n \in BOOLEAN, NEW i \in {0, 1}, Size(i) < MinPageChars, Refuse(i, n)
  PROVE  \E t \in Nat : Answer(n, t)
<1> DEFINE t == IF RefusalTokens <= Remaining THEN RefusalTokens ELSE 0
<1>1. t \in Nat /\ (t = 0 \/ t <= Remaining)
  BY SizesAssumption
<1>2. Reserve(t, n) /\ outcome' = IF i = 0 THEN "refused" ELSE "imageRefused"
  BY DEF Refuse
<1> HIDE DEF t
<1>3. Answer(n, t)
  BY <1>1, <1>2 DEF Answer
<1> QED BY <1>1, <1>3

\* So does an error that size() let through.
LEMMA ErrorAnswers ==
  ASSUME TypeOK, NEW n \in BOOLEAN, Size(0) >= MinPageChars, Error(n)
  PROVE  \E t \in Nat : Answer(n, t)
<1>1. /\ ErrorTokens \in Nat /\ MinPageChars \in Nat /\ MarginTokens \in Nat
      /\ ImageTokens \in Nat /\ 4 * ErrorTokens <= MinPageChars /\ Remaining \in Int
  BY PolicyFacts, SizesAssumption, MarginAssumption
<1>2. Size(0) \in Int /\ (Size(0) <= 4 * (Remaining - MarginTokens) \/ Size(0) <= 0)
  BY <1>1, SizeFits
<1>3. ErrorTokens = 0 \/ ErrorTokens <= Remaining
  BY <1>1, <1>2
<1>4. Answer(n, ErrorTokens)
  BY <1>3 DEF Error, Answer
<1> QED BY <1>1, <1>4

\* And a page whose text is at most size() and a margin's worth of frame.
LEMMA ServeAnswers ==
  ASSUME TypeOK, NEW n \in BOOLEAN, NEW t \in Nat,
         t = 0 \/ t <= Remaining, Serve(t, n)
  PROVE  \E u \in Nat : Answer(n, u)
BY DEF Serve, Answer

LEMMA NotesPageAnswers ==
  ASSUME TypeOK, NEW n \in BOOLEAN, NEW h \in HeaderSizes, NEW x \in TextSizes,
         NEW cap \in TextSizes, NotesPage(n, h, x, cap)
  PROVE  \E t \in Nat : Answer(n, t)
<1>1. /\ h \in Nat /\ x \in Nat /\ cap \in Nat /\ FooterChars \in Nat
      /\ MinPageChars \in Nat /\ MarginTokens \in Nat /\ ImageTokens \in Nat /\ Remaining \in Int
  BY PolicyFacts, SizesAssumption
<1>2. Size(0) \in Int /\ (Size(0) <= 4 * (Remaining - MarginTokens) \/ Size(0) <= 0)
  BY <1>1, SizeFits
<1> DEFINE chars == Size(0) - h
           rows == Smaller(cap, Smaller(x, chars))
           end == IF rows < x THEN Smaller(rows, chars - FooterChars) ELSE rows
           total == h + end + IF end < x THEN FooterChars ELSE 0
<1>3. CASE Size(0) < MinPageChars /\ Refuse(0, n)
  BY <1>3, RefuseAnswers
<1>4. CASE Size(0) >= MinPageChars /\ chars <= FooterChars /\ Error(n)
  BY <1>4, ErrorAnswers
<1>5. CASE Size(0) >= MinPageChars /\ chars > FooterChars /\ Serve(Tokens(total), n)
  <2>1. total \in Nat /\ total <= Size(0)
    BY <1>1, <1>2, <1>5 DEF Smaller
  <2> HIDE DEF total
  <2>2. Tokens(total) \in Nat /\ (Tokens(total) = 0 \/ Tokens(total) <= Remaining)
    BY <1>1, <1>2, <2>1 DEF Tokens
  <2> QED BY <1>5, <2>2, ServeAnswers
<1> QED BY <1>3, <1>4, <1>5 DEF NotesPage

LEMMA ReadNoteAnswers ==
  ASSUME TypeOK, NEW n \in BOOLEAN, NEW h \in HeaderSizes, NEW x \in TextSizes, ReadNote(n, h, x)
  PROVE  \E t \in Nat : Answer(n, t)
<1>1. /\ h \in Nat /\ x \in Nat /\ FooterChars \in Nat /\ FooterChars <= 4 * MarginTokens
      /\ MinPageChars \in Nat /\ MarginTokens \in Nat /\ ImageTokens \in Nat /\ Remaining \in Int
  BY PolicyFacts, SizesAssumption, MarginAssumption
<1>2. Size(0) \in Int /\ (Size(0) <= 4 * (Remaining - MarginTokens) \/ Size(0) <= 0)
  BY <1>1, SizeFits
<1> DEFINE chars == Size(0) - h
           end == Smaller(x, chars)
           total == h + end + IF end < x THEN FooterChars ELSE 0
<1>3. CASE Size(0) < MinPageChars /\ Refuse(0, n)
  BY <1>3, RefuseAnswers
<1>4. CASE Size(0) >= MinPageChars /\ chars <= 0 /\ Error(n)
  BY <1>4, ErrorAnswers
<1>5. CASE Size(0) >= MinPageChars /\ chars > 0 /\ Serve(Tokens(total), n)
  <2>1. total \in Nat /\ total <= Size(0) + 4 * MarginTokens /\ Size(0) > 0
    BY <1>1, <1>2, <1>5 DEF Smaller
  <2> HIDE DEF total
  <2>2. Tokens(total) \in Nat /\ Tokens(total) <= Remaining
    BY <1>1, <1>2, <2>1 DEF Tokens
  <2> QED BY <1>5, <2>2, ServeAnswers
<1> QED BY <1>3, <1>4, <1>5 DEF ReadNote

LEMMA SearchHistoryAnswers ==
  ASSUME TypeOK, NEW n \in BOOLEAN, NEW x \in TextSizes, SearchHistory(n, x)
  PROVE  \E t \in Nat : Answer(n, t)
<1>1. /\ x \in Nat /\ MinPageChars \in Nat /\ MarginTokens \in Nat
      /\ ImageTokens \in Nat /\ Remaining \in Int
  BY PolicyFacts, SizesAssumption
<1>2. Size(0) \in Int /\ (Size(0) <= 4 * (Remaining - MarginTokens) \/ Size(0) <= 0)
  BY <1>1, SizeFits
<1>3. CASE Size(0) < MinPageChars /\ Refuse(0, n)
  BY <1>3, RefuseAnswers
<1>4. CASE Size(0) >= MinPageChars /\ Error(n)
  BY <1>4, ErrorAnswers
<1>5. CASE Size(0) >= MinPageChars /\ Serve(Tokens(Smaller(x, Size(0))), n)
  <2>1. /\ Tokens(Smaller(x, Size(0))) \in Nat
        /\ Tokens(Smaller(x, Size(0))) = 0 \/ Tokens(Smaller(x, Size(0))) <= Remaining
    BY <1>1, <1>2, <1>5 DEF Tokens, Smaller
  <2> QED BY <1>5, <2>1, ServeAnswers
<1> QED BY <1>3, <1>4, <1>5 DEF SearchHistory

LEMMA ReadHistoryAnswers ==
  ASSUME TypeOK, NEW n \in BOOLEAN, NEW x \in TextSizes, NEW images \in ImageCounts,
         NEW frame \in FrameSizes, ReadHistory(n, x, images, frame)
  PROVE  \E t \in Nat : Answer(n, t)
<1> DEFINE first == IF images > 0 THEN 1 ELSE 0
<1>1. /\ x \in Nat /\ images \in Nat /\ frame \in Nat /\ frame <= 4 * MarginTokens
      /\ MinPageChars \in Nat /\ MarginTokens \in Nat /\ ImageTokens \in Nat /\ Remaining \in Int
  BY PolicyFacts, SizesAssumption, MarginAssumption
<1>2. first \in {0, 1}
  OBVIOUS
<1>3. /\ Size(first) \in Int
      /\ Size(first) + 4 * (first * ImageTokens) <= 4 * (Remaining - MarginTokens)
         \/ Size(first) <= 0
  BY <1>2, SizeFits
<1>4. CASE Size(first) < MinPageChars /\ Refuse(first, n)
  BY <1>2, <1>4, RefuseAnswers
<1>5. ASSUME Size(first) >= MinPageChars, NEW k \in first..images,
             4 * ((k - first) * ImageTokens) <= Size(first) - MinPageChars \/ k = first,
             Serve(Tokens(frame + Smaller(x, Size(first) - 4 * ((k - first) * ImageTokens)))
                     + k * ImageTokens, n)
      PROVE  \E t \in Nat : Answer(n, t)
  <2> HIDE DEF first
  <2>1. PICK extra \in Nat : /\ extra = (k - first) * ImageTokens
                             /\ k * ImageTokens = extra + first * ImageTokens
                             /\ first * ImageTokens \in Nat
    BY <1>1, <1>2, <1>5
  <2>2. 4 * extra <= Size(first)
    BY <1>1, <1>2, <1>3, <1>5, <2>1
  <2> DEFINE text == Smaller(x, Size(first) - 4 * extra)
  <2>3. text \in Nat /\ text <= Size(first) - 4 * extra
    BY <1>1, <1>3, <2>1, <2>2 DEF Smaller
  <2>4. Size(first) + 4 * (first * ImageTokens) <= 4 * (Remaining - MarginTokens)
    BY <1>1, <1>3, <1>5, MarginAssumption
  <2>5. Smaller(x, Size(first) - 4 * ((k - first) * ImageTokens)) = text
    BY <2>1
  <2> HIDE DEF text
  <2>6. PICK own \in Nat : own = first * ImageTokens
    BY <2>1
  <2>7. PICK t : t = Tokens(frame + text) + k * ImageTokens
    OBVIOUS
  <2>8. t = (frame + text + 3) \div 4 + (extra + own)
    BY <2>1, <2>6, <2>7 DEF Tokens
  <2>9. t \in Nat /\ t <= Remaining
    BY <1>1, <1>3, <2>3, <2>4, <2>6, <2>8
  <2>10. Serve(t, n)
    BY <1>5, <2>5, <2>7
  <2> QED BY <2>9, <2>10, ServeAnswers
<1> QED BY <1>4, <1>5 DEF ReadHistory

LEMMA FailCallAnswers ==
  ASSUME TypeOK, NEW n \in BOOLEAN, FailCall(n)
  PROVE  \E t \in Nat : Answer(n, t)
BY RefuseAnswers, ErrorAnswers DEF FailCall

\* Every call of a page tool is an answer that fits.
LEMMA CallAnswers ==
  ASSUME TypeOK, PageCall
  PROVE  \E n \in BOOLEAN, t \in Nat : Answer(n, t)
<1>1. CASE \E n \in BOOLEAN, h \in HeaderSizes, x, cap \in TextSizes : NotesPage(n, h, x, cap)
  BY <1>1, NotesPageAnswers
<1>2. CASE \E n \in BOOLEAN, h \in HeaderSizes, x \in TextSizes : ReadNote(n, h, x)
  BY <1>2, ReadNoteAnswers
<1>3. CASE \E n \in BOOLEAN, x \in TextSizes : SearchHistory(n, x)
  BY <1>3, SearchHistoryAnswers
<1>4. CASE \E n \in BOOLEAN, x \in TextSizes, i \in ImageCounts, f \in FrameSizes :
             ReadHistory(n, x, i, f)
  BY <1>4, ReadHistoryAnswers
<1>5. CASE \E n \in BOOLEAN : FailCall(n)
  BY <1>5, FailCallAnswers
<1> QED BY <1>1, <1>2, <1>3, <1>4, <1>5 DEF PageCall

----------------------------------------------------------------------------
(* The invariant. *)

LEMMA Initially == Init => TypeOK /\ Accounting
<1> SUFFICES ASSUME Init PROVE TypeOK /\ Accounting
  OBVIOUS
<1>1. knows = "nothing" /\ pending = 0 /\ outstanding = 0 /\ landed = 0
      /\ lastKnows = "nothing" /\ nested = 0
  BY DEF Init
<1>2. TypeOK
  BY DEF Init, TypeOK
<1>3. ChargedExactly
  BY <1>1 DEF ChargedExactly
<1> QED BY <1>1, <1>2, <1>3 DEF Accounting

\* A reservation adds to the charge exactly what it adds to the window.
LEMMA AnswerStep ==
  ASSUME TypeOK, Accounting, NEW n \in BOOLEAN, NEW t \in Nat, Answer(n, t)
  PROVE  TypeOK' /\ Accounting'
<1>1. /\ pending' = Charged + t /\ lastKnows' = knows /\ lastUsage' = usage
      /\ outstanding' = IF n THEN outstanding ELSE outstanding + t
      /\ nested' = IF n THEN nested + t ELSE nested
      /\ calls' = calls + 1 /\ landed' = landed
      /\ UNCHANGED <<inTurn, mode, policy, knows, usage>>
      /\ outcome' \in {"page", "error", "refused", "imageRefused"}
  BY DEF Answer, Reserve, hostVars
<1>2. Charged \in Nat
  BY PolicyFacts
<1>3. TypeOK'
  BY <1>1, <1>2 DEF TypeOK
<1>4. Charged' = Charged + t
  BY <1>1, <1>2 DEF Charged, AtLeast0, TypeOK
<1>5. CASE knows = "tokens"
  BY <1>1, <1>2, <1>4, <1>5 DEF Accounting, ChargedExactly, TypeOK
<1>6. CASE knows # "tokens"
  <2>1. Charged = pending
    BY <1>6 DEF Charged
  <2> QED BY <1>1, <1>2, <1>6, <2>1 DEF Accounting, ChargedExactly, TypeOK
<1> QED BY <1>3, <1>5, <1>6

\* Growth of the usage takes off the charge at most what has landed.
LEMMA GrowthStep ==
  ASSUME TypeOK, Accounting, Land \/ TurnEnd \/ \E n \in OtherResults : OtherResult(n)
  PROVE  TypeOK' /\ Accounting'
<1>1. PICK d \in Nat : /\ usage' = IF knows = "tokens" THEN usage + d ELSE usage
                       /\ outstanding' = 0 /\ outstanding <= d
                       /\ landed' = landed + outstanding
  <2>1. CASE Land \/ TurnEnd
    BY <2>1 DEF Land, TurnEnd, TypeOK
  <2>2. CASE \E n \in OtherResults : OtherResult(n)
    BY <2>2, SizesAssumption DEF OtherResult, history, TypeOK
  <2> QED BY <2>1, <2>2
<1>2. /\ UNCHANGED <<pending, lastKnows, lastUsage, mode, policy, knows, nested, calls, outcome>>
      /\ inTurn' \in BOOLEAN
  BY DEF Land, TurnEnd, OtherResult, accounting, history, TypeOK
<1>3. TypeOK'
  BY <1>1, <1>2 DEF TypeOK
<1>4. CASE knows = "tokens" /\ lastKnows = "tokens"
  <2>1. /\ usage' = usage + d /\ pending' = pending /\ lastUsage' = lastUsage
        /\ knows' = "tokens" /\ lastKnows' = "tokens"
    BY <1>1, <1>2, <1>4
  <2>2. Charged' = AtLeast0(pending' - AtLeast0(usage' - lastUsage'))
    BY <2>1 DEF Charged, AtLeast0
  <2>3. Charged' \in Nat /\ Charged' <= nested
    BY <1>1, <1>4, <2>1, <2>2 DEF Accounting, ChargedExactly, Charged, AtLeast0, TypeOK
  <2> QED BY <1>1, <1>2, <1>3, <1>4, <2>3 DEF Accounting, ChargedExactly, TypeOK
<1>5. CASE knows = "tokens" /\ lastKnows # "tokens"
  BY <1>1, <1>2, <1>3, <1>5 DEF Accounting, ChargedExactly, Charged, TypeOK
<1>6. CASE knows # "tokens"
  BY <1>1, <1>2, <1>3, <1>6 DEF Accounting, ChargedExactly, TypeOK
<1> QED BY <1>4, <1>5, <1>6

LEMMA Stepwise == TypeOK /\ Accounting /\ [Next]_vars => TypeOK' /\ Accounting'
<1> SUFFICES ASSUME TypeOK, Accounting, [Next]_vars
             PROVE  TypeOK' /\ Accounting'
  OBVIOUS
<1>1. CASE PageCall
  BY <1>1, CallAnswers, AnswerStep
<1>2. CASE Land \/ TurnEnd \/ \E n \in OtherResults : OtherResult(n)
  BY <1>2, GrowthStep
<1>3. ASSUME NEW m \in {"serial", "parallel"}, NEW k \in {"tokens", "null", "nothing"},
             NEW u \in Nat, TurnStart(m, k, u)
      PROVE  TypeOK' /\ Accounting'
  BY <1>3 DEF TurnStart, Reset, TypeOK, Accounting, ChargedExactly, Charged
<1>4. ASSUME NEW p \in Policies, ChangePolicy(p)
      PROVE  TypeOK' /\ Accounting'
  BY <1>4 DEF ChangePolicy, accounting, history, TypeOK, Accounting, ChargedExactly, Charged
<1>5. CASE UNCHANGED vars
  BY <1>5 DEF vars, TypeOK, Accounting, ChargedExactly, Charged
<1>6. CASE \/ \E m \in {"serial", "parallel"}, u \in Usages : TurnStart(m, "tokens", u)
           \/ \E m \in {"serial", "parallel"}, k \in {"null", "nothing"} : TurnStart(m, k, 0)
  BY <1>3, <1>6, SizesAssumption
<1> QED BY <1>1, <1>2, <1>4, <1>5, <1>6 DEF Next, PageCall

----------------------------------------------------------------------------
(* The theorems. *)

\* Every variable keeps its type.
THEOREM TypeCorrect == Spec => []TypeOK
BY Initially, Stepwise, PTL DEF Spec

LEMMA AccountingCorrect == Spec => [](TypeOK /\ Accounting)
BY Initially, Stepwise, PTL DEF Spec

\* What size() charges is what Pi has yet to count, no less, and no more than
\* that and the nested pages.
THEOREM ChargeCorrect == Spec => []ChargedExactly
<1>1. Accounting => ChargedExactly
  BY DEF Accounting
<1> QED BY <1>1, AccountingCorrect, PTL

\* Only a page call adds to what Pi has yet to count.
LEMMA OnlyCallsDeliver ==
  ASSUME TypeOK, [Next]_vars, outstanding' > outstanding \/ calls' > calls
  PROVE  PageCall
<1>1. ASSUME NEW m, NEW k, NEW u, TurnStart(m, k, u) PROVE FALSE
  BY <1>1 DEF TurnStart, TypeOK
<1>2. CASE Land \/ TurnEnd \/ \E n \in OtherResults : OtherResult(n)
  BY <1>2 DEF Land, TurnEnd, OtherResult, history, TypeOK
<1>3. ASSUME NEW p \in Policies, ChangePolicy(p) PROVE FALSE
  BY <1>3 DEF ChangePolicy, history, TypeOK
<1>4. CASE UNCHANGED vars
  BY <1>4 DEF vars, TypeOK
<1> QED BY <1>1, <1>2, <1>3, <1>4 DEF Next, PageCall

\* Pages, errors and refusals never take the window past the line, whatever the
\* sizes, the policies and the order of the calls.
THEOREM WithinLine == Spec => StaysWithinLine
<1>1. TypeOK /\ Accounting /\ [Next]_vars =>
        [(outstanding' > outstanding /\ knows = "tokens") =>
            usage + outstanding' + GuidanceTokens <= Line(policy)]_vars
  <2> SUFFICES ASSUME TypeOK, Accounting, [Next]_vars,
                      outstanding' > outstanding, knows = "tokens"
               PROVE  usage + outstanding' + GuidanceTokens <= Line(policy)
    OBVIOUS
  <2>1. PICK n \in BOOLEAN, t \in Nat : Answer(n, t)
    BY OnlyCallsDeliver, CallAnswers
  <2>2. outstanding' = outstanding + t /\ t > 0 /\ t <= Remaining
    BY <2>1 DEF Answer, Reserve, TypeOK
  <2>3. Remaining = Line(policy) - usage - GuidanceTokens - Charged /\ outstanding <= Charged
    BY DEF Remaining, Capacity, Accounting, ChargedExactly
  <2> QED BY <2>2, <2>3, PolicyFacts, SizesAssumption DEF TypeOK
<1> QED BY <1>1, AccountingCorrect, PTL DEF Spec, StaysWithinLine

\* A size below the smallest page means that the room is truly missing.
LEMMA SmallSize ==
  ASSUME TypeOK, NEW i \in {0, 1}, Size(i) < MinPageChars
  PROVE  4 * (Remaining - MarginTokens) < MinPageChars + 4 * (i * ImageTokens)
<1>1. /\ Remaining \in Int /\ MarginTokens \in Nat /\ ImageTokens \in Nat
      /\ MaxPageChars \in Nat /\ MinPageChars \in Nat
      /\ 0 < MinPageChars /\ MinPageChars <= MaxPageChars
  BY PolicyFacts, SizesAssumption, MarginAssumption
<1>2. CASE i = 0
  BY <1>1, <1>2 DEF Size, Smaller, AtLeast0
<1>3. CASE i = 1
  BY <1>1, <1>3 DEF Size, Smaller, AtLeast0
<1> QED BY <1>2, <1>3

\* A page is refused only when the window truly lacks the room.
THEOREM RefusalsJustified == Spec => RefusedOnlyWhenFull
<1>1. TypeOK /\ Accounting /\ [Next]_vars =>
        [(calls' > calls /\ outcome' \in {"refused", "imageRefused"} /\ knows = "tokens") =>
           4 * (Line(policy) - usage - outstanding - nested - GuidanceTokens - MarginTokens)
             < MinPageChars + IF outcome' = "refused" THEN 0 ELSE 4 * ImageTokens]_vars
  <2> SUFFICES ASSUME TypeOK, Accounting, [Next]_vars, calls' > calls,
                      outcome' \in {"refused", "imageRefused"}, knows = "tokens"
               PROVE  4 * (Line(policy) - usage - outstanding - nested - GuidanceTokens
                             - MarginTokens)
                        < MinPageChars + IF outcome' = "refused" THEN 0 ELSE 4 * ImageTokens
    OBVIOUS
  <2>1. PICK n \in BOOLEAN, t \in Nat : Answer(n, t)
    BY OnlyCallsDeliver, CallAnswers
  <2>2. /\ Remaining = Line(policy) - usage - GuidanceTokens - Charged
        /\ Charged <= outstanding + nested
    BY DEF Remaining, Capacity, Accounting, ChargedExactly
  <2>3. /\ Line(policy) \in Int /\ Charged \in Nat /\ usage \in Nat /\ outstanding \in Nat
        /\ nested \in Nat /\ GuidanceTokens \in Nat /\ MarginTokens \in Nat
        /\ MinPageChars \in Nat /\ ImageTokens \in Nat
    BY PolicyFacts, SizesAssumption DEF TypeOK
  <2>4. 4 * (Line(policy) - usage - outstanding - nested - GuidanceTokens - MarginTokens)
          <= 4 * (Remaining - MarginTokens)
    BY <2>2, <2>3
  <2>5. CASE outcome' = "refused"
    <3>1. Size(0) < MinPageChars
      BY <2>1, <2>5 DEF Answer
    <3>2. 4 * (Remaining - MarginTokens) < MinPageChars
      BY <2>3, <3>1, SmallSize
    <3> QED BY <2>2, <2>3, <2>4, <2>5, <3>2
  <2>6. CASE outcome' = "imageRefused"
    <3>1. Size(1) < MinPageChars
      BY <2>1, <2>6 DEF Answer
    <3>2. 4 * (Remaining - MarginTokens) < MinPageChars + 4 * ImageTokens
      BY <2>3, <3>1, SmallSize
    <3> QED BY <2>2, <2>3, <2>4, <2>6, <3>2
  <2> QED BY <2>5, <2>6
<1> QED BY <1>1, AccountingCorrect, PTL DEF Spec, RefusedOnlyWhenFull

\* Every policy leaves room for the prompt, the tools, the guidance and the margin.
Roomy == \A p \in Policies : MarginTokens + OverheadTokens + GuidanceTokens <= Line(p)

\* While the usage is unknown, what a turn has been given stays within the fresh share and the margin.
LEMMA FreshShare ==
  ASSUME TypeOK, Accounting, [Next]_vars, outstanding' > outstanding, knows = "null"
  PROVE  landed + outstanding' <= MarginTokens + FreshTokens(policy)
<1>1. PICK n \in BOOLEAN, t \in Nat : Answer(n, t)
  BY OnlyCallsDeliver, CallAnswers
<1>2. outstanding' = outstanding + t /\ t > 0 /\ t <= Remaining
  BY <1>1 DEF Answer, Reserve, TypeOK
<1>3. Remaining = MarginTokens + FreshTokens(policy) - pending
  BY SizesAssumption, PolicyFacts DEF Remaining, Capacity, Charged
<1>4. outstanding + landed <= pending
  BY DEF Accounting, ChargedExactly
<1>5. outstanding \in Nat /\ landed \in Nat /\ pending \in Nat
  BY DEF TypeOK
<1> QED BY <1>2, <1>3, <1>4, <1>5, PolicyFacts, SizesAssumption

LEMMA FreshIsHalf ==
  ASSUME TypeOK, Roomy
  PROVE  2 * FreshTokens(policy) <= Line(policy) - MarginTokens - OverheadTokens - GuidanceTokens
<1>1. PICK l \in Int : l = Line(policy)
  BY PolicyFacts
<1>2. /\ MarginTokens \in Nat /\ OverheadTokens \in Nat /\ GuidanceTokens \in Nat
      /\ MaxPageChars \div 4 \in Nat
  BY SizesAssumption
<1>3. PICK r \in Int : r = l - MarginTokens - OverheadTokens - GuidanceTokens
  BY <1>2
<1>4. r >= 0
  BY <1>1, <1>2, <1>3 DEF Roomy, TypeOK
<1>5. r \div 2 \in Nat /\ 2 * (r \div 2) <= r
  BY <1>4
<1>6. FreshTokens(policy) = Smaller(MaxPageChars \div 4, AtLeast0(r \div 2))
  BY <1>1, <1>3 DEF FreshTokens
<1>7. FreshTokens(policy) <= r \div 2 /\ FreshTokens(policy) \in Int
  BY <1>2, <1>5, <1>6 DEF Smaller, AtLeast0
<1> QED BY <1>1, <1>3, <1>5, <1>7

\* Before the usage is known, the pages of a turn leave half of a fresh window free up to the
\* margin, if prompt, tools and guidance leave one: with less room even a refusal can exceed it.
THEOREM FreshHalfStaysFree == Roomy /\ Spec => LeavesHalfFree
<1> SUFFICES ASSUME Roomy PROVE Spec => LeavesHalfFree
  OBVIOUS
<1>1. TypeOK /\ Accounting /\ [Next]_vars =>
        [(outstanding' > outstanding /\ knows = "null") =>
           2 * (landed + outstanding') <= Line(policy) + MarginTokens - OverheadTokens - GuidanceTokens]_vars
  <2> SUFFICES ASSUME TypeOK, Accounting, [Next]_vars, outstanding' > outstanding, knows = "null"
               PROVE  2 * (landed + outstanding') <= Line(policy) + MarginTokens - OverheadTokens - GuidanceTokens
    OBVIOUS
  <2>1. landed + outstanding' <= MarginTokens + FreshTokens(policy)
    BY FreshShare
  <2>2. 2 * FreshTokens(policy) <= Line(policy) - MarginTokens - OverheadTokens - GuidanceTokens
    BY FreshIsHalf
  <2>3. landed \in Nat /\ outstanding' \in Nat
    BY Stepwise DEF TypeOK
  <2> QED BY <2>1, <2>2, <2>3, PolicyFacts, SizesAssumption
<1> QED BY <1>1, AccountingCorrect, PTL DEF Spec, LeavesHalfFree
============================================================================
