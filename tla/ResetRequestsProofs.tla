------------------------ MODULE ResetRequestsProofs ------------------------
(***************************************************************************)
(* Proofs about ResetRequests for any set of calls and handoffs and any    *)
(* number of turns.                                                        *)
(***************************************************************************)
EXTENDS ResetRequests, WellFoundedInduction, TLAPS

\* Binding a call keeps a map a map.
LEMMA BindFacts ==
  ASSUME NEW R, NEW f, IsMap(f, R), NEW c \in Calls, NEW v \in R
  PROVE  IsMap(Bind(f, c, v), R)
BY DEF Bind, IsMap

\* Dropping a call keeps every other binding.
LEMMA DropFacts ==
  ASSUME NEW R, NEW f, IsMap(f, R), NEW c
  PROVE  /\ IsMap(Drop(f, c), R)
         /\ DOMAIN Drop(f, c) = DOMAIN f \ {c}
         /\ \A d \in DOMAIN f : d # c => Drop(f, c)[d] = f[d]
BY DEF Drop, IsMap

\* What take() returns is a handoff or nothing.
LEMMA TakeType ==
  ASSUME TypeOK
  PROVE  Take \in Handoffs \cup {NoHandoff}
<1>1. CASE \E i \in DOMAIN batch : GrantedAt(i)
  <2>1. PICK k \in DOMAIN batch : /\ k = (CHOOSE i \in DOMAIN batch : GrantedAt(i))
                                  /\ GrantedAt(k)
    BY <1>1
  <2>2. batch[k] \in Calls
    BY DEF TypeOK
  <2>3. batch[k] \in DOMAIN roots
    BY <2>1 DEF GrantedAt, Granted, ReceiptState, Absent, Failed
  <2>4. roots[batch[k]].handoff \in Handoffs \cup {NoHandoff}
    BY <2>3 DEF TypeOK, IsMap, RequestState
  <2> QED BY <2>1, <2>4 DEF Take
<1>2. CASE ~\E i \in DOMAIN batch : GrantedAt(i)
  BY <1>2 DEF Take
<1> QED BY <1>1, <1>2

----------------------------------------------------------------------------
(* Type correctness. *)

LEMMA TypeInit == Init => TypeOK
BY DEF Init, TypeOK, Empty, IsMap

\* A map update by Start keeps both maps typed.
LEMMA StartType ==
  ASSUME TypeOK, NEW c \in Calls, NEW p \in Calls \cup {NoCall}, Start(c, p)
  PROVE  IsMap(active', Calls) /\ IsMap(roots', RequestState)
<1>1. CASE p = NoCall
  <2>1. active' = Bind(active, c, c) /\ roots' = Bind(roots, c, Pending)
    BY <1>1 DEF Start
  <2>2. Pending \in RequestState
    BY DEF Pending, RequestState
  <2> QED BY <2>1, <2>2, BindFacts DEF TypeOK
<1>2. CASE p # NoCall /\ Tracked(p)
  <2>1. active' = Bind(active, c, active[p]) /\ roots' = roots
    BY <1>2 DEF Start
  <2>2. active[p] \in Calls
    BY <1>2 DEF Tracked, TypeOK, IsMap
  <2> QED BY <2>1, <2>2, BindFacts DEF TypeOK
<1>3. CASE p # NoCall /\ ~Tracked(p)
  BY <1>3 DEF Start, TypeOK
<1> QED BY <1>1, <1>2, <1>3

\* So does Finish, when the call's foreground call is known to #roots.
LEMMA FinishType ==
  ASSUME TypeOK, Bookkeeping, NEW c \in Calls, NEW e \in BOOLEAN, Finish(c, e)
  PROVE  IsMap(active', Calls) /\ IsMap(roots', RequestState)
<1>1. active' = Drop(active, c)
  BY DEF Finish
<1>2. CASE c \in DOMAIN active
  <2> DEFINE r == active[c]
  <2>1. r \in DOMAIN roots /\ r \in Calls
    BY <1>2 DEF Bookkeeping, ActiveUnderRoot, TypeOK, IsMap
  <2>2. roots[r] \in RequestState
    BY <2>1 DEF TypeOK, IsMap
  <2>3. Ended(r, c, e) \in RequestState
    BY <2>2 DEF Ended, RequestState, Failed
  <2>4. roots' = Bind(roots, r, Ended(r, c, e))
    BY <1>2 DEF Finish
  <2> HIDE DEF r
  <2> QED BY <1>1, <2>1, <2>3, <2>4, BindFacts, DropFacts DEF TypeOK
<1>3. CASE c \notin DOMAIN active
  <2>1. roots' = roots
    BY <1>3 DEF Finish
  <2>2. IsMap(active', Calls)
    BY <1>1, DropFacts DEF TypeOK
  <2> QED BY <2>1, <2>2 DEF TypeOK
<1> QED BY <1>2, <1>3

\* And Admit.
LEMMA AdmitType ==
  ASSUME TypeOK, Bookkeeping, NEW c \in DOMAIN active, NEW h \in Handoffs, Admit(c, h)
  PROVE  IsMap(roots', RequestState)
<1> DEFINE r == active[c]
<1>1. r \in DOMAIN roots /\ r \in Calls
  BY DEF Bookkeeping, ActiveUnderRoot, TypeOK, IsMap
<1>2. \/ roots' = Bind(roots, r, [kind |-> "pending", handoff |-> h])
      \/ roots' = roots
  BY DEF Admit
<1>3. [kind |-> "pending", handoff |-> h] \in RequestState
  BY DEF RequestState
<1> HIDE DEF r
<1>4. IsMap(roots, RequestState)
  BY DEF TypeOK
<1> QED BY <1>1, <1>2, <1>3, <1>4, BindFacts

LEMMA TypeStep == TypeOK /\ Bookkeeping /\ [Next]_vars => TypeOK'
<1> SUFFICES ASSUME TypeOK, Bookkeeping, [Next]_vars
             PROVE  TypeOK'
  OBVIOUS
<1> USE DEF historyVars, hostVars, requestVars
<1>0. IsMap(Empty, Calls) /\ IsMap(Empty, RequestState)
  BY DEF Empty, IsMap
<1>1. CASE TurnStart
  BY <1>0, <1>1 DEF TurnStart, Clear, TypeOK
<1>2. CASE TurnEnd
  BY <1>0, <1>2, TakeType DEF TurnEnd, Clear, TypeOK
<1>3. CASE TurnAbandoned
  BY <1>3 DEF TurnAbandoned, TypeOK
<1>4. CASE SessionStart
  BY <1>0, <1>4 DEF SessionStart, Clear, TypeOK
<1>5. ASSUME NEW c \in Calls, ForegroundStart(c) PROVE TypeOK'
  <2>1. IsMap(active', Calls) /\ IsMap(roots', RequestState)
    BY <1>5, StartType DEF ForegroundStart
  <2> QED BY <1>5, <2>1 DEF ForegroundStart, TypeOK
<1>6. ASSUME NEW c \in Calls, ForegroundSkipped(c) PROVE TypeOK'
  BY <1>6 DEF ForegroundSkipped, TypeOK
<1>7. ASSUME NEW c \in Calls, NEW p \in Calls, NestedStart(c, p) PROVE TypeOK'
  <2>1. IsMap(active', Calls) /\ IsMap(roots', RequestState)
    BY <1>7, StartType DEF NestedStart
  <2> QED BY <1>7, <2>1 DEF NestedStart, TypeOK
<1>8. ASSUME NEW c \in Calls, NEW e \in BOOLEAN, ToolEnd(c, e) PROVE TypeOK'
  <2>1. IsMap(active', Calls) /\ IsMap(roots', RequestState)
    BY <1>8, FinishType DEF ToolEnd
  <2> QED BY <1>8, <2>1 DEF ToolEnd, TypeOK
<1>9. ASSUME NEW c \in Calls, NEW h \in Handoffs, NewContext(c, h) PROVE TypeOK'
  <2>1. CASE Tracked(c)
    <3>1. IsMap(roots', RequestState)
      BY <1>9, <2>1, AdmitType DEF NewContext, Tracked
    <3>2. active' = active
      BY <1>9, <2>1 DEF NewContext, Admit
    <3>3. [root |-> rootOf[c], handoff |-> h] \in Request
      BY DEF TypeOK, Request
    <3>4. accepted' \in Seq(Request)
      BY <1>9, <2>1, <3>3 DEF NewContext, TypeOK
    <3> QED BY <1>9, <2>1, <3>1, <3>2, <3>4 DEF NewContext, TypeOK
  <2>2. CASE ~Tracked(c)
    BY <1>9, <2>2 DEF NewContext, TypeOK
  <2> QED BY <2>1, <2>2
<1>10. CASE UNCHANGED vars
  BY <1>10 DEF vars, TypeOK
<1> QED BY <1>1, <1>2, <1>3, <1>4, <1>5, <1>6, <1>7, <1>8, <1>9, <1>10 DEF Next

----------------------------------------------------------------------------
(* The bookkeeping invariant. *)

\* Appending to the batch only adds to what is in it.
LEMMA BatchAppend ==
  ASSUME TypeOK, NEW c \in Calls, batch' = Append(batch, c)
  PROVE  /\ batch' \in Seq(Calls)
         /\ Len(batch') = Len(batch) + 1
         /\ \A i \in DOMAIN batch : i \in DOMAIN batch' /\ batch'[i] = batch[i]
         /\ \A i \in DOMAIN batch' : i \in DOMAIN batch \/ batch'[i] = c
         /\ InBatch(c)'
         /\ \A d : InBatch(d) => InBatch(d)'
BY DEF TypeOK, InBatch

LEMMA BookkeepingInit == Init => Bookkeeping
BY DEF Init, Bookkeeping, RootsFaithful, ActiveUnderRoot, LiveStaysActive,
       StartedOnly, ReceiptsKnown, Empty

\* What turn_end, turn_start and session_start do to the maps.
LEMMA BookkeepingClear ==
  ASSUME TypeOK, Bookkeeping, TurnStart \/ TurnEnd \/ SessionStart
  PROVE  Bookkeeping'
<1>1. DOMAIN active' = {} /\ DOMAIN roots' = {}
  BY DEF TurnStart, TurnEnd, SessionStart, Clear, Empty
<1>2. StartedOnly' /\ ReceiptsKnown'
  BY DEF TurnStart, TurnEnd, SessionStart, Bookkeeping, StartedOnly, ReceiptsKnown,
         InBatch, hostVars, historyVars
<1> QED BY <1>1, <1>2 DEF Bookkeeping, RootsFaithful, ActiveUnderRoot, LiveStaysActive

LEMMA BookkeepingForegroundStart ==
  ASSUME TypeOK, Bookkeeping, NEW c \in Calls, ForegroundStart(c)
  PROVE  Bookkeeping'
<1> USE DEF ForegroundStart
<1>1. /\ IsMap(active, Calls) /\ IsMap(roots, RequestState)
      /\ Pending \in RequestState /\ NoCall \notin Calls
  BY NamesAssumption DEF TypeOK, Pending, RequestState
<1>2. active' = Bind(active, c, c) /\ roots' = Bind(roots, c, Pending)
  BY DEF Start
<1>3. /\ DOMAIN active' = DOMAIN active \cup {c} /\ active'[c] = c
      /\ \A d \in DOMAIN active : d # c => active'[d] = active[d]
      /\ DOMAIN roots' = DOMAIN roots \cup {c} /\ roots'[c] = Pending
      /\ \A d \in DOMAIN roots : d # c => roots'[d] = roots[d]
  <2>1. /\ DOMAIN active' = DOMAIN active \cup {c} /\ active'[c] = c
        /\ \A d \in DOMAIN active : d # c => active'[d] = active[d]
    BY <1>1, <1>2 DEF Bind
  <2>2. /\ DOMAIN roots' = DOMAIN roots \cup {c} /\ roots'[c] = Pending
        /\ \A d \in DOMAIN roots : d # c => roots'[d] = roots[d]
    BY <1>1, <1>2 DEF Bind
  <2> QED BY <2>1, <2>2
<1>4. /\ c \notin DOMAIN active /\ c \notin DOMAIN roots
      /\ c \notin accountable /\ c \notin spoiled /\ ~InBatch(c) /\ rootOf[c] = c
  BY DEF Bookkeeping, ActiveUnderRoot, RootsFaithful, Faithful, StartedOnly, InBatch
<1>5. \A d \in Calls : status'[d] = IF d = c THEN "running" ELSE status[d]
  BY DEF TypeOK
<1>6. \A d \in Calls : rootOf[d] \in Calls /\ (d # c /\ status[d] # "unused" => rootOf[d] # c)
  BY DEF TypeOK, Bookkeeping, StartedOnly
<1>7. StartedOnly'
  BY <1>4, <1>5, <1>6, BatchAppend DEF Bookkeeping, StartedOnly, TypeOK, Request
<1>8. RootsFaithful'
  <2>1. Faithful(c)'
    BY <1>3, <1>4, <1>5, BatchAppend DEF Faithful, NoneFrom, Pending, Bookkeeping, StartedOnly
  <2>2. ASSUME NEW r \in DOMAIN roots PROVE Faithful(r)'
    <3>1. r \in Calls /\ r # c /\ Faithful(r)
      BY <1>1, <1>4 DEF Bookkeeping, RootsFaithful, IsMap
    <3>2. InBatch(r)'
      BY <3>1, BatchAppend DEF Faithful
    <3> QED BY <1>3, <1>5, <3>1, <3>2 DEF Faithful, NoneFrom, FirstFrom
  <2> QED BY <1>3, <2>1, <2>2 DEF RootsFaithful
<1>9. ActiveUnderRoot'
  BY <1>1, <1>3, <1>4, <1>5 DEF Bookkeeping, ActiveUnderRoot, IsMap
<1>10. LiveStaysActive'
  BY <1>3, <1>4, <1>5, <1>6 DEF Bookkeeping, LiveStaysActive, StartedOnly, TypeOK
<1>11. ReceiptsKnown'
  BY <1>3, <1>4, <1>5, BatchAppend DEF Bookkeeping, ReceiptsKnown, StartedOnly, TypeOK
<1> QED BY <1>7, <1>8, <1>9, <1>10, <1>11 DEF Bookkeeping

LEMMA BookkeepingForegroundSkipped ==
  ASSUME TypeOK, Bookkeeping, NEW c \in Calls, ForegroundSkipped(c)
  PROVE  Bookkeeping'
<1> USE DEF ForegroundSkipped, requestVars, historyVars
<1>1. IsMap(active, Calls) /\ IsMap(roots, RequestState)
  BY DEF TypeOK
<1>4. /\ c \notin DOMAIN active /\ c \notin DOMAIN roots
      /\ c \notin accountable /\ c \notin spoiled /\ ~InBatch(c) /\ rootOf[c] = c
  BY DEF Bookkeeping, ActiveUnderRoot, RootsFaithful, Faithful, StartedOnly, InBatch
<1>5. \A d \in Calls : status'[d] = IF d = c THEN "failed" ELSE status[d]
  BY DEF TypeOK
<1>7. StartedOnly'
  BY <1>4, <1>5, BatchAppend DEF Bookkeeping, StartedOnly, TypeOK, Request
<1>8. RootsFaithful'
  <2> SUFFICES ASSUME NEW r \in DOMAIN roots PROVE Faithful(r)'
    BY DEF RootsFaithful
  <2>1. r \in Calls /\ r # c /\ Faithful(r)
    BY <1>1, <1>4 DEF Bookkeeping, RootsFaithful, IsMap
  <2>2. InBatch(r)'
    BY <2>1, BatchAppend DEF Faithful
  <2> QED BY <1>5, <2>1, <2>2 DEF Faithful, NoneFrom, FirstFrom
<1>9. ActiveUnderRoot'
  BY <1>1, <1>4, <1>5 DEF Bookkeeping, ActiveUnderRoot, IsMap
<1>10. LiveStaysActive'
  BY <1>4, <1>5 DEF Bookkeeping, LiveStaysActive, StartedOnly, TypeOK
<1>11. ReceiptsKnown'
  BY <1>4, <1>5, BatchAppend DEF Bookkeeping, ReceiptsKnown, StartedOnly, TypeOK
<1> QED BY <1>7, <1>8, <1>9, <1>10, <1>11 DEF Bookkeeping

LEMMA BookkeepingNestedStart ==
  ASSUME TypeOK, Bookkeeping, NEW c \in Calls, NEW p \in Calls, NestedStart(c, p)
  PROVE  Bookkeeping'
<1> USE DEF NestedStart
<1>1. IsMap(active, Calls) /\ IsMap(roots, RequestState) /\ p # NoCall
  BY NamesAssumption DEF TypeOK
<1>2. roots' = roots
  BY <1>1 DEF Start
<1>3. /\ c \notin DOMAIN active /\ c \notin DOMAIN roots /\ p # c
      /\ c \notin accountable /\ c \notin spoiled /\ ~InBatch(c)
  BY DEF Bookkeeping, ActiveUnderRoot, RootsFaithful, Faithful, StartedOnly, InBatch
<1>4. /\ \A d \in Calls : status'[d] = IF d = c THEN "running" ELSE status[d]
      /\ \A d \in Calls : rootOf'[d] = IF d = c THEN rootOf[p] ELSE rootOf[d]
  BY DEF TypeOK
<1>5. \A d \in Calls : rootOf[d] \in Calls /\ (status[d] # "unused" => rootOf[d] # c)
  BY DEF TypeOK, Bookkeeping, StartedOnly
<1>6. Tracked(p) => /\ p \in accountable /\ status[p] = "running"
                    /\ active[p] = rootOf[p] /\ rootOf[p] \in DOMAIN roots
                    /\ status[rootOf[p]] = "running"
  BY DEF Tracked, Bookkeeping, ActiveUnderRoot
<1>7. (/\ p \in accountable /\ status[p] = "running" /\ status[rootOf[p]] = "running"
       /\ rootOf[p] \in DOMAIN roots) => Tracked(p)
  BY DEF Tracked, Bookkeeping, LiveStaysActive, ActiveUnderRoot, RootsFaithful, Faithful
<1>8. IF Tracked(p)
        THEN /\ DOMAIN active' = DOMAIN active \cup {c} /\ active'[c] = rootOf[p]
             /\ \A d \in DOMAIN active : active'[d] = active[d]
        ELSE active' = active
  <2>1. CASE Tracked(p)
    <3>1. active' = Bind(active, c, rootOf[p])
      BY <1>1, <1>6, <2>1 DEF Start
    <3> QED BY <1>1, <1>3, <1>5, <2>1, <3>1 DEF Bind
  <2>2. CASE ~Tracked(p)
    BY <1>1, <2>2 DEF Start
  <2> QED BY <2>1, <2>2
<1>9. StartedOnly'
  BY <1>3, <1>4, <1>5 DEF Bookkeeping, StartedOnly, TypeOK, InBatch, Request
<1>10. RootsFaithful'
  <2> SUFFICES ASSUME NEW r \in DOMAIN roots PROVE Faithful(r)'
    BY <1>2 DEF RootsFaithful
  <2>1. r \in Calls /\ r # c /\ Faithful(r)
    BY <1>1, <1>3 DEF Bookkeeping, RootsFaithful, IsMap
  <2> QED BY <1>2, <1>4, <2>1 DEF Faithful, NoneFrom, FirstFrom, InBatch
<1>11. ActiveUnderRoot'
  BY <1>1, <1>2, <1>3, <1>4, <1>6, <1>8 DEF Bookkeeping, ActiveUnderRoot, IsMap
<1>12. LiveStaysActive'
  BY <1>2, <1>3, <1>4, <1>5, <1>7, <1>8 DEF Bookkeeping, LiveStaysActive, StartedOnly, TypeOK
<1>13. ReceiptsKnown'
  BY <1>2, <1>3, <1>4 DEF Bookkeeping, ReceiptsKnown, StartedOnly, TypeOK, InBatch
<1> QED BY <1>9, <1>10, <1>11, <1>12, <1>13 DEF Bookkeeping

LEMMA BookkeepingToolEnd ==
  ASSUME TypeOK, Bookkeeping, NEW c \in Calls, NEW e \in BOOLEAN, ToolEnd(c, e)
  PROVE  Bookkeeping'
<1> USE DEF ToolEnd
<1>1. IsMap(active, Calls) /\ IsMap(roots, RequestState)
  BY DEF TypeOK
<1>2. \A d \in Calls : status'[d] = IF d = c THEN (IF e THEN "failed" ELSE "ok") ELSE status[d]
  BY DEF TypeOK
<1>3. /\ DOMAIN active' = DOMAIN active \ {c}
      /\ \A d \in DOMAIN active : d # c => active'[d] = active[d]
  BY <1>1, DropFacts DEF Finish
<1>4. c \in DOMAIN active =>
        /\ rootOf[c] \in DOMAIN roots /\ c \in accountable
        /\ roots' = Bind(roots, rootOf[c], Ended(rootOf[c], c, e))
  BY DEF Finish, Bookkeeping, ActiveUnderRoot
<1>5. \A r \in DOMAIN roots : r \in Calls /\ Faithful(r)
  BY <1>1 DEF Bookkeeping, RootsFaithful, IsMap
<1>6. ASSUME c \notin DOMAIN active
      PROVE  /\ c \notin DOMAIN roots
             /\ \A r \in DOMAIN roots : (r \in spoiled') <=> (r \in spoiled)
  BY <1>5, <1>6 DEF Bookkeeping, LiveStaysActive, Faithful
<1>7. /\ DOMAIN roots' = DOMAIN roots
      /\ \A r \in DOMAIN roots : (c \in DOMAIN active /\ r = rootOf[c]) \/ roots'[r] = roots[r]
      /\ c \in DOMAIN active => roots'[rootOf[c]] = Ended(rootOf[c], c, e)
  <2>1. CASE c \in DOMAIN active
    <3>1. Ended(rootOf[c], c, e) \in RequestState
      BY <1>1, <1>4, <2>1 DEF IsMap, Ended, Failed, RequestState
    <3> QED BY <1>1, <1>4, <1>5, <2>1, <3>1 DEF Bind
  <2>2. CASE c \notin DOMAIN active
    BY <2>2 DEF Finish
  <2> QED BY <2>1, <2>2
<1>8. StartedOnly'
  BY <1>2 DEF Bookkeeping, StartedOnly, TypeOK, InBatch, Request
<1>9. RootsFaithful'
  <2> SUFFICES ASSUME NEW r \in DOMAIN roots PROVE Faithful(r)'
    BY <1>7 DEF RootsFaithful
  <2>1. CASE c \notin DOMAIN active
    BY <1>2, <1>5, <1>6, <1>7, <2>1 DEF Faithful, NoneFrom, FirstFrom, InBatch
  <2>2. CASE c \in DOMAIN active /\ r # rootOf[c]
    <3>1. r # c
      BY <1>5, <2>2 DEF Faithful
    <3> QED BY <1>2, <1>5, <1>7, <2>2, <3>1 DEF Faithful, NoneFrom, FirstFrom, InBatch
  <2>3. CASE c \in DOMAIN active /\ r = rootOf[c]
    <3>1. Faithful(r) /\ r \in Calls /\ roots'[r] = Ended(r, c, e) /\ roots[r] \in RequestState
      BY <1>1, <1>5, <1>7, <2>3 DEF IsMap
    <3>2. CASE roots[r].kind # "pending"
      BY <1>2, <1>4, <2>3, <3>1, <3>2
         DEF Faithful, NoneFrom, FirstFrom, InBatch, Ended, RequestState
    <3>3. CASE roots[r].kind = "pending" /\ e
      BY <1>2, <1>4, <2>3, <3>1, <3>3 DEF Faithful, InBatch, Ended, Failed
    <3>4. CASE roots[r].kind = "pending" /\ ~e /\ c = r
      BY <1>2, <1>4, <2>3, <3>1, <3>4
         DEF Faithful, NoneFrom, FirstFrom, InBatch, Ended, RequestState
    <3>5. CASE roots[r].kind = "pending" /\ ~e /\ c # r
      BY <1>2, <1>4, <2>3, <3>1, <3>5 DEF Faithful, NoneFrom, FirstFrom, InBatch, Ended
    <3> QED BY <3>2, <3>3, <3>4, <3>5
  <2> QED BY <2>1, <2>2, <2>3
<1>10. ActiveUnderRoot'
  BY <1>1, <1>2, <1>3, <1>7 DEF Bookkeeping, ActiveUnderRoot, IsMap
<1>11. LiveStaysActive'
  BY <1>2, <1>3, <1>7 DEF Bookkeeping, LiveStaysActive, TypeOK
<1>12. ReceiptsKnown'
  BY <1>2, <1>7 DEF Bookkeeping, ReceiptsKnown, TypeOK
<1> QED BY <1>8, <1>9, <1>10, <1>11, <1>12 DEF Bookkeeping

\* How one more accepted request bears on who asked first.
LEMMA AcceptedAppend ==
  ASSUME TypeOK, NEW q \in Calls, NEW h \in Handoffs,
         accepted' = Append(accepted, [root |-> q, handoff |-> h])
  PROVE  /\ \A r : r # q /\ NoneFrom(r) => NoneFrom(r)'
         /\ \A r, g : FirstFrom(r, g) => FirstFrom(r, g)'
         /\ NoneFrom(q) => FirstFrom(q, h)'
<1>1. /\ accepted \in Seq(Request) /\ Len(accepted') = Len(accepted) + 1
      /\ \A i \in 1..Len(accepted) : accepted'[i] = accepted[i]
      /\ accepted'[Len(accepted) + 1] = [root |-> q, handoff |-> h]
  BY DEF TypeOK, Request
<1>2. DOMAIN accepted = 1..Len(accepted) /\ DOMAIN accepted' = 1..Len(accepted')
      /\ Len(accepted) \in Nat
  BY <1>1 DEF Request
<1>3. ASSUME NEW r, r # q, NoneFrom(r) PROVE NoneFrom(r)'
  BY <1>1, <1>2, <1>3 DEF NoneFrom
<1>4. ASSUME NEW r, NEW g, FirstFrom(r, g) PROVE FirstFrom(r, g)'
  BY <1>1, <1>2, <1>4 DEF FirstFrom
<1>5. ASSUME NoneFrom(q) PROVE FirstFrom(q, h)'
  BY <1>1, <1>2, <1>5 DEF FirstFrom, NoneFrom
<1> QED BY <1>3, <1>4, <1>5

LEMMA BookkeepingNewContext ==
  ASSUME TypeOK, Bookkeeping, NEW c \in Calls, NEW h \in Handoffs, NewContext(c, h)
  PROVE  Bookkeeping'
<1> USE DEF NewContext
<1>1. CASE ~Tracked(c)
  BY <1>1 DEF Bookkeeping, RootsFaithful, Faithful, ActiveUnderRoot, LiveStaysActive,
              StartedOnly, ReceiptsKnown, InBatch, NoneFrom, FirstFrom, requestVars
<1>2. CASE Tracked(c)
  <2>0. PICK q \in Calls : q = rootOf[c]
    BY DEF TypeOK
  <2>1. /\ active[c] = q /\ q \in DOMAIN roots /\ q \in Calls
        /\ status[q] = "running" /\ Faithful(q)
    BY <1>2, <2>0 DEF Tracked, Bookkeeping, ActiveUnderRoot, RootsFaithful
  <2>2. IsMap(roots, RequestState) /\ roots[q] \in RequestState
    BY <2>1 DEF TypeOK, IsMap
  <2>3. /\ active' = active
        /\ accepted' = Append(accepted, [root |-> q, handoff |-> h])
        /\ roots' = IF roots[q] = Pending
                      THEN Bind(roots, q, [kind |-> "pending", handoff |-> h]) ELSE roots
    BY <1>2, <2>0, <2>1 DEF Admit
  <2>4. /\ DOMAIN roots' = DOMAIN roots
        /\ \A r \in DOMAIN roots : r # q => roots'[r] = roots[r]
        /\ roots'[q] = IF roots[q] = Pending THEN [kind |-> "pending", handoff |-> h]
                                             ELSE roots[q]
    <3>1. [kind |-> "pending", handoff |-> h] \in RequestState
      BY DEF RequestState
    <3> QED BY <2>1, <2>2, <2>3, <3>1 DEF Bind
  <2>5. /\ \A r : r # q /\ NoneFrom(r) => NoneFrom(r)'
        /\ \A r, g : FirstFrom(r, g) => FirstFrom(r, g)'
        /\ NoneFrom(q) => FirstFrom(q, h)'
    BY <2>1, <2>3, AcceptedAppend
  <2>6. Faithful(q)'
    <3>1. CASE roots[q] = Pending
      BY <2>1, <2>4, <2>5, <3>1, NamesAssumption DEF Faithful, Pending, InBatch
    <3>2. CASE roots[q] # Pending
      <4>1. roots[q].kind # "failed" => roots[q].handoff # NoHandoff
        BY <2>1, <2>2, <3>2 DEF Faithful, Pending, RequestState
      <4> QED BY <2>1, <2>4, <2>5, <3>2, <4>1 DEF Faithful, InBatch
    <3> QED BY <3>1, <3>2
  <2>7. ASSUME NEW r \in DOMAIN roots, r # q PROVE Faithful(r)'
    <3>1. Faithful(r)
      BY DEF Bookkeeping, RootsFaithful
    <3> QED BY <2>4, <2>5, <2>7, <3>1 DEF Faithful, InBatch
  <2>8. RootsFaithful'
    BY <2>4, <2>6, <2>7 DEF RootsFaithful
  <2>9. StartedOnly'
    <3>1. \A i \in DOMAIN accepted' : InBatch(accepted'[i].root)
      BY <2>1, <2>3 DEF Bookkeeping, StartedOnly, TypeOK, Request, Faithful
    <3> QED BY <3>1 DEF Bookkeeping, StartedOnly, InBatch
  <2>10. ActiveUnderRoot' /\ LiveStaysActive' /\ ReceiptsKnown'
    BY <2>3, <2>4 DEF Bookkeeping, ActiveUnderRoot, LiveStaysActive, ReceiptsKnown
  <2> QED BY <2>8, <2>9, <2>10 DEF Bookkeeping
<1> QED BY <1>1, <1>2

LEMMA BookkeepingStep == TypeOK /\ Bookkeeping /\ [Next]_vars => Bookkeeping'
<1> SUFFICES ASSUME TypeOK, Bookkeeping, [Next]_vars
             PROVE  Bookkeeping'
  OBVIOUS
<1>1. CASE TurnAbandoned \/ UNCHANGED vars
  BY <1>1 DEF TurnAbandoned, vars, requestVars, historyVars, Bookkeeping, RootsFaithful,
              Faithful, ActiveUnderRoot, LiveStaysActive, StartedOnly, ReceiptsKnown,
              InBatch, NoneFrom, FirstFrom
<1> QED BY <1>1, BookkeepingClear, BookkeepingForegroundStart, BookkeepingForegroundSkipped,
           BookkeepingNestedStart, BookkeepingToolEnd, BookkeepingNewContext DEF Next

----------------------------------------------------------------------------
(* The theorems. *)

\* Every variable keeps its type, for any calls, handoffs and number of turns.
THEOREM TypeCorrect == Spec => []TypeOK
<1>1. Init => TypeOK /\ Bookkeeping
  BY TypeInit, BookkeepingInit
<1>2. TypeOK /\ Bookkeeping /\ [Next]_vars => (TypeOK /\ Bookkeeping)'
  BY TypeStep, BookkeepingStep
<1> QED BY <1>1, <1>2, PTL DEF Spec

\* The class's maps always agree with what the calls really did.
THEOREM BookkeepingCorrect == Spec => []Bookkeeping
<1>1. Init => TypeOK /\ Bookkeeping
  BY TypeInit, BookkeepingInit
<1>2. TypeOK /\ Bookkeeping /\ [Next]_vars => (TypeOK /\ Bookkeeping)'
  BY TypeStep, BookkeepingStep
<1> QED BY <1>1, <1>2, PTL DEF Spec

\* No legitimate request is ever refused.
THEOREM LegitimateRequestsAdmitted == Spec => []LegitimateRequestAdmitted
<1>1. TypeOK /\ Bookkeeping => LegitimateRequestAdmitted
  <2> SUFFICES ASSUME TypeOK, Bookkeeping, NEW c \in accountable,
                      phase = "tools", InBatch(rootOf[c]),
                      status[c] = "running", status[rootOf[c]] = "running"
               PROVE  Tracked(c)
    BY DEF LegitimateRequestAdmitted
  <2>1. rootOf[c] \in DOMAIN roots
    BY DEF Bookkeeping, ReceiptsKnown, InBatch
  <2>2. c \in DOMAIN active /\ rootOf[c] \in DOMAIN active
    BY <2>1 DEF Bookkeeping, LiveStaysActive, RootsFaithful, Faithful
  <2> QED BY <2>2 DEF Tracked, Bookkeeping, ActiveUnderRoot
<1> QED BY <1>1, TypeCorrect, BookkeepingCorrect, PTL

----------------------------------------------------------------------------
(* The class implements ResetContract. *)

\* Every non-empty set of positions has a first one.
LEMMA FirstPosition ==
  ASSUME NEW T \in SUBSET Nat, NEW n \in T
  PROVE  \E x \in T : \A y \in T : x <= y
<1> DEFINE Below == OpToRel(<, Nat)
<1>1. Below = {ss \in Nat \X Nat : ss[1] < ss[2]}
  BY DEF OpToRel
<1>2. IsWellFoundedOn(Below, Nat)
  BY NatLessThanWellFounded
<1> HIDE DEF Below
<1>3. \A x, y \in Nat : y < x => <<y, x>> \in Below
  BY <1>1
<1>4. PICK x \in T : \A y \in T : ~ (<<y, x>> \in Below)
  BY <1>2, WFMin
<1>5. \A y \in T : ~ (y < x)
  BY <1>3, <1>4
<1>6. \A y \in T : x <= y
  BY <1>5
<1> QED BY <1>6

\* What take() sees of a clean batch: only settled requests.
LEMMA CleanBatch ==
  ASSUME TypeOK, Bookkeeping, TurnEnd, NEW i \in DOMAIN batch
  PROVE  /\ (ReceiptState(batch[i]).kind = "failed") <=>
              (status[batch[i]] = "failed" \/ batch[i] \in spoiled)
         /\ status[batch[i]] \in {"ok", "failed"}
         /\ ReceiptState(batch[i]).kind # "failed" =>
              /\ batch[i] \in DOMAIN roots
              /\ Granted(batch[i]) =>
                   /\ roots[batch[i]].handoff \in Handoffs
                   /\ FirstFrom(batch[i], roots[batch[i]].handoff)
              /\ ~Granted(batch[i]) => NoneFrom(batch[i])
<1> DEFINE b == batch[i]
<1>1. b \in Calls /\ status[b] \in {"ok", "failed"}
  BY DEF TypeOK, TurnEnd, Bookkeeping, StartedOnly
<1>2. CASE status[b] = "failed"
  BY <1>1, <1>2 DEF ReceiptState, Failed
<1>3. CASE status[b] = "ok"
  <2>1. b \in DOMAIN roots
    BY <1>3 DEF TurnEnd, Bookkeeping, ReceiptsKnown
  <2>2. Faithful(b) /\ roots[b] \in RequestState /\ ReceiptState(b) = roots[b]
    BY <1>3, <2>1 DEF Bookkeeping, RootsFaithful, TypeOK, IsMap, ReceiptState
  <2> HIDE DEF b
  <2>3. roots[b].kind # "failed" => roots[b].kind = "settled"
    BY <1>3, <2>2 DEF Faithful, RequestState
  <2>4. roots[b].handoff \in Handoffs \cup {NoHandoff}
    BY <2>2 DEF RequestState
  <2>5. (roots[b].kind = "failed") <=> (b \in spoiled)
    BY <2>2 DEF Faithful
  <2>6. roots[b].kind # "failed" =>
          /\ Granted(b) <=> roots[b].handoff # NoHandoff
          /\ Granted(b) => FirstFrom(b, roots[b].handoff)
          /\ ~Granted(b) => NoneFrom(b)
    BY <2>2, <2>3 DEF Faithful, Granted
  <2>7. /\ (ReceiptState(b).kind = "failed") <=> (status[b] = "failed" \/ b \in spoiled)
        /\ status[b] \in {"ok", "failed"}
        /\ ReceiptState(b).kind # "failed" =>
             /\ b \in DOMAIN roots
             /\ Granted(b) => roots[b].handoff \in Handoffs /\ FirstFrom(b, roots[b].handoff)
             /\ ~Granted(b) => NoneFrom(b)
    BY <1>3, <2>1, <2>2, <2>4, <2>5, <2>6
  <2> QED BY <2>7 DEF b
<1> QED BY <1>1, <1>2, <1>3

\* If any receipt of the batch carries a request, one is the first that does.
LEMMA FirstGranted ==
  ASSUME TypeOK, NEW i \in DOMAIN batch, Granted(batch[i])
  PROVE  \E k \in DOMAIN batch : GrantedAt(k)
<1> DEFINE T == {j \in DOMAIN batch : Granted(batch[j])}
<1>1. T \in SUBSET Nat /\ i \in T
  BY DEF TypeOK
<1> HIDE DEF T
<1>2. PICK k \in T : \A j \in T : k <= j
  BY <1>1, FirstPosition
<1>3. \A j \in 1..(k - 1) : j \in DOMAIN batch /\ j \in Nat /\ ~(k <= j)
  BY <1>2 DEF TypeOK, T
<1> QED BY <1>2, <1>3 DEF GrantedAt, T

LEMMA TurnEndDecides ==
  ASSUME TypeOK, Bookkeeping, TurnEnd
  PROVE  Contract!Decide
<1> USE DEF Contract!InBatch
<1>1. \A i \in DOMAIN batch : InBatch(batch[i]) /\ batch[i] \in Calls
  BY DEF InBatch, TypeOK
<1>2. Contract!Clean <=> ~\E i \in DOMAIN batch : ReceiptState(batch[i]).kind = "failed"
  BY <1>1, CleanBatch DEF Contract!Clean
<1>3. /\ phase = "tools" /\ phase' = "idle" /\ taken' = Take
      /\ UNCHANGED <<batch, status, spoiled, accepted>>
      /\ \A i \in DOMAIN batch : status[batch[i]] # "running"
  BY DEF TurnEnd
<1>4. \A i \in DOMAIN batch : NoneFrom(batch[i]) => Contract!WishesOf(batch[i]) = {}
  BY DEF NoneFrom, Contract!WishesOf
<1>5. CASE ~Contract!Clean
  <2>1. taken' = NoHandoff
    BY <1>2, <1>3, <1>5 DEF Take
  <2> QED BY <1>1, <1>3, <1>5, <2>1 DEF Contract!Decide, InBatch
<1>6. CASE Contract!Clean /\ \E i \in DOMAIN batch : GrantedAt(i)
  <2>1. PICK k \in DOMAIN batch : /\ k = (CHOOSE i \in DOMAIN batch : GrantedAt(i))
                                  /\ GrantedAt(k)
    BY <1>6
  <2>2. taken' = roots[batch[k]].handoff
    BY <1>2, <1>3, <1>6, <2>1 DEF Take
  <2>3. taken' \in Handoffs /\ FirstFrom(batch[k], taken')
    BY <1>2, <1>6, <2>1, <2>2, CleanBatch DEF GrantedAt
  <2>4. \A j \in 1..(k - 1) : j \in DOMAIN batch /\ Contract!WishesOf(batch[j]) = {}
    <3>1. \A j \in 1..(k - 1) : j \in DOMAIN batch /\ ~Granted(batch[j])
      BY <2>1 DEF GrantedAt, TypeOK
    <3> QED BY <1>2, <1>4, <1>6, <3>1, CleanBatch
  <2>5. PICK n \in DOMAIN accepted : /\ accepted[n] = [root |-> batch[k], handoff |-> taken']
                                     /\ \A m \in 1..(n - 1) : accepted[m].root # batch[k]
    BY <2>3 DEF FirstFrom
  <2>6. Contract!FirstWish(n)
    BY <2>5 DEF Contract!FirstWish
  <2>7. Contract!Chosen(taken')
    BY <2>4, <2>5, <2>6 DEF Contract!Chosen
  <2> QED BY <1>1, <1>3, <1>6, <2>3, <2>7 DEF Contract!Decide, InBatch
<1>7. CASE Contract!Clean /\ ~\E i \in DOMAIN batch : GrantedAt(i)
  <2>1. taken' = NoHandoff
    BY <1>2, <1>3, <1>7 DEF Take
  <2>2. \A i \in DOMAIN batch : Contract!WishesOf(batch[i]) = {}
    BY <1>2, <1>4, <1>7, CleanBatch, FirstGranted
  <2> QED BY <1>1, <1>3, <1>7, <2>1, <2>2 DEF Contract!Decide, InBatch
<1> QED BY <1>5, <1>6, <1>7

LEMMA ContractInit == Init => Contract!Init
BY DEF Init, Contract!Init, InBatch

LEMMA ContractStep == TypeOK /\ Bookkeeping /\ [Next]_vars => [Contract!Next]_(Contract!vars)
<1> SUFFICES ASSUME TypeOK, Bookkeeping, [Next]_vars
             PROVE  Contract!Next \/ UNCHANGED Contract!vars
  OBVIOUS
<1> USE DEF Contract!InBatch, InBatch
<1>1. CASE TurnStart
  <2>1. Contract!Begin
    BY <1>1 DEF TurnStart, Contract!Begin, TypeOK
  <2> QED BY <2>1 DEF Contract!Next
<1>2. CASE TurnEnd
  BY <1>2, TurnEndDecides DEF Contract!Next
<1>3. CASE TurnAbandoned
  <2>1. Contract!Abandon
    BY <1>3 DEF TurnAbandoned, historyVars, Contract!Abandon
  <2> QED BY <2>1 DEF Contract!Next
<1>4. CASE SessionStart
  BY <1>4 DEF SessionStart, hostVars, historyVars, Contract!vars
<1>5. ASSUME NEW c \in Calls, ForegroundStart(c) \/ ForegroundSkipped(c)
      PROVE  Contract!Launch(c)
  <2>1. /\ phase = "tools" /\ phase' = phase /\ batch' = Append(batch, c)
        /\ UNCHANGED <<spoiled, accepted, taken>>
        /\ c \notin spoiled /\ ~InBatch(c)
    BY <1>5 DEF ForegroundStart, ForegroundSkipped, historyVars, Bookkeeping, StartedOnly
  <2>2. \A d \in Calls : InBatch(d)' <=> InBatch(d) \/ d = c
    BY <2>1 DEF TypeOK
  <2>3. \E r \in {"running", "failed"} :
          \A d \in Calls : status'[d] = IF d = c THEN r ELSE status[d]
    BY <1>5 DEF ForegroundStart, ForegroundSkipped, TypeOK
  <2>4. {r \in spoiled : InBatch(r)}' = {r \in spoiled : InBatch(r)}
    BY <2>1, <2>2 DEF TypeOK
  <2> HIDE DEF InBatch
  <2>5. \E r \in {"running", "failed"} :
          [d \in Calls |-> IF InBatch(d) THEN status[d] ELSE "none"]' =
            [[d \in Calls |-> IF InBatch(d) THEN status[d] ELSE "none"] EXCEPT ![c] = r]
    BY <2>2, <2>3
  <2> QED BY <2>1, <2>4, <2>5 DEF Contract!Launch, InBatch
<1>6. ASSUME NEW c \in Calls, NEW p \in Calls, NestedStart(c, p)
      PROVE  UNCHANGED Contract!vars
  <2>1. ~InBatch(c) /\ UNCHANGED <<phase, batch, spoiled, accepted, taken>>
    BY <1>6 DEF NestedStart, Bookkeeping, StartedOnly
  <2>2. \A d \in Calls : d # c => status'[d] = status[d]
    BY <1>6 DEF NestedStart, TypeOK
  <2> QED BY <2>1, <2>2 DEF Contract!vars
<1>7. ASSUME NEW c \in Calls, NEW e \in BOOLEAN, ToolEnd(c, e)
      PROVE  Contract!Next \/ UNCHANGED Contract!vars
  <2>1. /\ status[c] = "running" /\ rootOf[c] \in Calls
        /\ UNCHANGED <<phase, batch, accepted, taken>>
        /\ status' = [status EXCEPT ![c] = IF e THEN "failed" ELSE "ok"]
        /\ spoiled' = IF e /\ c \in accountable /\ status[rootOf[c]] = "running"
                        THEN spoiled \cup {rootOf[c]} ELSE spoiled
    BY <1>7 DEF ToolEnd, TypeOK
  <2>2. CASE InBatch(c) /\ ~e
    <3>1. Contract!Succeed(c)
      BY <2>1, <2>2 DEF Contract!Succeed, TypeOK
    <3> QED BY <3>1 DEF Contract!Next
  <2>3. CASE InBatch(c) /\ e
    <3>1. c \in accountable /\ rootOf[c] = c
      BY <2>1, <2>3 DEF Bookkeeping, StartedOnly
    <3>2. Contract!Fail(c)
      BY <2>1, <2>3, <3>1 DEF Contract!Fail, TypeOK
    <3> QED BY <3>2 DEF Contract!Next
  <2>4. CASE ~InBatch(c)
    <3>1. [d \in Calls |-> IF InBatch(d) THEN status[d] ELSE "none"]' =
            [d \in Calls |-> IF InBatch(d) THEN status[d] ELSE "none"]
      BY <2>1, <2>4 DEF TypeOK
    <3>2. CASE spoiled' = spoiled \/ ~InBatch(rootOf[c])
      BY <2>1, <3>1, <3>2 DEF Contract!vars
    <3>3. CASE spoiled' # spoiled /\ InBatch(rootOf[c])
      <4>1. PICK q \in Calls : q = rootOf[c]
        BY <2>1
      <4>2. Contract!Spoil(q)
        BY <2>1, <3>1, <3>3, <4>1 DEF Contract!Spoil
      <4> QED BY <4>2 DEF Contract!Next
    <3> QED BY <3>2, <3>3
  <2> QED BY <2>2, <2>3, <2>4
<1>8. ASSUME NEW c \in Calls, NEW h \in Handoffs, NewContext(c, h)
      PROVE  Contract!Next \/ UNCHANGED Contract!vars
  <2>1. UNCHANGED <<phase, batch, status, spoiled, taken>>
    BY <1>8 DEF NewContext
  <2>2. CASE Tracked(c)
    <3>1. rootOf[c] \in Calls /\ InBatch(rootOf[c]) /\ status[rootOf[c]] = "running"
      BY <2>2 DEF Tracked, Bookkeeping, ActiveUnderRoot, RootsFaithful, Faithful, TypeOK
    <3>2. Contract!Wish(rootOf[c], h)
      BY <1>8, <2>1, <2>2, <3>1 DEF NewContext, Contract!Wish
    <3> QED BY <3>1, <3>2 DEF Contract!Next
  <2>3. CASE ~Tracked(c)
    BY <1>8, <2>1, <2>3 DEF NewContext, Contract!vars
  <2> QED BY <2>2, <2>3
<1>9. CASE UNCHANGED vars
  BY <1>9 DEF vars, Contract!vars
<1>10. ASSUME NEW c \in Calls, ForegroundStart(c) \/ ForegroundSkipped(c)
       PROVE  Contract!Next
  BY <1>5, <1>10 DEF Contract!Next
<1> HIDE DEF InBatch, Contract!InBatch
<1> QED BY <1>1, <1>2, <1>3, <1>4, <1>6, <1>7, <1>8, <1>9, <1>10 DEF Next

\* Every behaviour of the class is one the new_context contract allows.
THEOREM ClassImplementsContract == Spec => ImplementsContract
<1>1. Init => Contract!Init
  BY ContractInit
<1>2. TypeOK /\ Bookkeeping /\ [Next]_vars => [Contract!Next]_(Contract!vars)
  BY ContractStep
<1> QED BY <1>1, <1>2, TypeCorrect, BookkeepingCorrect, PTL
        DEF Spec, ImplementsContract, Contract!Spec
============================================================================
