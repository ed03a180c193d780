--------------------------- MODULE RecoveryInputs ---------------------------
(***************************************************************************)
(* Which inputs and tool results a recovery record names: src/src/         *)
(* recovery.ts, recovery-records.ts and recovery-results.ts.  A set of     *)
(* entries stands for a list in their order.                               *)
(***************************************************************************)
EXTENDS RecoverySession

\* projectedCurrent: entries of a window, without those edited out and those retained.
Current(window, tail) == {i \in (window \cap Messages) \ tail : ~Omitted(i)}

\* ownerAnswer: linked to a call of the messages S.
OwnerAnswer(i, S) ==
  /\ log[i].kind = "result" /\ log[i].outcome = "ok"
  /\ log[i].call \in CallsOf(S) /\ CallAt(log[i].call).tool = "ask"

Owner(i, S) == log[i].kind = "user" \/ OwnerAnswer(i, S)

\* ownerRecords: what recoveryRecord takes for an input.
Owners(window, S) == {i \in window : Owner(i, S)}
Inputs(window, S) == Owners(window, S) \cup {i \in window : log[i].kind = "custom"}

\* anchors: the first owner input, the latest, and the latest input of any kind.
Anchors(R, S) ==
  LET users  == {i \in R : log[i].kind = "user"}
      owners == Owners(R, S)
  IN IF R = {} THEN {}
     ELSE {Min(IF users # {} THEN users ELSE R), Max(R)} \cup
          (IF owners # {} THEN {Max(owners)} ELSE {})

----------------------------------------------------------------------------
(* recoveryAncestry *)

\* What is left of the window that a boundary closed.
Restored(b) == Current(Window(b - 1), {})

WithOwners == {b \in Chain : Owners(Restored(b), Restored(b)) # {}}

\* Mutant: only the previous window is asked.
NearestPrevious == IF Chain # {} /\ Max(Chain) \in WithOwners THEN Max(Chain) ELSE None

\* The boundary that closed the nearest earlier window with an owner input.
Nearest == LastOf(WithOwners)

\* Entries are compared by the reference that a record gives.
Carriable(b, tail) ==
  {i \in Owners(Restored(b), Restored(b)) : Reference(i) \notin tail}

Ancestry(tail) ==
  IF Nearest # None
  THEN LET before == BoundaryOf(Nearest - 1) IN
       [carried    |-> Anchors(Carriable(Nearest, tail), Restored(Nearest)),
        checkpoint |-> IF before # None /\ Automatic(before) THEN None ELSE before,
        skipped    |-> {b \in Chain : b >= Nearest}]
  ELSE [carried |-> {}, checkpoint |-> BoundaryOf(BeforeChain), skipped |-> Chain]

----------------------------------------------------------------------------
(* selectedInputs *)

\* Retained owner inputs count.
NoOwnerNow(tail) == Owners(Current(Window(Len(log)), {}), Projected) = {}

\* The inputs that are quoted and those that are listed.
Discarded(tail) == Inputs(Current(Window(Len(log)), tail), Projected)
Quoted(tail)    == Anchors(Discarded(tail), Projected)
Carried(tail)   == IF NoOwnerNow(tail) THEN Ancestry(tail).carried ELSE {}

----------------------------------------------------------------------------
(* recoverableToolResults *)

\* Mutant: an edited result is looked for among the retained entries by its edit.
RetainedReference(i, tail) == Reference(i) \in tail

\* Retention is resolved before an edit gives the entry another reference.
Retained(i, tail) == i \in tail

Results == {i \in Projected : log[i].kind = "result"}

\* Mutant: a response that was cut off ends the batch as well.
TrailingStartAny == LastOf({i \in Projected : log[i].kind = "assistant"})

\* trailingStart: the last response that is complete or that results have followed.
TrailingStart ==
  LastOf({i \in Projected : log[i].kind = "assistant" /\
                            (log[i].stop = "complete" \/ \E r \in Results : r > i)})

\* The last batch, results without a projected call, and those of async calls.
Recoverable(tail) ==
  {r \in Results :
     /\ ~Retained(r, tail)
     /\ \/ r > TrailingStart
        \/ log[r].call \notin CallsOf(Projected)
        \/ Async(log[r].call)}

\* planBatch: earlier results whose headers do not fit are counted.
Named(tail, fit) ==
  {r \in Recoverable(tail) : Cardinality({s \in Recoverable(tail) : s >= r}) <= fit}
============================================================================
