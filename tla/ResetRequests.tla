--------------------------- MODULE ResetRequests ---------------------------
(***************************************************************************)
(* The per-turn book of new_context requests, src/src/reset-requests.ts.   *)
(*                                                                         *)
(* A model turn runs a batch of foreground tool calls.  A call may start   *)
(* nested calls, and nested or background work may outlive the call that   *)
(* started it, or the whole turn.  A new_context call anywhere in a call   *)
(* tree asks for a reset; the class joins it to the foreground call that   *)
(* roots the tree, and take() decides at turn end which request, if any,   *)
(* is granted.                                                             *)
(*                                                                         *)
(* active and roots are the two maps of the class.  A ForegroundCall       *)
(* object is named by its id: both maps are cleared together and a call id *)
(* starts once, so the id determines the object.                           *)
(***************************************************************************)
EXTENDS Naturals, Sequences

CONSTANTS
  Calls,        \* tool call ids
  Handoffs,     \* handoff texts
  NoCall,       \* a foreground call has no parent
  NoHandoff,    \* "undefined" where a handoff may be missing
  MaxTurns      \* bound: turns the host runs

ASSUME NamesAssumption == NoCall \notin Calls /\ NoHandoff \notin Handoffs
ASSUME MaxTurnsAssumption == MaxTurns \in Nat

VARIABLES
  active,       \* #active: live call |-> the foreground call it belongs to
  roots,        \* #roots: foreground call |-> the state of its request
  \* what Pi does (external)
  phase,        \* "idle" between turns, "tools" while a batch runs
  turn,         \* turns begun
  batch,        \* this turn's foreground calls, in assistant order
  status,       \* what became of every call
  rootOf,       \* the foreground call at the root of every started call
  asked,        \* calls whose new_context callback has run
  \* history, for the properties only
  accountable,  \* calls started while their parent and their root still ran
  spoiled,      \* roots under which an accountable call failed while they ran
  accepted,     \* requests admitted in this turn, oldest first
  taken         \* what this turn's end granted

requestVars == <<active, roots>>
hostVars    == <<phase, turn, batch, status, rootOf, asked>>
historyVars == <<accountable, spoiled, accepted, taken>>
vars == <<active, roots, phase, turn, batch, status, rootOf, asked,
          accountable, spoiled, accepted, taken>>

RequestState == [kind : {"pending", "settled", "failed"},
                 handoff : Handoffs \cup {NoHandoff}]
Pending == [kind |-> "pending", handoff |-> NoHandoff]
Failed  == [kind |-> "failed",  handoff |-> NoHandoff]
Absent  == [kind |-> "absent",  handoff |-> NoHandoff]

Request == [root : Calls, handoff : Handoffs]

\* A Map from some calls to members of R.
IsMap(f, R) == DOMAIN f \subseteq Calls /\ f \in [DOMAIN f -> R]

TypeOK ==
  /\ IsMap(active, Calls)
  /\ IsMap(roots, RequestState)
  /\ phase \in {"idle", "tools"}
  /\ turn \in Nat
  /\ batch \in Seq(Calls)
  /\ status \in [Calls -> {"unused", "running", "ok", "failed"}]
  /\ rootOf \in [Calls -> Calls]
  /\ asked \subseteq Calls
  /\ accountable \subseteq Calls
  /\ spoiled \subseteq Calls
  /\ accepted \in Seq(Request)
  /\ taken \in Handoffs \cup {NoHandoff}

Empty == [c \in {} |-> NoCall]
Drop(f, c) == [d \in DOMAIN f \ {c} |-> f[d]]
Bind(f, c, v) == [d \in DOMAIN f \cup {c} |-> IF d = c THEN v ELSE f[d]]

Init ==
  /\ active = Empty /\ roots = Empty
  /\ phase = "idle" /\ turn = 0 /\ batch = <<>>
  /\ status = [c \in Calls |-> "unused"]
  /\ rootOf = [c \in Calls |-> c]
  /\ asked = {}
  /\ accountable = {} /\ spoiled = {} /\ accepted = <<>>
  /\ taken = NoHandoff

----------------------------------------------------------------------------
(* The class's handlers. *)

\* A call is tracked while it and the foreground call above it both run.
Tracked(c) == c \in DOMAIN active /\ active[c] \in DOMAIN active

\* Mutant: only calls started directly by a foreground call join its tree.
StartDirectOnly(c, p) ==
  IF p = NoCall
    THEN active' = Bind(active, c, c) /\ roots' = Bind(roots, c, Pending)
    ELSE /\ active' = IF Tracked(p) /\ active[p] = p THEN Bind(active, c, p) ELSE active
         /\ roots' = roots

\* #start: a call joins the call tree of its live parent; a call whose parent,
\* or whose foreground call, is gone is dropped.
Start(c, p) ==
  IF p = NoCall
    THEN /\ active' = Bind(active, c, c)
         /\ roots' = Bind(roots, c, Pending)
    ELSE /\ active' = IF Tracked(p) THEN Bind(active, c, active[p]) ELSE active
         /\ roots' = roots

\* Mutant: a late failure below a finished foreground call still counts.
EndedAlways(r, c, isError) ==
  IF isError THEN Failed
  ELSE IF c = r /\ roots[r].kind = "pending" THEN [roots[r] EXCEPT !.kind = "settled"]
  ELSE roots[r]

\* The state a foreground call moves to when a call of its tree ends.
Ended(r, c, isError) ==
  IF roots[r].kind # "pending" THEN roots[r]
  ELSE IF isError THEN Failed
  ELSE IF c = r THEN [roots[r] EXCEPT !.kind = "settled"]
  ELSE roots[r]

\* #finish
Finish(c, isError) ==
  /\ active' = Drop(active, c)
  /\ roots' = IF c \in DOMAIN active
                THEN Bind(roots, active[c], Ended(active[c], c, isError))
                ELSE roots

\* Mutant: the last handoff of a foreground call stands.
AdmitLast(c, h) ==
  /\ roots' = IF roots[active[c]].kind = "pending"
                THEN Bind(roots, active[c], [kind |-> "pending", handoff |-> h])
                ELSE roots
  /\ active' = active

\* request(): the first handoff of a pending foreground call stands.
Admit(c, h) ==
  LET r == active[c] IN
  /\ roots' = IF roots[r] = Pending
                THEN Bind(roots, r, [kind |-> "pending", handoff |-> h])
                ELSE roots
  /\ active' = active

\* take() over the turn's receipts.
ReceiptState(c) ==
  IF status[c] = "failed" THEN Failed
  ELSE IF c \in DOMAIN roots THEN roots[c]
  ELSE Absent
Granted(c) == /\ ReceiptState(c).kind = "settled"
              /\ ReceiptState(c).handoff # NoHandoff
GrantedAt(i) == /\ Granted(batch[i])
                /\ \A j \in 1..(i - 1) : ~Granted(batch[j])
\* Mutant: the request's state is returned in place of its handoff.
TakeState ==
  IF \E i \in DOMAIN batch : GrantedAt(i)
    THEN roots[batch[CHOOSE i \in DOMAIN batch : GrantedAt(i)]]
  ELSE NoHandoff

Take ==
  IF \E i \in DOMAIN batch : ReceiptState(batch[i]).kind = "failed" THEN NoHandoff
  ELSE IF \E i \in DOMAIN batch : GrantedAt(i)
    THEN roots[batch[CHOOSE i \in DOMAIN batch : GrantedAt(i)]].handoff
  ELSE NoHandoff

Clear == active' = Empty /\ roots' = Empty

----------------------------------------------------------------------------
(* The events Pi delivers. *)

\* turn_start clears what an abandoned turn left behind.
TurnStart ==
  /\ phase = "idle" /\ turn < MaxTurns
  /\ phase' = "tools" /\ turn' = turn + 1 /\ batch' = <<>>
  /\ Clear
  /\ spoiled' = {} /\ accepted' = <<>> /\ taken' = NoHandoff
  /\ UNCHANGED <<status, rootOf, asked, accountable>>

\* The next foreground call of the batch starts.
ForegroundStart(c) ==
  /\ phase = "tools" /\ status[c] = "unused"
  /\ status' = [status EXCEPT ![c] = "running"]
  /\ batch' = Append(batch, c)
  /\ Start(c, NoCall)
  /\ accountable' = accountable \cup {c}
  /\ UNCHANGED <<phase, turn, rootOf, asked, spoiled, accepted, taken>>

\* A call starts a nested call; its starter may have ended (detached work), and
\* the turn too (background work).
NestedStart(c, p) ==
  /\ status[c] = "unused" /\ status[p] # "unused"
  /\ status' = [status EXCEPT ![c] = "running"]
  /\ rootOf' = [rootOf EXCEPT ![c] = rootOf[p]]
  /\ Start(c, p)
  /\ accountable' = IF /\ p \in accountable
                       /\ status[p] = "running"
                       /\ status[rootOf[p]] = "running"
                      THEN accountable \cup {c} ELSE accountable
  /\ UNCHANGED <<phase, turn, batch, asked, spoiled, accepted, taken>>

\* A foreground call of an aborted batch gets an error receipt and never starts.
ForegroundSkipped(c) ==
  /\ phase = "tools" /\ status[c] = "unused"
  /\ status' = [status EXCEPT ![c] = "failed"]
  /\ batch' = Append(batch, c)
  /\ UNCHANGED <<requestVars, phase, turn, rootOf, asked, historyVars>>

ToolEnd(c, isError) ==
  /\ status[c] = "running"
  /\ status' = [status EXCEPT ![c] = IF isError THEN "failed" ELSE "ok"]
  /\ Finish(c, isError)
  /\ spoiled' = IF /\ isError /\ c \in accountable
                   /\ status[rootOf[c]] = "running"
                  THEN spoiled \cup {rootOf[c]} ELSE spoiled
  /\ UNCHANGED <<phase, turn, batch, rootOf, asked, accountable, accepted, taken>>

\* The callback of a new_context call; it throws when the call is not tracked.
NewContext(c, h) ==
  /\ status[c] = "running" /\ c \notin asked
  /\ asked' = asked \cup {c}
  /\ IF Tracked(c)
       THEN /\ Admit(c, h)
            /\ accepted' = Append(accepted, [root |-> rootOf[c], handoff |-> h])
       ELSE UNCHANGED <<requestVars, accepted>>
  /\ UNCHANGED <<phase, turn, batch, status, rootOf, accountable, spoiled, taken>>

\* turn_end, once every foreground call has its receipt; nested calls may go on.
TurnEnd ==
  /\ phase = "tools"
  /\ \A i \in DOMAIN batch : status[batch[i]] # "running"
  /\ phase' = "idle"
  /\ taken' = Take
  /\ Clear
  /\ UNCHANGED <<turn, batch, status, rootOf, asked, accountable, spoiled, accepted>>

\* The run stops without a turn_end (the host threw, or the run was replaced).
TurnAbandoned ==
  /\ phase = "tools" /\ phase' = "idle"
  /\ UNCHANGED <<requestVars, turn, batch, status, rootOf, asked, historyVars>>

\* session_start clears at any point of the host's life.
SessionStart ==
  /\ phase = "idle"
  /\ Clear
  /\ UNCHANGED <<hostVars, historyVars>>

Next ==
  \/ TurnStart
  \/ TurnEnd
  \/ TurnAbandoned
  \/ SessionStart
  \/ \E c \in Calls : ForegroundStart(c) \/ ForegroundSkipped(c)
  \/ \E c, p \in Calls : NestedStart(c, p)
  \/ \E c \in Calls, isError \in BOOLEAN : ToolEnd(c, isError)
  \/ \E c \in Calls, h \in Handoffs : NewContext(c, h)

Spec == Init /\ [][Next]_vars

----------------------------------------------------------------------------
(* Properties. *)

InBatch(c) == \E i \in DOMAIN batch : batch[i] = c

NoneFrom(r) == \A i \in DOMAIN accepted : accepted[i].root # r
FirstFrom(r, h) ==
  \E i \in DOMAIN accepted :
    /\ accepted[i] = [root |-> r, handoff |-> h]
    /\ \A j \in 1..(i - 1) : accepted[j].root # r

\* The state of a foreground call's request tells what happened to its tree.
Faithful(r) ==
  /\ r \in accountable /\ rootOf[r] = r /\ InBatch(r)
  /\ status[r] = "failed" => r \in spoiled
  /\ (roots[r].kind = "failed") <=> (r \in spoiled)
  /\ (roots[r].kind = "pending") <=> (r \notin spoiled /\ status[r] = "running")
  /\ roots[r].kind # "failed" =>
       IF roots[r].handoff = NoHandoff THEN NoneFrom(r) ELSE FirstFrom(r, roots[r].handoff)

RootsFaithful == \A r \in DOMAIN roots : Faithful(r)

\* #active holds only live calls, each under its own foreground call.
ActiveUnderRoot ==
  \A c \in DOMAIN active :
    /\ status[c] = "running" /\ c \in accountable
    /\ active[c] = rootOf[c] /\ rootOf[c] \in DOMAIN roots

\* #active misses no call that is live all the way up.
LiveStaysActive ==
  \A c \in accountable :
    (/\ status[c] = "running" /\ status[rootOf[c]] = "running"
     /\ rootOf[c] \in DOMAIN roots) => c \in DOMAIN active

\* A call that never started is named nowhere.
StartedOnly ==
  /\ \A c \in Calls : status[c] = "unused" => rootOf[c] = c
  /\ \A c \in Calls : status[c] # "unused" => status[rootOf[c]] # "unused"
  /\ \A c \in accountable \cup spoiled : status[c] # "unused"
  /\ \A i \in DOMAIN batch :
       /\ status[batch[i]] # "unused" /\ rootOf[batch[i]] = batch[i]
       /\ status[batch[i]] = "running" => batch[i] \in accountable
  /\ \A i \in DOMAIN accepted : InBatch(accepted[i].root)

\* Every receipt of an open batch is known to #roots, or is an error receipt.
ReceiptsKnown ==
  phase = "tools" => \A i \in DOMAIN batch :
                       batch[i] \notin DOMAIN roots => status[batch[i]] = "failed"

\* The maps of the class agree with what happened: this is what makes clear(),
\* #start, #finish and request() one protocol.  Inductive with TypeOK.
Bookkeeping ==
  /\ RootsFaithful
  /\ ActiveUnderRoot
  /\ LiveStaysActive
  /\ StartedOnly
  /\ ReceiptsKnown

\* A call is never refused wrongly: if it, its starters' chain and the
\* foreground call of this batch above it were all live, request() accepts it.
LegitimateRequestAdmitted ==
  \A c \in accountable :
    (/\ phase = "tools" /\ InBatch(rootOf[c])
     /\ status[c] = "running" /\ status[rootOf[c]] = "running") => Tracked(c)

\* Every turn, whatever nested, detached, abandoned or background work does,
\* is one the contract of docs/reference.md:28 allows: a grant comes only from
\* a clean batch, picks the promised request, and no eligible one is lost.
Contract == INSTANCE ResetContract WITH
  open    <- phase = "tools",
  receipt <- [c \in Calls |-> IF InBatch(c) THEN status[c] ELSE "none"],
  spoiled <- {r \in spoiled : InBatch(r)},
  wishes  <- accepted,
  granted <- taken
ImplementsContract == Contract!Spec
============================================================================
