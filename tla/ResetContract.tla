--------------------------- MODULE ResetContract ---------------------------
(***************************************************************************)
(* What new_context promises of one model turn (docs/reference.md:28),     *)
(* said without call trees or maps: a reset is granted at turn end iff     *)
(* every foreground call and everything it was answerable for succeeded,   *)
(* and it is the first wish of the first foreground call, in assistant     *)
(* order, that made one.                                                   *)
(***************************************************************************)
EXTENDS Naturals, Sequences

CONSTANTS Calls, Handoffs, NoHandoff

VARIABLES
  open,      \* a turn is under way
  batch,     \* its foreground calls, in assistant order
  receipt,   \* what became of each foreground call of the batch
  spoiled,   \* foreground calls with a failure in their call tree
  wishes,    \* requests accepted in this turn, oldest first
  granted    \* the handoff the turn end granted

vars == <<open, batch, receipt, spoiled, wishes, granted>>

InBatch(c) == \E i \in DOMAIN batch : batch[i] = c

Init ==
  /\ open = FALSE /\ batch = <<>>
  /\ receipt = [c \in Calls |-> "none"]
  /\ spoiled = {} /\ wishes = <<>> /\ granted = NoHandoff

Begin ==
  /\ ~open /\ open' = TRUE /\ batch' = <<>>
  /\ receipt' = [c \in Calls |-> "none"]
  /\ spoiled' = {} /\ wishes' = <<>> /\ granted' = NoHandoff

\* A foreground call starts, or is refused with an error receipt at once.
Launch(c) ==
  /\ open /\ ~InBatch(c)
  /\ batch' = Append(batch, c)
  /\ \E r \in {"running", "failed"} : receipt' = [receipt EXCEPT ![c] = r]
  /\ UNCHANGED <<open, spoiled, wishes, granted>>

Succeed(c) ==
  /\ receipt[c] = "running" /\ receipt' = [receipt EXCEPT ![c] = "ok"]
  /\ UNCHANGED <<open, batch, spoiled, wishes, granted>>

Fail(c) ==
  /\ receipt[c] = "running" /\ receipt' = [receipt EXCEPT ![c] = "failed"]
  /\ spoiled' = spoiled \cup {c}
  /\ UNCHANGED <<open, batch, wishes, granted>>

\* A call below c fails while c still runs; c itself may go on to succeed.
Spoil(c) ==
  /\ receipt[c] = "running" /\ spoiled' = spoiled \cup {c}
  /\ UNCHANGED <<open, batch, receipt, wishes, granted>>

\* Only a foreground call of this batch that still runs can be asked through.
Wish(c, h) ==
  /\ receipt[c] = "running"
  /\ wishes' = Append(wishes, [root |-> c, handoff |-> h])
  /\ UNCHANGED <<open, batch, receipt, spoiled, granted>>

\* No wish before the n-th came through its foreground call.
FirstWish(n) == \A m \in 1..(n - 1) : wishes[m].root # wishes[n].root
WishesOf(c)  == {n \in DOMAIN wishes : wishes[n].root = c}

Clean == \A i \in DOMAIN batch : receipt[batch[i]] = "ok" /\ batch[i] \notin spoiled

\* h is the first wish of the first foreground call that made one.
Chosen(h) ==
  \E i \in DOMAIN batch, n \in DOMAIN wishes :
    /\ wishes[n] = [root |-> batch[i], handoff |-> h]
    /\ FirstWish(n)
    /\ \A j \in 1..(i - 1) : WishesOf(batch[j]) = {}

Decide ==
  /\ open /\ open' = FALSE
  /\ \A i \in DOMAIN batch : receipt[batch[i]] # "running"
  /\ \/ Clean /\ granted' \in Handoffs /\ Chosen(granted')
     \/ Clean /\ granted' = NoHandoff /\ \A i \in DOMAIN batch : WishesOf(batch[i]) = {}
     \/ ~Clean /\ granted' = NoHandoff
  /\ UNCHANGED <<batch, receipt, spoiled, wishes>>

Abandon == open /\ open' = FALSE /\ UNCHANGED <<batch, receipt, spoiled, wishes, granted>>

Next ==
  \/ Begin \/ Decide \/ Abandon
  \/ \E c \in Calls : Launch(c) \/ Succeed(c) \/ Fail(c) \/ Spoil(c)
  \/ \E c \in Calls, h \in Handoffs : Wish(c, h)

Spec == Init /\ [][Next]_vars
============================================================================
