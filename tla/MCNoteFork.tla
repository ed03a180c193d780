----------------------------- MODULE MCNoteFork -----------------------------
(* TLC instance of NoteFork: sources that change and processes that die while  *)
(* a fork is made.                                                             *)
EXTENDS NoteFork

\* Names are interchangeable, but TLC's symmetry is unsound for liveness.  Instead, of two
\* sessions that differ only in the names of notes one is left out at the start; and when
\* all callers are idle, which are then alike, the one that begins is always the same.
FirstNote   == CHOOSE n \in Notes : TRUE
FirstCaller == CHOOSE c \in Callers : TRUE

Bit(b) == IF b THEN 1 ELSE 0
Rank(n) ==
  8 * (CASE evidence[n] = "unused" -> 0 [] evidence[n] = "used" -> 1 [] OTHER -> 2)
  + 4 * Bit(source["parent"][n].live) + 2 * Bit(source["grand"][n].live) + Bit(n \in parentOwns)

MCInit == Init /\ \A n \in Notes : Rank(FirstNote) <= Rank(n)
MCNext == Next /\ (memo = "none" /\ memo' = "initializing" => caller'[FirstCaller] = "waiting")
MCSpec == MCInit /\ [][MCNext]_vars /\ Fairness
=============================================================================
