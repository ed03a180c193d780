-------------------------- MODULE MCReminderLookup --------------------------
(* TLC instance of ReminderLookup: a long path in one session or its forks, and *)
(* shorter ones after each time that a session is loaded.                      *)
EXTENDS ReminderLookup, TLC

CONSTANTS s1, s2, b1, b2

TwoSessions == {s1, s2}
TwoBudgets  == {b1, b2}
NameSymmetry == Permutations(TwoBudgets) \cup Permutations(TwoSessions)

\* State constraint: a reminder on its way takes the place of an entry, and each
\* load shortens the longest path looked at by two.
LoadsShorten == Len(tree) + Len(queue) + 2 * load <= MaxEntries
============================================================================
