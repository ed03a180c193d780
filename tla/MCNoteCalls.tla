---------------------------- MODULE MCNoteCalls ----------------------------
(* TLC instance of NoteCalls. *)
EXTENDS NoteCalls, TLC

NameSymmetry == Permutations(Notes) \cup Permutations(Calls)
=============================================================================
