-------------------------- MODULE MCResetRequests --------------------------
(* TLC instance of ResetRequests: tool calls are interchangeable, and so are handoff texts. *)
EXTENDS ResetRequests, TLC

NameSymmetry == Permutations(Calls) \cup Permutations(Handoffs)
============================================================================
