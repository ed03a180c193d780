----------------------------- MODULE MCRollover -----------------------------
(* TLC instance of Rollover: a full record and a tail of two messages fit, a   *)
(* small handoff fits unless input is queued, a large one never does, and one  *)
(* large tool result brings the session to the line.                           *)
EXTENDS Rollover
=============================================================================
