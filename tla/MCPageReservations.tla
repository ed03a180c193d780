------------------------- MODULE MCPageReservations -------------------------
(* TLC instance of PageReservations: the code's sizes scaled down, keeping     *)
(* which of them exceeds which.                                                *)
EXTENDS PageReservations

SamplePolicies == {[window |-> 16, reserve |-> 4, enabled |-> TRUE],
                [window |-> 9, reserve |-> 6, enabled |-> TRUE],
                [window |-> 14, reserve |-> 4, enabled |-> FALSE]}
============================================================================
