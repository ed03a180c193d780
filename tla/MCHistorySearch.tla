--------------------------- MODULE MCHistorySearch ---------------------------
(* TLC instance of HistorySearch: walks over files that grow between and during searches. *)
EXTENDS HistorySearch
=============================================================================
