--------------------------- MODULE MCHistorySync ----------------------------
(* Small instances of HistorySync: the configurations give the sets. *)
EXTENDS HistorySync
=============================================================================
