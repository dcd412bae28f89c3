------------------------- MODULE MCHistoryCollector -------------------------
(***************************************************************************)
(* Instances of HistoryCollector for TLC.  The values are in the .cfg      *)
(* files.                                                                  *)
(***************************************************************************)
EXTENDS HistoryCollector
=============================================================================
