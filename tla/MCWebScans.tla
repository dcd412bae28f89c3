----------------------------- MODULE MCWebScans -----------------------------
(***************************************************************************)
(* Instances of WebScans for TLC.  The values are in the .cfg files.       *)
(***************************************************************************)
EXTENDS WebScans
=============================================================================
