-------------------------- MODULE MCCaseProcessing --------------------------
(***************************************************************************)
(* Instances of CaseProcessing for TLC.  The values are in the .cfg files. *)
(***************************************************************************)
EXTENDS CaseProcessing
=============================================================================
