-------------------------- MODULE MCWebCaseReports --------------------------
(***************************************************************************)
(* Instances of WebCaseReports for TLC.  The values are in the .cfg files. *)
(***************************************************************************)
EXTENDS WebCaseReports, TLC

CONSTANTS j1, j2, j3

(* Nothing tells jobs, request threads or accepted texts apart. *)
Symmetric == Permutations(Job) \cup Permutations(Request) \cup Permutations(Text)

=============================================================================
