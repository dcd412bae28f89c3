------------------------- MODULE MCRecentDiscovery -------------------------
(***************************************************************************)
(* Instances of RecentDiscovery for TLC.  The values are in the .cfg files.*)
(***************************************************************************)
EXTENDS RecentDiscovery, TLC

(* Nothing tells queries apart. *)
Symmetric == Permutations(Query)

=============================================================================
