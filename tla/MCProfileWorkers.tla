-------------------------- MODULE MCProfileWorkers --------------------------
(***************************************************************************)
(* Small instances of ProfileWorkers for TLC.                              *)
(***************************************************************************)
EXTENDS ProfileWorkers

CONSTANTS q1, q2, w1, w2, o1, o2, p1, p2, s1

(* One query that ends at time 1, or two that end one after the other.     *)
OneQuery == {q1}
TwoQueries == {q1, q2}
Ends == [q \in Queries |-> IF q = q1 THEN 1 ELSE 2]
SamePriority == [q \in Queries |-> 1]
KeyRank == [q \in Queries |-> IF q = q1 THEN 1 ELSE 2]

OnePrint == {p1}
TwoPrints == {p1, p2}

(* Only the first fingerprint proves a statement. *)
OneStatement == {s1}
Proves == [p \in Prints |-> IF p = p1 THEN s1 ELSE NoStatement]

(* Distinct Pod names. *)
DistinctOwners == [w \in Workers |-> IF w = w1 THEN o1 ELSE o2]
=============================================================================
