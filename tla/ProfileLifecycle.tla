-------------------------- MODULE ProfileLifecycle --------------------------
(***************************************************************************)
(* What background profile work promises for each retained query, without  *)
(* its tables, clock and workers.  A job is granted to one owner at a      *)
(* time; it is taken from that owner only after the lease has lapsed, and  *)
(* otherwise settled by nobody else; it is done only when its result is    *)
(* ready to be shown; and what is done or aged out is never run again.     *)
(***************************************************************************)
CONSTANTS Queries, Owners, NoOwner

VARIABLES
  phase,   \* the phase of every job
  holder,  \* who was granted it
  lapsed,  \* jobs held under a lease that has run out
  ready    \* queries with a complete stored result

vars == <<phase, holder, lapsed, ready>>

Phase == {"absent", "pending", "leased", "completed", "failed", "aged_out"}

TypeOK ==
  /\ phase \in [Queries -> Phase]
  /\ holder \in [Queries -> Owners \cup {NoOwner}]
  /\ lapsed \subseteq Queries
  /\ ready \subseteq Queries

Init ==
  /\ phase = [q \in Queries |-> "absent"]
  /\ holder = [q \in Queries |-> NoOwner]
  /\ lapsed = {}
  /\ ready = {}

Free(q) == phase[q] = "pending" \/ q \in lapsed

SetPhase(S, p, o) ==
  /\ phase' = [q \in Queries |-> IF q \in S THEN p ELSE phase[q]]
  /\ holder' = [q \in Queries |-> IF q \in S THEN o ELSE holder[q]]

Submit(S) ==
  /\ \A q \in S : phase[q] = "absent"
  /\ SetPhase(S, "pending", NoOwner)
  /\ UNCHANGED <<lapsed, ready>>

(* A lease may be so short that it has lapsed when it is granted. *)
Grant(S, o) ==
  /\ \A q \in S : Free(q)
  /\ SetPhase(S, "leased", o)
  /\ \E late \in SUBSET S : lapsed' = (lapsed \ S) \cup late
  /\ UNCHANGED ready

Extend(q) ==
  /\ q \in lapsed
  /\ lapsed' = lapsed \ {q}
  /\ UNCHANGED <<phase, holder, ready>>

Lapse(S) ==
  /\ \A q \in S : phase[q] = "leased"
  /\ lapsed' = lapsed \cup S
  /\ UNCHANGED <<phase, holder, ready>>

Store(q) ==
  /\ ready' = ready \cup {q}
  /\ UNCHANGED <<phase, holder, lapsed>>

Settle(q, p) ==
  /\ phase[q] = "leased"
  /\ p = "completed" => q \in ready
  /\ SetPhase({q}, p, NoOwner)
  /\ lapsed' = lapsed \ {q}
  /\ UNCHANGED ready

Expire(S) ==
  /\ \A q \in S : Free(q)
  /\ SetPhase(S, "aged_out", NoOwner)
  /\ lapsed' = lapsed \ S
  /\ UNCHANGED ready

Reopen(S) ==
  /\ \A q \in S : phase[q] = "failed"
  /\ SetPhase(S, "pending", NoOwner)
  /\ UNCHANGED <<lapsed, ready>>

Next ==
  \/ \E S \in SUBSET Queries :
       \/ Submit(S) \/ Lapse(S) \/ Expire(S) \/ Reopen(S)
       \/ \E o \in Owners : Grant(S, o)
  \/ \E q \in Queries :
       \/ Extend(q) \/ Store(q)
       \/ \E p \in {"pending", "completed", "failed", "aged_out"} : Settle(q, p)

Spec == Init /\ [][Next]_vars
=============================================================================
