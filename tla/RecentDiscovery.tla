-------------------------- MODULE RecentDiscovery --------------------------
(***************************************************************************)
(* The discovery of a recent scan (recent/discovery.py): the query         *)
(* summaries of a window of time are listed from Cloudera Manager.  When   *)
(* the manager says that it gave up at its own scan limit, a long window   *)
(* is listed again in shards from newest to oldest, and a shard that meets *)
(* the limit again is halved until it is short, all of them under one cap  *)
(* on the summaries a discovery may inspect.                               *)
(*                                                                         *)
(* Time is counted in units of the shortest shard; the window ends at      *)
(* Window and begins at 0.  The ranking of the candidates is left out.     *)
(***************************************************************************)
EXTENDS Integers, Sequences, FiniteSets

CONSTANTS
  Query,     \* queries that ended in the window
  Window,    \* how long the window is
  Shard,     \* CM_SUMMARY_TIME_SHARD_MINUTES
  MinShard,  \* CM_SUMMARY_MIN_TIME_SHARD_MINUTES
  Limit,     \* raw_cm_summary_scan_limit: most summaries of a discovery
  PageSize   \* effective_query_summary_page_size: most summaries of a page

ASSUME DiscoveryAssumption ==
  /\ IsFiniteSet(Query)
  /\ {Window, Shard, MinShard, Limit, PageSize} \subseteq Nat \ {0}

VARIABLES
  time,      \* when each query is listed; fixed
  long,      \* queries that match the duration filter; fixed
  moving,    \* the window is the last minutes and has no dates; fixed
  filters,   \* whether the listings ask for the duration filter
  stage,     \* where discover_candidates is
  found,     \* summaries_by_query_id
  pending,   \* pending_shards, newest first
  shards,    \* shard_count
  warned,    \* kinds of warning in the result
  capHit,    \* raw_scan_cap_hit
  filled     \* for the properties: a listing whose answer counts was filled

catalog == <<time, long, moving>>
vars == <<catalog, filters, stage, found, pending, shards, warned, capHit, filled>>

-----------------------------------------------------------------------------
(* The manager says that it stopped at its scan limit; a page cannot be    *)
(* read or a page token comes back.                                        *)
Warning == {"scanLimit", "stopped"}

Span == [from : 0 .. Window, to : 0 .. Window]

WholeWindow == [from |-> 0, to |-> Window]

(* A query on the edge of two ranges may be listed in both. *)
In(r) == {q \in Query : r.from <= time[q] /\ time[q] <= r.to}

Least(a, b) == IF a <= b THEN a ELSE b

Paged(S, limit) == PageSize < Least(limit, Cardinality(S))

(* What paging through the queries S may bring: everything up to the       *)
(* limit, or less with a warning.  When each page reads the clock for its  *)
(* own window the later pages may repeat or skip queries, and a query      *)
(* counts as often as it is listed.                                        *)
Answers(S, limit, moves) ==
  {a \in [items : SUBSET S, count : 0 .. limit, warns : SUBSET Warning] :
     IF moves /\ Paged(S, limit)
       THEN /\ Cardinality(a.items) <= a.count
            /\ a.warns = {} => PageSize <= Cardinality(a.items)
       ELSE /\ Cardinality(a.items) = a.count
            /\ a.warns = {} => a.count = Least(limit, Cardinality(S))}

Matching(r, byDuration) == IF byDuration THEN In(r) \cap long ELSE In(r)

(* A filtered listing that brings nothing is tried without the filter.     *)
Collections(r, byDuration, limit, moves) ==
  {[items |-> a.items, count |-> a.count, warns |-> a.warns, fallback |-> FALSE] :
     a \in {b \in Answers(Matching(r, byDuration), limit, moves) :
              byDuration => b.items # {}}}
  \cup
  {[items |-> a.items, count |-> a.count, warns |-> a.warns \cup w, fallback |-> TRUE] :
     a \in {b \in Answers(In(r), limit, moves) : byDuration},
     w \in {b.warns : b \in {c \in Answers(Matching(r, byDuration), limit, moves) :
                              c.items = {}}}}

Length(r) == r.to - r.from

(* discovery_time_shards, from the end of the window back to its start.    *)
TimeShards ==
  [i \in 1 .. (Window + Shard - 1) \div Shard |->
     [from |-> IF i * Shard < Window THEN Window - i * Shard ELSE 0,
      to   |-> Window - (i - 1) * Shard]]

(* Mutant of CanSplit: every shard is halved again. *)
CanSplitAlways(r) == r.to \in 0 .. Window

CanSplit(r) == Length(r) > MinShard

(* split_time_shard, the newer half first. *)
Halves(r) ==
  LET half == Length(r) \div 2
      middle == r.from + IF half > 1 THEN half ELSE 1
  IN  <<[from |-> middle, to |-> r.to], [from |-> r.from, to |-> middle]>>

(* Mutant of Remaining: every shard may bring as many as the discovery. *)
RemainingOfShard == Limit

Remaining == Limit - Cardinality(found)

-----------------------------------------------------------------------------
Init ==
  /\ time \in [Query -> 0 .. Window]
  /\ long \in SUBSET Query
  /\ moving \in BOOLEAN
  /\ filters \in BOOLEAN
  /\ stage = "window"
  /\ found = {}
  /\ pending = <<>>
  /\ shards = 0
  /\ warned = {}
  /\ capHit = FALSE
  /\ filled = FALSE

(* The whole window is listed first, without dates unless it was given     *)
(* with some.                                                              *)
ListWindow ==
  /\ stage = "window"
  /\ \E c \in Collections(WholeWindow, filters, Limit, moving) :
       IF "scanLimit" \in c.warns /\ Window > Shard
         THEN /\ stage' = "shards"
              /\ pending' = TimeShards
              /\ filters' = (filters /\ ~c.fallback)
              /\ warned' = c.warns \ {"scanLimit"}
              /\ UNCHANGED <<found, capHit, filled>>
         ELSE /\ stage' = "done"
              /\ found' = c.items
              /\ warned' = c.warns
              /\ capHit' = (c.count >= Limit)
              /\ filled' = capHit'
              /\ UNCHANGED <<pending, filters>>
  /\ UNCHANGED <<catalog, shards>>

(* Mutant of SplitShard: a shard in two halves keeps its place at the end  *)
(* only.                                                                   *)
SplitDropping(c) ==
  /\ "scanLimit" \in c.warns
  /\ CanSplit(Head(pending))
  /\ pending' = <<Halves(Head(pending))[1]>> \o Tail(pending)
  /\ warned' = warned \cup (c.warns \ {"scanLimit"})
  /\ UNCHANGED <<found, capHit, filled>>

(* What the listing of a shard brought is dropped when it is split.        *)
SplitShard(c) ==
  /\ "scanLimit" \in c.warns
  /\ CanSplit(Head(pending))
  /\ pending' = Halves(Head(pending)) \o Tail(pending)
  /\ warned' = warned \cup (c.warns \ {"scanLimit"})
  /\ UNCHANGED <<found, capHit, filled>>

(* Otherwise it counts, up to the cap: what is still pending then is given *)
(* up.                                                                     *)
MergeShard(c) ==
  /\ ~("scanLimit" \in c.warns /\ CanSplit(Head(pending)))
  /\ found' = found \cup c.items
  /\ warned' = warned \cup c.warns
  /\ capHit' = (Cardinality(found') >= Limit /\ Tail(pending) # <<>>)
  /\ pending' = IF capHit' THEN <<>> ELSE Tail(pending)
  /\ filled' = (filled \/ Cardinality(c.items) >= Remaining)

(* A shard is listed by its own dates.                                     *)
ListShard ==
  /\ stage = "shards"
  /\ pending # <<>>
  /\ shards' = shards + 1
  /\ \E c \in Collections(Head(pending), filters, Remaining, FALSE) :
       SplitShard(c) \/ MergeShard(c)
  /\ UNCHANGED <<catalog, filters, stage>>

EndShards ==
  /\ stage = "shards"
  /\ pending = <<>>
  /\ stage' = "done"
  /\ UNCHANGED <<catalog, filters, found, pending, shards, warned, capHit, filled>>

Next == ListWindow \/ ListShard \/ EndShards

Spec == Init /\ [][Next]_vars

-----------------------------------------------------------------------------
TypeOK ==
  /\ time \in [Query -> 0 .. Window]
  /\ long \subseteq Query
  /\ moving \in BOOLEAN
  /\ filters \in BOOLEAN
  /\ stage \in {"window", "shards", "done"}
  /\ found \subseteq Query
  /\ pending \in Seq(Span)
  /\ shards \in Nat
  /\ warned \subseteq Warning
  /\ capHit \in BOOLEAN
  /\ filled \in BOOLEAN

(* What an operator reads of a discovery that is not complete: the cap or  *)
(* a warning.                                                              *)
Said == capHit \/ warned # {}

Wanted == IF filters THEN long ELSE Query

(* The discovery ended with the whole window, in pages that each had a     *)
(* window of their own.                                                    *)
PagesMoved == moving /\ shards = 0 /\ Paged(Wanted, Limit)

(* Shards, halves, dropped answers and the cap together lose no query that *)
(* was asked for without a word, unless a listing was filled to the last   *)
(* summary it had room for or the window moved from page to page.          *)
NothingLostSilently ==
  stage = "done" /\ ~Said /\ ~filled /\ ~PagesMoved => Wanted \subseteq found

(* "preserving raw scan caps" (docs/changelog.md): however the window is    *)
(* cut and whichever listing is tried again without its filter, no more    *)
(* summaries are kept than one discovery may inspect.                      *)
CapKept == Cardinality(found) <= Limit

(* Halving stops: no more shards are listed than there are nodes in trees  *)
(* whose leaves are units of time, whatever the manager answers.           *)
ListingsBounded == shards + Len(pending) <= 2 * Window - Len(TimeShards)

=============================================================================
