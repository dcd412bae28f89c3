----------------------- MODULE RecentDiscovery_proofs -----------------------
(***************************************************************************)
(* Proofs about RecentDiscovery for every window, shard length, cap and    *)
(* set of queries.                                                         *)
(***************************************************************************)
EXTENDS RecentDiscovery, FiniteSetTheorems, SequenceTheorems, TLAPS

(* The pending shards follow one another down to the start of the window.  *)
Chain ==
  /\ \A i \in 1 .. Len(pending) : pending[i].from <= pending[i].to
  /\ \A i \in 1 .. Len(pending) - 1 : pending[i].from = pending[i + 1].to
  /\ pending # <<>> => pending[Len(pending)].from = 0

(* What is newer than the first of them is found. *)
Passed(q) == pending = <<>> \/ time[q] > pending[1].to

NewerFound ==
  stage # "window" /\ ~Said /\ ~filled /\ ~(stage = "done" /\ PagesMoved) =>
    \A q \in Wanted : Passed(q) => q \in found

AtWindow ==
  stage = "window" => found = {} /\ ~filled /\ ~capHit /\ pending = <<>> /\ shards = 0

CapEnds == capHit => pending = <<>>

DoneIsThrough == stage = "done" => pending = <<>>

IInv == TypeOK /\ CapKept /\ Chain /\ NewerFound /\ AtWindow /\ CapEnds /\ DoneIsThrough

USE DEF catalog

-----------------------------------------------------------------------------
(* Lemma: halving gives two adjacent ranges that make up the old one. *)
LEMMA HalvesMeet ==
  ASSUME NEW r \in Span, CanSplit(r)
  PROVE  /\ Halves(r) \in Seq(Span)
         /\ Len(Halves(r)) = 2
         /\ Halves(r)[1].to = r.to
         /\ Halves(r)[1].from = Halves(r)[2].to
         /\ Halves(r)[2].from = r.from
         /\ Halves(r)[1].from <= Halves(r)[1].to
         /\ Halves(r)[2].from <= Halves(r)[2].to
<1> DEFINE half == Length(r) \div 2
<1> DEFINE middle == r.from + IF half > 1 THEN half ELSE 1
<1>0. r = [from |-> r.from, to |-> r.to] /\ r.from \in 0 .. Window /\ r.to \in 0 .. Window
  BY DEF Span
<1>1. Length(r) > 1
  BY <1>0, DiscoveryAssumption DEF CanSplit, Length
<1>2. half \in Nat /\ half <= Length(r)
  BY <1>0, <1>1 DEF Length
<1>3. middle \in 0 .. Window /\ r.from <= middle /\ middle <= r.to
  BY <1>0, <1>1, <1>2, DiscoveryAssumption DEF Length
<1>4. Halves(r) = <<[from |-> middle, to |-> r.to], [from |-> r.from, to |-> middle]>>
  BY DEF Halves
<1> HIDE DEF half, middle
<1>5. [from |-> middle, to |-> r.to] \in Span /\ [from |-> r.from, to |-> middle] \in Span
  BY <1>0, <1>3 DEF Span
<1> QED
  BY <1>3, <1>4, <1>5

(* Lemma: rounding up the number of shards covers the window. *)
LEMMA Rounding ==
  ASSUME NEW W \in Nat \ {0}, NEW S \in Nat \ {0}, NEW n, n = (W + S - 1) \div S
  PROVE  n \in Nat \ {0} /\ n * S >= W /\ (n - 1) * S < W
<1>1. n \in Nat
  OBVIOUS
<1>2. W + S - 1 = S * n + ((W + S - 1) % S) /\ (W + S - 1) % S \in 0 .. (S - 1)
  OBVIOUS
<1> QED
  BY <1>1, <1>2

(* Lemma: the first shards follow one another from the end of the window   *)
(* to its start.                                                           *)
LEMMA ShardsTile ==
  /\ TimeShards \in Seq(Span)
  /\ Len(TimeShards) >= 1
  /\ TimeShards[1].to = Window
  /\ \A i \in 1 .. Len(TimeShards) : TimeShards[i].from <= TimeShards[i].to
  /\ \A i \in 1 .. Len(TimeShards) - 1 : TimeShards[i].from = TimeShards[i + 1].to
  /\ TimeShards[Len(TimeShards)].from = 0
<1> DEFINE n == (Window + Shard - 1) \div Shard
<1> DEFINE at(i) == [from |-> IF i * Shard < Window THEN Window - i * Shard ELSE 0,
                     to   |-> Window - (i - 1) * Shard]
<1>0. Window \in Nat \ {0} /\ Shard \in Nat \ {0}
  BY DiscoveryAssumption
<1>1. n \in Nat \ {0} /\ n * Shard >= Window /\ (n - 1) * Shard < Window
  BY <1>0, Rounding
<1>2. TimeShards = [i \in 1 .. n |-> at(i)]
  BY DEF TimeShards
<1> HIDE DEF n
<1>3. ASSUME NEW i \in 1 .. n
      PROVE  /\ i * Shard \in Nat /\ (i - 1) * Shard \in Nat
             /\ (i - 1) * Shard < Window
             /\ (i - 1) * Shard <= i * Shard
             /\ i < n => i * Shard < Window
  <2>1. i \in Nat /\ i - 1 \in Nat /\ n - i \in Nat
    BY <1>1
  <2>2. i * Shard \in Nat /\ (i - 1) * Shard \in Nat /\ (n - i) * Shard \in Nat
    BY <1>0, <2>1
  <2>3. (n - 1) * Shard = (i - 1) * Shard + (n - i) * Shard /\ i * Shard = (i - 1) * Shard + Shard
    BY <1>0, <1>1, <2>1
  <2>4. i < n => (n - i) * Shard >= Shard
    <3>1. SUFFICES ASSUME i < n PROVE (n - i) * Shard >= Shard
      OBVIOUS
    <3>2. n - i - 1 \in Nat
      BY <1>1, <2>1, <3>1
    <3>3. (n - i - 1) * Shard \in Nat
      BY <1>0, <3>2
    <3>4. (n - i) * Shard = (n - i - 1) * Shard + Shard
      BY <1>0, <2>1, <3>2
    <3> QED
      BY <1>0, <3>3, <3>4
  <2> QED
    BY <1>0, <1>1, <2>2, <2>3, <2>4
<1>4. ASSUME NEW i \in 1 .. n
      PROVE  /\ at(i) \in Span
             /\ at(i).from <= at(i).to
             /\ i < n => at(i).from = at(i + 1).to
  <2>1. at(i).from \in 0 .. Window /\ at(i).to \in 0 .. Window /\ at(i).from <= at(i).to
    BY <1>0, <1>3
  <2>2. i < n => at(i).from = at(i + 1).to
    BY <1>0, <1>1, <1>3
  <2> QED
    BY <2>1, <2>2 DEF Span
<1>5. at(1).to = Window /\ at(n).from = 0
  BY <1>0, <1>1
<1>6. TimeShards \in Seq(Span) /\ Len(TimeShards) = n
  BY <1>1, <1>2, <1>4
<1>7. \A i \in 1 .. n : TimeShards[i] = at(i)
  BY <1>2
<1> HIDE DEF at
<1> QED
  BY <1>1, <1>4, <1>5, <1>6, <1>7

(* Lemma: an answer without a warning and with room to spare is all there  *)
(* was to list, when its pages have one window.                            *)
LEMMA RoomToSpare ==
  ASSUME NEW S, IsFiniteSet(S), NEW limit \in Nat, NEW moves,
         NEW a \in Answers(S, limit, moves), ~(moves /\ Paged(S, limit)),
         a.warns = {}, a.count < limit
  PROVE  a.items = S
<1>1. /\ a.items \in SUBSET S
      /\ Cardinality(a.items) = a.count
      /\ a.count = Least(limit, Cardinality(S))
  BY DEF Answers
<1>2. Cardinality(S) \in Nat
  BY FS_CardinalityType
<1>3. Cardinality(a.items) = Cardinality(S)
  BY <1>1, <1>2 DEF Least
<1> QED
  BY <1>1, <1>3, FS_Subset

(* Lemma: the summaries of an answer are counted within its limit. *)
LEMMA AnswerCounts ==
  ASSUME NEW S, IsFiniteSet(S), NEW limit \in Nat, NEW moves,
         NEW a \in Answers(S, limit, moves)
  PROVE  /\ a.items \subseteq S /\ a.warns \subseteq Warning
         /\ a.count \in 0 .. limit
         /\ Cardinality(a.items) \in Nat /\ Cardinality(a.items) <= a.count
         /\ ~moves => a.count = Cardinality(a.items)
<1>1. /\ a.items \subseteq S /\ a.warns \subseteq Warning /\ a.count \in 0 .. limit
      /\ Cardinality(a.items) = a.count \/ (moves /\ Cardinality(a.items) <= a.count)
  BY DEF Answers
<1>2. Cardinality(a.items) \in Nat
  BY <1>1, FS_Subset, FS_CardinalityType
<1> QED
  BY <1>1, <1>2

(* Lemma: what a listing brings is in its range and within its limit, and  *)
(* without a warning and with room to spare it is all that was asked for,  *)
(* when its pages have one window.  The listing tried again without its    *)
(* filter was asked for nothing then.                                      *)
LEMMA ListingBrings ==
  ASSUME TypeOK, NEW r \in Span, NEW limit \in Nat, NEW moves,
         NEW c \in Collections(r, filters, limit, moves)
  PROVE  /\ c.items \subseteq Query
         /\ IsFiniteSet(c.items)
         /\ Cardinality(c.items) \in Nat
         /\ c.count \in 0 .. limit
         /\ Cardinality(c.items) <= c.count
         /\ ~moves => c.count = Cardinality(c.items)
         /\ c.warns \subseteq Warning
         /\ c.fallback \in BOOLEAN
         /\ (/\ ~(moves /\ Paged(Matching(r, filters), limit))
             /\ c.warns = {} /\ c.count < limit)
              => In(r) \cap Wanted \subseteq c.items
<1> DEFINE Filtered == Answers(Matching(r, filters), limit, moves)
<1>1. IsFiniteSet(Query) /\ In(r) \subseteq Query /\ Matching(r, filters) \subseteq Query
  BY DiscoveryAssumption DEF In, Matching
<1>2. IsFiniteSet(In(r)) /\ IsFiniteSet(Matching(r, filters))
  BY <1>1, FS_Subset
<1>3. In(r) \cap Wanted \subseteq Matching(r, filters)
  BY DEF Matching, Wanted, In, TypeOK
<1>4. CASE c \in {[items |-> a.items, count |-> a.count, warns |-> a.warns,
                   fallback |-> FALSE] :
                    a \in {b \in Filtered : filters => b.items # {}}}
  <2>1. PICK a \in Filtered :
          c = [items |-> a.items, count |-> a.count, warns |-> a.warns, fallback |-> FALSE]
    BY <1>4
  <2>2. /\ a.items \subseteq Matching(r, filters) /\ a.warns \subseteq Warning
        /\ a.count \in 0 .. limit
        /\ Cardinality(a.items) \in Nat /\ Cardinality(a.items) <= a.count
        /\ ~moves => a.count = Cardinality(a.items)
    BY <1>2, <2>1, AnswerCounts
  <2>3. IsFiniteSet(a.items)
    BY <1>2, <2>2, FS_Subset
  <2>4. (/\ ~(moves /\ Paged(Matching(r, filters), limit))
         /\ a.warns = {} /\ a.count < limit) => a.items = Matching(r, filters)
    BY <1>2, <2>1, RoomToSpare
  <2> HIDE DEF Filtered
  <2> QED
    BY <1>1, <1>3, <2>1, <2>2, <2>3, <2>4
<1>5. CASE c \in {[items |-> a.items, count |-> a.count, warns |-> a.warns \cup w,
                   fallback |-> TRUE] :
                    a \in {b \in Answers(In(r), limit, moves) : filters},
                    w \in {b.warns : b \in {d \in Filtered : d.items = {}}}}
  <2>1. PICK a \in Answers(In(r), limit, moves), d \in Filtered :
          /\ c = [items |-> a.items, count |-> a.count, warns |-> a.warns \cup d.warns,
                  fallback |-> TRUE]
          /\ d.items = {}
    BY <1>5
  <2>2. /\ a.items \subseteq In(r) /\ a.warns \subseteq Warning
        /\ a.count \in 0 .. limit
        /\ Cardinality(a.items) \in Nat /\ Cardinality(a.items) <= a.count
        /\ ~moves => a.count = Cardinality(a.items)
    BY <1>2, <2>1, AnswerCounts
  <2>3. IsFiniteSet(a.items)
    BY <1>2, <2>2, FS_Subset
  <2>4. /\ d.warns \subseteq Warning
        /\ d.count <= limit /\ d.count \in Nat
    BY <1>2, <2>1, AnswerCounts
  <2>5. ASSUME ~(moves /\ Paged(Matching(r, filters), limit)), c.warns = {}, c.count < limit
        PROVE  Matching(r, filters) = {}
    <3>1. d.warns = {} /\ limit > 0
      BY <2>1, <2>2, <2>5
    <3>2. d.count = 0
      BY <2>1, <2>5, FS_EmptySet DEF Answers
    <3> QED
      BY <1>2, <2>1, <2>5, <3>1, <3>2, RoomToSpare
  <2> HIDE DEF Filtered
  <2> QED
    BY <1>1, <1>3, <2>1, <2>2, <2>3, <2>4, <2>5
<1> QED
  BY <1>4, <1>5 DEF Collections

-----------------------------------------------------------------------------
(* Lemma: the invariant holds when a discovery begins. *)
LEMMA InitIInv == Init => IInv
<1> SUFFICES ASSUME Init PROVE IInv
  OBVIOUS
<1>1. Cardinality(found) = 0
  BY FS_EmptySet DEF Init
<1>2. CapKept
  BY <1>1, DiscoveryAssumption DEF Init, CapKept
<1>3. pending \in Seq(Span)
  BY DEF Init
<1>4. TypeOK
  BY <1>3 DEF Init, TypeOK
<1> QED
  BY <1>2, <1>4 DEF Init, IInv, Chain, NewerFound, AtWindow, CapEnds, DoneIsThrough

(* Lemma: listing the whole window keeps the invariant. *)
LEMMA WindowStep == IInv /\ ListWindow => IInv'
<1> SUFFICES ASSUME IInv, ListWindow PROVE IInv'
  OBVIOUS
<1> USE DEF IInv
<1>1. Limit \in Nat \ {0} /\ WholeWindow \in Span
  BY DiscoveryAssumption DEF WholeWindow, Span
<1>2. PICK c \in Collections(WholeWindow, filters, Limit, moving) :
        IF "scanLimit" \in c.warns /\ Window > Shard
          THEN /\ stage' = "shards"
               /\ pending' = TimeShards
               /\ filters' = (filters /\ ~c.fallback)
               /\ warned' = c.warns \ {"scanLimit"}
               /\ UNCHANGED <<found, capHit, filled>>
          ELSE /\ stage' = "done"
               /\ found' = c.items
               /\ warned' = c.warns
               /\ capHit' = (c.count >= Limit)
               /\ filled' = capHit'
               /\ UNCHANGED <<pending, filters>>
  BY DEF ListWindow
<1>3. /\ c.items \subseteq Query
      /\ Cardinality(c.items) \in Nat /\ c.count \in 0 .. Limit
      /\ Cardinality(c.items) <= c.count
      /\ c.warns \subseteq Warning
      /\ c.fallback \in BOOLEAN
      /\ (/\ ~(moving /\ Paged(Matching(WholeWindow, filters), Limit))
          /\ c.warns = {} /\ c.count < Limit)
           => In(WholeWindow) \cap Wanted \subseteq c.items
  BY <1>1, ListingBrings
<1>4. /\ stage = "window" /\ pending = <<>> /\ found = {} /\ ~filled /\ ~capHit
      /\ shards = 0
      /\ UNCHANGED <<time, long, moving, shards>>
  BY DEF ListWindow, AtWindow
<1>5. CASE "scanLimit" \in c.warns /\ Window > Shard
  <2>1. /\ stage' = "shards" /\ pending' = TimeShards /\ filters' \in BOOLEAN
        /\ warned' \subseteq Warning /\ UNCHANGED <<found, capHit, filled>>
    BY <1>2, <1>3, <1>5 DEF TypeOK
  <2>2. TypeOK'
    BY <1>4, <2>1, ShardsTile DEF TypeOK
  <2>3. CapKept'
    BY <2>1 DEF CapKept
  <2>4. Chain'
    BY <2>1, ShardsTile DEF Chain
  <2>5. \A q \in Query : ~Passed(q)'
    <3>1. \A q \in Query : time[q] <= Window
      BY DEF TypeOK
    <3>2. pending' # <<>> /\ pending'[1].to = Window
      BY <2>1, ShardsTile
    <3> QED
      BY <1>1, <1>4, <3>1, <3>2, DiscoveryAssumption DEF Passed, TypeOK
  <2>6. Wanted' \subseteq Query
    BY <1>4 DEF Wanted, TypeOK
  <2>7. NewerFound'
    BY <2>5, <2>6 DEF NewerFound
  <2> QED
    BY <1>4, <2>1, <2>2, <2>3, <2>4, <2>7 DEF AtWindow, CapEnds, DoneIsThrough
<1>6. CASE ~("scanLimit" \in c.warns /\ Window > Shard)
  <2>1. /\ stage' = "done" /\ found' = c.items /\ warned' = c.warns
        /\ capHit' = (c.count >= Limit)
        /\ filled' = capHit'
        /\ UNCHANGED <<pending, filters>>
    BY <1>2, <1>6
  <2>2. TypeOK'
    BY <1>3, <1>4, <2>1 DEF TypeOK
  <2>3. CapKept'
    BY <1>1, <1>3, <2>1 DEF CapKept
  <2>4. Chain' /\ DoneIsThrough' /\ AtWindow' /\ CapEnds'
    BY <1>4, <2>1 DEF Chain, DoneIsThrough, AtWindow, CapEnds
  <2>5. In(WholeWindow) = Query
    BY DiscoveryAssumption DEF In, WholeWindow, TypeOK
  <2>6. Wanted' = Wanted /\ Wanted \subseteq Query
    BY <1>4, <2>1 DEF Wanted, TypeOK
  <2>7. ~Said' => c.warns = {} /\ c.count < Limit
    <3>1. ~Said' => c.warns = {} /\ ~(c.count >= Limit)
      BY <2>1, Zenon DEF Said
    <3> QED
      BY <1>1, <1>3, <3>1
  <2>8. Matching(WholeWindow, filters) = Wanted
    BY <2>5 DEF Matching, Wanted, TypeOK
  <2>9. ~PagesMoved' => ~(moving /\ Paged(Matching(WholeWindow, filters), Limit))
    BY <1>4, <2>6, <2>8 DEF PagesMoved, Paged
  <2>10. NewerFound'
    BY <1>3, <2>1, <2>5, <2>6, <2>7, <2>9 DEF NewerFound
  <2> QED
    BY <2>2, <2>3, <2>4, <2>10
<1> QED
  BY <1>5, <1>6

(* Lemma: a sequence that is not empty has one element or more. *)
LEMMA OneOrMore == \A n \in Nat \ {0} : n = 1 \/ n > 1
  OBVIOUS

(* Lemma: a split puts the two halves in the place of the first shard. *)
LEMMA SplitShape ==
  ASSUME NEW p \in Seq(Span), p # <<>>, CanSplit(p[1]),
         NEW s, s = Halves(p[1]) \o Tail(p)
  PROVE  /\ s \in Seq(Span) /\ Len(s) = Len(p) + 1
         /\ s[1] = Halves(p[1])[1] /\ s[2] = Halves(p[1])[2]
         /\ \A i \in 3 .. Len(s) : s[i] = p[i - 1]
<1> DEFINE h == Halves(p[1])
<1>0. p[1] \in Span /\ Len(p) \in Nat \ {0}
  OBVIOUS
<1>1. h \in Seq(Span) /\ Len(h) = 2
  BY <1>0, HalvesMeet
<1> HIDE DEF h
<1>2. s = h \o Tail(p)
  BY DEF h
<1>3. Tail(p) \in Seq(Span) /\ Len(Tail(p)) = Len(p) - 1
  BY <1>0
<1>4. \A i \in 1 .. Len(p) - 1 : Tail(p)[i] = p[i + 1]
  BY <1>0
<1>5. /\ s \in Seq(Span) /\ Len(s) = Len(h) + Len(Tail(p))
      /\ \A i \in 1 .. Len(h) + Len(Tail(p)) :
           s[i] = IF i <= Len(h) THEN h[i] ELSE Tail(p)[i - Len(h)]
  <2>1. /\ h \o Tail(p) \in Seq(Span) /\ Len(h \o Tail(p)) = Len(h) + Len(Tail(p))
        /\ \A i \in 1 .. Len(h) + Len(Tail(p)) :
             (h \o Tail(p))[i] = IF i <= Len(h) THEN h[i] ELSE Tail(p)[i - Len(h)]
    BY <1>1, <1>3, ConcatProperties, Zenon
  <2> QED
    BY <1>2, <2>1, Zenon
<1>6. Len(s) = Len(p) + 1
  BY <1>0, <1>1, <1>3, <1>5
<1>7. s[1] = h[1] /\ s[2] = h[2]
  BY <1>0, <1>1, <1>3, <1>5
<1>8. \A i \in 3 .. Len(s) : s[i] = p[i - 1]
  <2>1. SUFFICES ASSUME NEW i \in 3 .. Len(s) PROVE s[i] = p[i - 1]
    OBVIOUS
  <2>2. s[i] = Tail(p)[i - 2]
    BY <1>0, <1>1, <1>3, <1>5, <1>6
  <2> QED
    BY <1>0, <1>4, <1>6, <2>2
<1> QED
  BY <1>5, <1>6, <1>7, <1>8 DEF h

(* Lemma: the first half keeps the edge of what has been passed, and the   *)
(* chain goes on through both halves.                                      *)
LEMMA SplitKeepsChain ==
  ASSUME NEW p \in Seq(Span), p # <<>>, CanSplit(p[1]),
         \A i \in 1 .. Len(p) : p[i].from <= p[i].to,
         \A i \in 1 .. Len(p) - 1 : p[i].from = p[i + 1].to,
         p[Len(p)].from = 0,
         NEW s, s = Halves(p[1]) \o Tail(p)
  PROVE  /\ s \in Seq(Span) /\ s # <<>>
         /\ s[1].to = p[1].to
         /\ \A i \in 1 .. Len(s) : s[i].from <= s[i].to
         /\ \A i \in 1 .. Len(s) - 1 : s[i].from = s[i + 1].to
         /\ s[Len(s)].from = 0
<1> DEFINE h == Halves(p[1])
<1>0. p[1] \in Span /\ Len(p) \in Nat \ {0}
  OBVIOUS
<1>1. /\ h[1].to = p[1].to /\ h[1].from = h[2].to
      /\ h[2].from = p[1].from /\ h[1].from <= h[1].to /\ h[2].from <= h[2].to
  BY <1>0, HalvesMeet
<1>4. /\ s \in Seq(Span) /\ Len(s) = Len(p) + 1
      /\ s[1] = Halves(p[1])[1] /\ s[2] = Halves(p[1])[2]
      /\ \A i \in 3 .. Len(s) : s[i] = p[i - 1]
  <2>1. p \in Seq(Span) /\ p # <<>> /\ CanSplit(p[1]) /\ s = Halves(p[1]) \o Tail(p)
    OBVIOUS
  <2> QED BY ONLY <2>1, SplitShape
<1>5. /\ s \in Seq(Span) /\ Len(s) = Len(p) + 1
      /\ s[1] = h[1] /\ s[2] = h[2]
      /\ \A i \in 3 .. Len(s) : s[i] = p[i - 1]
  BY ONLY <1>4
<1> HIDE DEF h
<1>6. s[1] = h[1] /\ s[2] = h[2]
  BY <1>5
<1>7. \A i \in 3 .. Len(s) : s[i] = p[i - 1]
  BY <1>5
<1>8. \A i \in 1 .. Len(s) : i = 1 \/ i = 2 \/ i \in 3 .. Len(s)
  BY <1>0, <1>5
<1>9. \A i \in 1 .. Len(s) : s[i].from <= s[i].to
  <2>1. \A i \in 3 .. Len(s) : i - 1 \in 1 .. Len(p)
    BY <1>0, <1>5
  <2> QED
    BY <1>1, <1>6, <1>7, <1>8, <2>1
<1>10. \A i \in 1 .. Len(s) - 1 : s[i].from = s[i + 1].to
  <2>1. SUFFICES ASSUME NEW i \in 1 .. Len(s) - 1 PROVE s[i].from = s[i + 1].to
    OBVIOUS
  <2>2. CASE i = 1
    BY <1>1, <1>6, <2>2
  <2>3. CASE i = 2
    <3>1. 3 \in 3 .. Len(s) /\ 1 \in 1 .. Len(p) - 1
      BY <1>0, <1>5, <2>3
    <3>2. s[3] = p[2] /\ p[1].from = p[2].to
      BY <1>7, <3>1
    <3> QED
      BY <1>1, <1>6, <2>3, <3>2
  <2>4. CASE i >= 3
    <3>1. i \in 3 .. Len(s) /\ i + 1 \in 3 .. Len(s) /\ i - 1 \in 1 .. Len(p) - 1
      BY <1>0, <1>5, <2>4
    <3>2. s[i] = p[i - 1] /\ s[i + 1] = p[(i + 1) - 1] /\ (i + 1) - 1 = (i - 1) + 1
      BY <1>7, <3>1
    <3> QED
      BY <3>1, <3>2
  <2> QED
    BY <1>5, <2>2, <2>3, <2>4
<1>11. s[Len(s)].from = 0
  <2>1. CASE Len(p) = 1
    BY <1>1, <1>5, <1>6, <2>1
  <2>2. CASE Len(p) > 1
    <3>1. Len(s) \in 3 .. Len(s) /\ Len(s) - 1 = Len(p)
      BY <1>0, <1>5, <2>2
    <3>2. s[Len(s)] = p[Len(s) - 1]
      BY <1>7, <3>1
    <3> QED
      BY <3>1, <3>2
  <2>3. Len(p) = 1 \/ Len(p) > 1
    BY <1>0, OneOrMore, Zenon
  <2> QED
    BY <2>1, <2>2, <2>3
<1> QED
  BY <1>0, <1>1, <1>5, <1>6, <1>9, <1>10, <1>11

(* Lemma: giving up the first shard leaves a chain. *)
LEMMA TailKeepsChain ==
  ASSUME NEW p \in Seq(Span), p # <<>>,
         \A i \in 1 .. Len(p) : p[i].from <= p[i].to,
         \A i \in 1 .. Len(p) - 1 : p[i].from = p[i + 1].to,
         p[Len(p)].from = 0,
         NEW s, s = Tail(p)
  PROVE  /\ s \in Seq(Span)
         /\ s = <<>> => p[1].from = 0
         /\ s # <<>> => s[1].to = p[1].from
         /\ \A i \in 1 .. Len(s) : s[i].from <= s[i].to
         /\ \A i \in 1 .. Len(s) - 1 : s[i].from = s[i + 1].to
         /\ s # <<>> => s[Len(s)].from = 0
<1>1. /\ s \in Seq(Span) /\ Len(s) = Len(p) - 1 /\ Len(p) \in Nat \ {0}
      /\ \A i \in 1 .. Len(s) : s[i] = p[i + 1]
  BY HeadTailProperties
<1>2. s = <<>> => Len(p) = 1
  <2>1. s = <<>> => Len(s) = 0
    OBVIOUS
  <2> QED
    BY <1>1, <2>1
<1>3. s # <<>> => Len(p) > 1
  BY <1>1, EmptySeq
<1>4. s # <<>> => s[1].to = p[1].from
  BY <1>1, <1>3
<1>5. \A i \in 1 .. Len(s) : s[i].from <= s[i].to
  BY <1>1
<1>6. \A i \in 1 .. Len(s) - 1 : s[i].from = s[i + 1].to
  BY <1>1
<1>7. s # <<>> => s[Len(s)].from = 0
  BY <1>1, <1>3
<1> QED
  BY <1>1, <1>2, <1>4, <1>5, <1>6, <1>7

(* Lemma: listing a shard, to be split or to count, keeps the invariant. *)
LEMMA ShardStep == IInv /\ ListShard => IInv'
<1> SUFFICES ASSUME IInv, ListShard PROVE IInv'
  OBVIOUS
<1> USE DEF IInv
<1>1. /\ stage = "shards" /\ pending # <<>> /\ pending \in Seq(Span)
      /\ UNCHANGED <<time, long, moving, filters, stage>> /\ shards' = shards + 1 /\ shards \in Nat
  BY DEF ListShard, TypeOK
<1>2. /\ \A i \in 1 .. Len(pending) : pending[i].from <= pending[i].to
      /\ \A i \in 1 .. Len(pending) - 1 : pending[i].from = pending[i + 1].to
      /\ pending[Len(pending)].from = 0
  BY <1>1 DEF Chain
<1>3. Head(pending) = pending[1] /\ pending[1] \in Span
  BY <1>1
<1>4. IsFiniteSet(Query) /\ found \subseteq Query /\ IsFiniteSet(found) /\ Limit \in Nat \ {0}
  BY DiscoveryAssumption, FS_Subset DEF TypeOK
<1>5. Cardinality(found) \in Nat /\ Cardinality(found) <= Limit /\ Remaining \in Nat
  BY <1>4, FS_CardinalityType DEF CapKept, Remaining
<1>6. PICK c \in Collections(Head(pending), filters, Remaining, FALSE) :
         SplitShard(c) \/ MergeShard(c)
  BY DEF ListShard
<1>7. /\ c.items \subseteq Query
      /\ IsFiniteSet(c.items)
      /\ Cardinality(c.items) \in Nat
      /\ Cardinality(c.items) <= Remaining
      /\ c.warns \subseteq Warning
      /\ c.warns = {} /\ Cardinality(c.items) < Remaining
           => In(pending[1]) \cap Wanted \subseteq c.items
  <2>1. c \in Collections(pending[1], filters, Remaining, FALSE)
    BY <1>3, <1>6
  <2>2. /\ c.items \subseteq Query /\ IsFiniteSet(c.items)
        /\ Cardinality(c.items) \in Nat
        /\ c.count \in 0 .. Remaining /\ c.count = Cardinality(c.items)
        /\ c.warns \subseteq Warning
        /\ c.warns = {} /\ c.count < Remaining => In(pending[1]) \cap Wanted \subseteq c.items
    BY <1>3, <1>5, <2>1, ListingBrings
  <2> QED
    BY <1>5, <2>2
<1>13. ~capHit
  BY <1>1 DEF CapEnds
<1>8. Wanted' = Wanted /\ Wanted \subseteq Query /\ \A q \in Query : time'[q] = time[q]
  BY <1>1 DEF Wanted, TypeOK
<1>9. AtWindow' /\ DoneIsThrough'
  BY <1>1 DEF AtWindow, DoneIsThrough
<1>10. CASE SplitShard(c)
  <2>1. /\ CanSplit(pending[1]) /\ pending' = Halves(pending[1]) \o Tail(pending)
        /\ warned' = warned \cup (c.warns \ {"scanLimit"})
        /\ UNCHANGED <<found, capHit, filled>>
    BY <1>3, <1>10 DEF SplitShard
  <2>2. /\ pending' \in Seq(Span) /\ pending' # <<>>
        /\ pending'[1].to = pending[1].to
        /\ Chain'
    <3> DEFINE s == Halves(pending[1]) \o Tail(pending)
    <3>1. /\ s \in Seq(Span) /\ s # <<>>
          /\ s[1].to = pending[1].to
          /\ \A i \in 1 .. Len(s) : s[i].from <= s[i].to
          /\ \A i \in 1 .. Len(s) - 1 : s[i].from = s[i + 1].to
          /\ s[Len(s)].from = 0
      BY <1>1, <1>2, <2>1, SplitKeepsChain
    <3>2. pending' = s
      BY <2>1
    <3> HIDE DEF s
    <3> QED
      BY <3>1, <3>2 DEF Chain
  <2>3. TypeOK'
    BY <1>1, <1>7, <2>1, <2>2 DEF TypeOK
  <2>4. CapKept'
    BY <2>1 DEF CapKept
  <2>5. \A q \in Query : Passed(q)' => Passed(q)
    BY <1>8, <2>2 DEF Passed
  <2>6. ~Said' => ~Said
    BY <2>1 DEF Said
  <2>7. NewerFound'
    BY <1>1, <1>8, <2>1, <2>5, <2>6 DEF NewerFound
  <2> QED
    BY <1>9, <1>13, <2>1, <2>2, <2>3, <2>4, <2>7 DEF CapEnds
<1>11. CASE MergeShard(c)
  <2>1. /\ found' = found \cup c.items
        /\ warned' = warned \cup c.warns
        /\ capHit' = (Cardinality(found') >= Limit /\ Tail(pending) # <<>>)
        /\ pending' = IF capHit' THEN <<>> ELSE Tail(pending)
        /\ filled' = (filled \/ Cardinality(c.items) >= Remaining)
    BY <1>11 DEF MergeShard
  <2>2. capHit' \in BOOLEAN /\ filled' \in BOOLEAN
    BY <2>1 DEF TypeOK
  <2>3. /\ Tail(pending) \in Seq(Span)
        /\ Tail(pending) = <<>> => pending[1].from = 0
        /\ Tail(pending) # <<>> => Tail(pending)[1].to = pending[1].from
        /\ \A i \in 1 .. Len(Tail(pending)) : Tail(pending)[i].from <= Tail(pending)[i].to
        /\ \A i \in 1 .. Len(Tail(pending)) - 1 :
             Tail(pending)[i].from = Tail(pending)[i + 1].to
        /\ Tail(pending) # <<>> => Tail(pending)[Len(Tail(pending))].from = 0
    BY <1>1, <1>2, TailKeepsChain
  <2>4. pending' = <<>> \/ pending' = Tail(pending)
    BY <2>1
  <2>5. pending' \in Seq(Span) /\ Chain'
    <3>1. CASE pending' = <<>>
      BY <3>1 DEF Chain
    <3>2. CASE pending' = Tail(pending)
      BY <2>3, <3>2 DEF Chain
    <3> QED
      BY <2>4, <3>1, <3>2
  <2>6. TypeOK'
    BY <1>1, <1>7, <2>1, <2>2, <2>5 DEF TypeOK
  <2>7. CapKept'
    <3>1. Cardinality(found \cup c.items) <= Cardinality(found) + Cardinality(c.items)
      <4>1. /\ Cardinality(found \cup c.items)
                 = Cardinality(found) + Cardinality(c.items) - Cardinality(found \cap c.items)
            /\ IsFiniteSet(found \cap c.items)
        BY <1>4, <1>7, FS_Union, FS_Intersection
      <4>2. Cardinality(found \cap c.items) \in Nat
        BY <4>1, FS_CardinalityType
      <4> QED
        BY <1>5, <1>7, <4>1, <4>2
    <3>2. Cardinality(found \cup c.items) \in Nat
      BY <1>4, <1>7, FS_Union, FS_CardinalityType
    <3> QED
      BY <1>4, <1>5, <1>7, <2>1, <3>1, <3>2 DEF CapKept, Remaining
  <2>8. ASSUME ~Said', ~filled', NEW q \in Wanted, Passed(q)'
        PROVE  q \in found'
    <3>1. /\ ~capHit' /\ warned' = {} /\ ~filled
          /\ ~(Cardinality(c.items) >= Remaining)
      BY <2>1, <2>8, Zenon DEF Said
    <3>2. ~Said /\ c.warns = {}
      BY <1>13, <2>1, <3>1 DEF Said
    <3>3. pending' = Tail(pending)
      BY <2>1, <3>1
    <3>4. In(pending[1]) \cap Wanted \subseteq c.items
      BY <1>5, <1>7, <3>1, <3>2
    <3>5. q \in Query /\ time[q] \in 0 .. Window
      BY <1>8 DEF TypeOK
    <3>6. CASE Passed(q)
      BY <1>1, <2>1, <3>1, <3>2, <3>6 DEF NewerFound
    <3>7. CASE ~Passed(q)
      <4>1. time[q] <= pending[1].to
        BY <1>3, <3>5, <3>7 DEF Passed, Span
      <4>2. pending[1].from <= time[q]
        <5>1. CASE Tail(pending) = <<>>
          BY <2>3, <3>5, <5>1
        <5>2. CASE Tail(pending) # <<>>
          <6>1. time[q] > pending[1].from
            BY <1>8, <2>3, <2>8, <3>3, <3>5, <5>2 DEF Passed
          <6> QED
            BY <1>3, <3>5, <6>1 DEF Span
        <5> QED
          BY <5>1, <5>2
      <4>3. q \in In(pending[1])
        BY <3>5, <4>1, <4>2 DEF In
      <4> QED
        BY <2>1, <3>4, <4>3
    <3> QED
      BY <3>6, <3>7
  <2>9. NewerFound'
    BY <1>8, <2>8 DEF NewerFound
  <2>10. CapEnds'
    BY <2>1 DEF CapEnds
  <2> QED
    BY <1>9, <2>5, <2>6, <2>7, <2>9, <2>10
<1> QED
  BY <1>6, <1>10, <1>11

(* Lemma: so does the end of the loop. *)
LEMMA EndStep == IInv /\ EndShards => IInv'
<1> SUFFICES ASSUME IInv, EndShards PROVE IInv'
  OBVIOUS
<1>1. /\ stage = "shards" /\ pending = <<>> /\ stage' = "done"
      /\ UNCHANGED <<time, long, moving, filters, found, pending, shards, warned, capHit,
                     filled>>
  BY DEF EndShards
<1>2. TypeOK' /\ CapKept' /\ Chain'
  BY <1>1 DEF IInv, TypeOK, CapKept, Chain
<1>3. NewerFound'
  BY <1>1 DEF IInv, NewerFound, Said, Wanted, Passed
<1> QED
  BY <1>1, <1>2, <1>3 DEF IInv, AtWindow, CapEnds, DoneIsThrough

(* Lemma: and a stuttering step. *)
LEMMA StutterStep == IInv /\ UNCHANGED vars => IInv'
  BY DEF IInv, vars, TypeOK, CapKept, Chain, NewerFound, Said, Wanted, Passed,
         PagesMoved, Paged, AtWindow, CapEnds, DoneIsThrough

(* Lemma: the invariant always holds. *)
LEMMA Inductive == Spec => []IInv
<1>1. IInv /\ [Next]_vars => IInv'
  BY WindowStep, ShardStep, EndStep, StutterStep DEF Next
<1> QED
  BY InitIInv, <1>1, PTL DEF Spec

-----------------------------------------------------------------------------
(* Every variable keeps its type, whatever the manager answers. *)
THEOREM DiscoveryTypeCorrect == Spec => []TypeOK
<1>1. IInv => TypeOK
  BY DEF IInv
<1> QED
  BY Inductive, <1>1, PTL

(* A discovery keeps no more summaries than its cap, for every window and  *)
(* every way of halving it.                                                *)
THEOREM CapIsKept == Spec => []CapKept
<1>1. IInv => CapKept
  BY DEF IInv
<1> QED
  BY Inductive, <1>1, PTL

(* A discovery that ends without a warning, without the cap and without a  *)
(* filled listing has found every query it was asked for, unless it ended  *)
(* with the whole window in pages that moved.                              *)
THEOREM SilenceIsComplete == Spec => []NothingLostSilently
<1>1. IInv => NothingLostSilently
  BY DEF IInv, NothingLostSilently, NewerFound, DoneIsThrough, Passed
<1> QED
  BY Inductive, <1>1, PTL

-----------------------------------------------------------------------------
(* Halving stops.                                                          *)

(* Every pending shard is at least a unit long, so that as many units lie  *)
(* before the end of a shard as there are shards from it on.               *)
Long ==
  \A i \in 1 .. Len(pending) :
    /\ pending[i].from < pending[i].to
    /\ pending[i].to >= Len(pending) - i + 1

(* A shard of n units is worth the 2 n - 1 nodes of a tree that halves it  *)
(* down to units.  The pending ones follow one another, so together they   *)
(* are worth twice the end of the first less their number.  Halving spends *)
(* the one node that was listed; giving a shard up spends at least one.    *)
Spent ==
  /\ pending = <<>> => shards <= 2 * Window - Len(TimeShards)
  /\ pending # <<>> => shards + 2 * pending[1].to - Len(pending)
                         <= 2 * Window - Len(TimeShards)

LEMMA SpanEnds ==
  ASSUME NEW r \in Span
  PROVE  r.from \in Int /\ r.to \in Int
BY DEF Span

(* Lemma: halves of a shard that can be halved are shorter and not empty.  *)
LEMMA HalvesProper ==
  ASSUME NEW r \in Span, CanSplit(r)
  PROVE  /\ Halves(r)[1].from < Halves(r)[1].to
         /\ Halves(r)[2].from < Halves(r)[2].to
         /\ r.from + 2 <= r.to
<1> DEFINE half == Length(r) \div 2
<1> DEFINE middle == r.from + IF half > 1 THEN half ELSE 1
<1>0. r.from \in 0 .. Window /\ r.to \in 0 .. Window
  BY DEF Span
<1>1. Length(r) \in Nat /\ Length(r) > 1
  BY <1>0, DiscoveryAssumption DEF CanSplit, Length
<1>2. half \in Nat /\ half < Length(r)
  BY <1>1
<1>3. r.from < middle /\ middle < r.to
  BY <1>0, <1>1, <1>2, DiscoveryAssumption DEF Length
<1>4. Halves(r) = <<[from |-> middle, to |-> r.to], [from |-> r.from, to |-> middle]>>
  BY DEF Halves
<1> HIDE DEF half, middle
<1> QED
  BY <1>0, <1>1, <1>3, <1>4 DEF Length

(* Lemma: none of the first shards is empty, and there are no more of them *)
(* than units in the window.                                               *)
LEMMA ShardsProper ==
  /\ Len(TimeShards) \in Nat /\ Len(TimeShards) <= Window
  /\ \A i \in 1 .. Len(TimeShards) :
       /\ TimeShards[i].from < TimeShards[i].to
       /\ TimeShards[i].to >= Len(TimeShards) - i + 1
<1> DEFINE n == (Window + Shard - 1) \div Shard
<1>0. Window \in Nat \ {0} /\ Shard \in Nat \ {0}
  BY DiscoveryAssumption
<1>1. n \in Nat \ {0} /\ (n - 1) * Shard < Window
  BY <1>0, Rounding
<1>2. TimeShards = [i \in 1 .. n |->
                      [from |-> IF i * Shard < Window THEN Window - i * Shard ELSE 0,
                       to   |-> Window - (i - 1) * Shard]]
  BY DEF TimeShards
<1>3. Len(TimeShards) = n
  <2>1. TimeShards \in Seq(Span)
    BY ShardsTile
  <2> HIDE DEF n
  <2> QED
    BY <1>1, <1>2, <2>1
<1> HIDE DEF n
<1>4. ASSUME NEW i \in 1 .. n
      PROVE  /\ TimeShards[i].from < TimeShards[i].to
             /\ TimeShards[i].to >= n - i + 1
  <2>1. i \in Nat /\ i - 1 \in Nat /\ n - i \in Nat
    BY <1>1
  <2>2. /\ (i - 1) * Shard \in Nat /\ i * Shard = (i - 1) * Shard + Shard
        /\ (n - 1) * Shard = (i - 1) * Shard + (n - i) * Shard
    BY <1>0, <1>1, <2>1
  <2>3. (n - i) * Shard >= n - i
    <3>1. (n - i) * (Shard - 1) \in Nat
      BY <1>0, <2>1
    <3>2. (n - i) * Shard = (n - i) * (Shard - 1) + (n - i)
      BY <1>0, <2>1
    <3> QED
      BY <2>1, <3>1, <3>2
  <2>4. (n - i) * Shard \in Nat /\ i * Shard \in Nat
    BY <1>0, <2>1
  <2>5. Window - (i - 1) * Shard >= n - i + 1
    BY <1>0, <1>1, <2>1, <2>2, <2>3, <2>4
  <2>6. /\ TimeShards[i].to = Window - (i - 1) * Shard
        /\ TimeShards[i].from = IF i * Shard < Window THEN Window - i * Shard ELSE 0
    BY <1>2
  <2> QED
    BY <1>0, <1>1, <2>1, <2>2, <2>4, <2>5, <2>6
<1>5. n <= Window
  <2>1. TimeShards[1].to = Window /\ 1 \in 1 .. n
    BY <1>1, ShardsTile
  <2> QED
    BY <1>0, <1>1, <1>4, <2>1
<1> QED
  BY <1>1, <1>3, <1>4, <1>5

(* Lemma: the account is balanced when a discovery begins. *)
LEMMA InitSpent == Init => Long /\ Spent
<1>1. Init => pending = <<>> /\ shards = 0 /\ Len(pending) = 0
  BY DEF Init
<1>2. 0 <= 2 * Window - Len(TimeShards)
  BY ShardsProper, DiscoveryAssumption
<1> QED
  BY <1>1, <1>2 DEF Long, Spent

(* Lemma: and after the window was listed. *)
LEMMA WindowSpent == IInv /\ Long /\ Spent /\ ListWindow => Long' /\ Spent'
<1> SUFFICES ASSUME IInv, Long, Spent, ListWindow PROVE Long' /\ Spent'
  OBVIOUS
<1>1. /\ stage = "window" /\ shards' = shards /\ shards = 0 /\ pending = <<>>
      /\ \/ stage' = "shards" /\ pending' = TimeShards
         \/ stage' = "done" /\ pending' = pending
  BY DEF ListWindow, Spent, IInv, AtWindow
<1>2. /\ Len(TimeShards) \in Nat /\ Len(TimeShards) <= Window /\ Window \in Nat
      /\ TimeShards[1].to = Window
  BY ShardsProper, ShardsTile, DiscoveryAssumption
<1>3. CASE stage' = "shards" /\ pending' = TimeShards
  BY <1>1, <1>2, <1>3, ShardsProper DEF Long, Spent
<1>4. CASE stage' = "done" /\ pending' = pending
  BY <1>1, <1>2, <1>4 DEF Long, Spent
<1> QED
  BY <1>1, <1>3, <1>4

(* Lemma: a split of the first shard leaves the account as it is. *)
LEMMA SplitSpent ==
  ASSUME IInv, Long, Spent, stage = "shards", pending # <<>>, CanSplit(pending[1]),
         pending' = Halves(pending[1]) \o Tail(pending),
         shards' = shards + 1, stage' = stage
  PROVE  Long' /\ Spent'
<1>1. /\ pending \in Seq(Span) /\ pending[1] \in Span /\ Len(pending) \in Nat \ {0}
      /\ shards \in Nat
  BY DEF IInv, TypeOK
<1>2. PICK s : s = Halves(pending[1]) \o Tail(pending) /\ pending' = s
  OBVIOUS
<1>3. /\ s \in Seq(Span) /\ Len(s) = Len(pending) + 1
      /\ s[1] = Halves(pending[1])[1] /\ s[2] = Halves(pending[1])[2]
      /\ \A i \in 3 .. Len(s) : s[i] = pending[i - 1]
  BY <1>1, <1>2, SplitShape
<1>4. /\ s[1].from < s[1].to /\ s[2].from < s[2].to /\ pending[1].from + 2 <= pending[1].to
      /\ s[1].to = pending[1].to /\ s[2].from = pending[1].from
  BY <1>1, <1>3, HalvesProper, HalvesMeet
<1>5. pending[1].from >= Len(pending) - 1
  <2>1. CASE Len(pending) = 1
    BY <1>1, <2>1 DEF IInv, Chain
  <2>2. CASE Len(pending) > 1
    <3>1. 1 \in 1 .. Len(pending) - 1 /\ 2 \in 1 .. Len(pending)
      BY <1>1, <2>2
    <3>2. pending[1].from = pending[2].to /\ pending[2].to >= Len(pending) - 2 + 1
      BY <3>1 DEF IInv, Chain, Long
    <3> QED
      BY <1>1, <3>2
  <2>3. Len(pending) = 1 \/ Len(pending) > 1
    BY <1>1, OneOrMore, Zenon
  <2> QED
    BY <2>1, <2>2, <2>3
<1>6. ASSUME NEW i \in 1 .. Len(s)
      PROVE  s[i].from < s[i].to /\ s[i].to >= Len(s) - i + 1
  <2>0. /\ pending[1].from \in Int /\ pending[1].to \in Int
        /\ s[2].to \in Int
    <3>1. 2 \in 1 .. Len(s)
      BY <1>1, <1>3
    <3>2. s[2] \in Span
      BY <1>3, <3>1, ElementOfSeq
    <3> QED
      BY <1>1, <3>2, SpanEnds
  <2>1. CASE i = 1
    BY <1>1, <1>3, <1>4, <1>5, <2>0, <2>1
  <2>2. CASE i = 2
    BY <1>1, <1>3, <1>4, <1>5, <2>0, <2>2
  <2>3. CASE i \in 3 .. Len(s)
    <3>1. i - 1 \in 1 .. Len(pending)
      BY <1>1, <1>3, <2>3
    <3>2. /\ pending[i - 1].from < pending[i - 1].to
          /\ pending[i - 1].to >= Len(pending) - (i - 1) + 1
      BY <3>1 DEF Long
    <3>3. s[i] = pending[i - 1] /\ Len(pending) - (i - 1) + 1 = Len(s) - i + 1
      BY <1>1, <1>3, <2>3
    <3> QED
      BY <3>2, <3>3
  <2>4. i = 1 \/ i = 2 \/ i \in 3 .. Len(s)
    BY <1>1, <1>3
  <2> QED
    BY <2>1, <2>2, <2>3, <2>4
<1>7. s # <<>>
  BY <1>1, <1>3
<1>8. Spent'
  <2>1. pending[1].to \in Int /\ Len(TimeShards) \in Nat /\ Window \in Nat
    BY <1>1, ShardsProper, SpanEnds, DiscoveryAssumption
  <2>2. shards + 2 * pending[1].to - Len(pending) <= 2 * Window - Len(TimeShards)
    BY DEF Spent
  <2>3. (shards + 1) + 2 * s[1].to - Len(s) <= 2 * Window - Len(TimeShards)
    BY <1>1, <1>3, <1>4, <2>1, <2>2
  <2> QED
    BY <1>2, <1>7, <2>3 DEF Spent
<1> QED
  BY <1>2, <1>6, <1>8 DEF Long

(* Lemma: a shard that is not split spends more than its own listing. *)
LEMMA MergeSpent ==
  ASSUME IInv, Long, Spent, stage = "shards", pending # <<>>,
         pending' = <<>> \/ pending' = Tail(pending),
         shards' = shards + 1, stage' = stage
  PROVE  Long' /\ Spent'
<1>1. /\ pending \in Seq(Span) /\ pending[1] \in Span /\ Len(pending) \in Nat \ {0}
      /\ shards \in Nat
  BY DEF IInv, TypeOK
<1>2. /\ Tail(pending) \in Seq(Span) /\ Len(Tail(pending)) = Len(pending) - 1
      /\ \A i \in 1 .. Len(Tail(pending)) : Tail(pending)[i] = pending[i + 1]
  BY <1>1, HeadTailProperties
<1>3. /\ pending[1].from \in Int /\ pending[1].to \in Int
      /\ Len(TimeShards) \in Nat /\ Window \in Nat
      /\ pending[1].from < pending[1].to /\ pending[1].to >= Len(pending)
      /\ shards + 2 * pending[1].to - Len(pending) <= 2 * Window - Len(TimeShards)
  <2>1. 1 \in 1 .. Len(pending)
    BY <1>1
  <2>2. pending[1].from < pending[1].to /\ pending[1].to >= Len(pending) - 1 + 1
    BY <2>1 DEF Long
  <2> QED
    BY <1>1, <2>2, ShardsProper, DiscoveryAssumption DEF Spent, Span
<1>4. CASE pending' = <<>>
  BY <1>1, <1>3, <1>4 DEF Long, Spent
<1>5. CASE pending' = Tail(pending) /\ Tail(pending) # <<>>
  <2>1. Len(pending) > 1
    BY <1>1, <1>2, <1>5, EmptySeq
  <2>2. 1 \in 1 .. Len(Tail(pending)) /\ 1 \in 1 .. Len(pending) - 1
    BY <1>1, <1>2, <2>1
  <2>3. Tail(pending)[1].to = pending[1].from
    BY <1>2, <2>2 DEF IInv, Chain
  <2>4. Spent'
    <3>1. (shards + 1) + 2 * Tail(pending)[1].to - Len(Tail(pending))
            <= 2 * Window - Len(TimeShards)
      <4>1. \A a, b, n, k, m \in Int :
              a < b /\ k + 2 * b - n <= m => (k + 1) + 2 * a - (n - 1) <= m
        OBVIOUS
      <4>2. (shards + 1) + 2 * pending[1].from - (Len(pending) - 1)
              <= 2 * Window - Len(TimeShards)
        BY <1>1, <1>3, <4>1
      <4> QED
        BY <1>2, <2>3, <4>2
    <3> QED
      BY <1>5, <3>1 DEF Spent
  <2>5. ASSUME NEW i \in 1 .. Len(Tail(pending))
        PROVE  /\ Tail(pending)[i].from < Tail(pending)[i].to
               /\ Tail(pending)[i].to >= Len(Tail(pending)) - i + 1
    <3>1. i + 1 \in 1 .. Len(pending) /\ Tail(pending)[i] = pending[i + 1]
      BY <1>1, <1>2
    <3>2. /\ pending[i + 1].from < pending[i + 1].to
          /\ pending[i + 1].to >= Len(pending) - (i + 1) + 1
      BY <3>1 DEF Long
    <3>3. Len(pending) - (i + 1) + 1 = Len(Tail(pending)) - i + 1
      BY <1>1, <1>2
    <3> QED
      BY <3>1, <3>2, <3>3
  <2> QED
    BY <1>5, <2>4, <2>5 DEF Long
<1> QED
  BY <1>4, <1>5

LEMMA ShardSpent == IInv /\ Long /\ Spent /\ ListShard => Long' /\ Spent'
<1> SUFFICES ASSUME IInv, Long, Spent, ListShard PROVE Long' /\ Spent'
  OBVIOUS
<1>1. /\ stage = "shards" /\ pending # <<>> /\ stage' = stage /\ shards' = shards + 1
      /\ \E c : SplitShard(c) \/ MergeShard(c)
  BY DEF ListShard
<1>2. Head(pending) = pending[1]
  BY DEF IInv, TypeOK
<1>3. CASE \E c : SplitShard(c)
  BY <1>1, <1>2, <1>3, SplitSpent DEF SplitShard
<1>4. CASE \E c : MergeShard(c)
  BY <1>1, <1>4, MergeSpent DEF MergeShard
<1> QED
  BY <1>1, <1>3, <1>4

LEMMA SpentStep == IInv /\ Long /\ Spent /\ [Next]_vars => Long' /\ Spent'
<1> SUFFICES ASSUME IInv, Long, Spent, EndShards \/ UNCHANGED vars PROVE Long' /\ Spent'
  BY WindowSpent, ShardSpent DEF Next
<1> QED
  BY DEF EndShards, vars, Long, Spent

(* However often the manager says that it gave up, a discovery lists no    *)
(* more shards than a tree has nodes whose leaves are units of time: the   *)
(* work list of list_time_sharded_candidates runs empty.                   *)
THEOREM HalvingStops == Spec => []ListingsBounded
<1>1. IInv /\ Long /\ Spent => ListingsBounded
  <2> SUFFICES ASSUME IInv, Long, Spent PROVE ListingsBounded
    OBVIOUS
  <2>1. /\ pending \in Seq(Span) /\ shards \in Nat /\ Len(pending) \in Nat
        /\ Len(TimeShards) \in Nat /\ Window \in Nat
    BY ShardsProper, DiscoveryAssumption DEF IInv, TypeOK
  <2>2. CASE pending = <<>>
    BY <2>1, <2>2 DEF Spent, ListingsBounded
  <2>3. CASE pending # <<>>
    <3>1. 1 \in 1 .. Len(pending) /\ pending[1].to \in Int
      <4>1. Len(pending) # 0
        BY <2>1, <2>3, EmptySeq
      <4>2. 1 \in 1 .. Len(pending)
        BY <2>1, <4>1
      <4> QED
        BY <2>1, <4>2, ElementOfSeq, SpanEnds
    <3>2. pending[1].to >= Len(pending) - 1 + 1
      BY <3>1 DEF Long
    <3> QED
      BY <2>1, <2>3, <3>1, <3>2 DEF Spent, ListingsBounded
  <2> QED
    BY <2>2, <2>3
<1> QED
  BY Inductive, InitSpent, SpentStep, <1>1, PTL DEF Spec

=============================================================================
