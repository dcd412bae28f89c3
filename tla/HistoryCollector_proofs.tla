----------------------- MODULE HistoryCollector_proofs -----------------------
(***************************************************************************)
(* Proofs about HistoryCollector: its type invariant, that the store keeps *)
(* what a run listed for the whole retention, and that a ready summary is  *)
(* only written over a history that holds what the run selected.           *)
(***************************************************************************)
EXTENDS HistoryCollector, FiniteSetTheorems, TLAPS

-----------------------------------------------------------------------------
(* The inductive invariant: a row carries the time a run last listed its   *)
(* query, and a run on its way to a ready summary has recorded what it     *)
(* selected.                                                               *)
RowIsListing ==
  \A i \in Query : stored[i] # None => stored[i] = listed[i]

Recorded ==
  run.at \in {"enqueue", "prune", "summary"} /\ ~run.warned /\ ~run.failed =>
    \A i \in run.candidates : listed[i] # None

IInv == TypeOK /\ RowIsListing /\ Recorded /\ KeptForRetention

-----------------------------------------------------------------------------
(* Minimum and maximum of a set of times.                                  *)

LEMMA HasLeast ==
  ASSUME NEW T \in SUBSET Nat, T # {}
  PROVE  \E t \in T : \A u \in T : t <= u
<1> DEFINE R == {p \in Nat \X Nat : p[1] < p[2]}
<1>1. IsWellFoundedOn(R, Nat)
  BY NatLessThanWellFounded, Zenon DEF OpToRel
<1>2. \A x, y \in Nat : y < x => <<y, x>> \in R
  OBVIOUS
<1> HIDE DEF R
<1>3. PICK t \in T : \A u \in T : ~ (<<u, t>> \in R)
  BY <1>1, WFMin, Zenon
<1>4. \A u \in T : t <= u
  <2> TAKE u \in T
  <2>1. u \in Nat /\ t \in Nat
    OBVIOUS
  <2>2. ~ (u < t)
    BY <1>2, <1>3, <2>1, Zenon
  <2> QED BY <2>1, <2>2
<1> QED BY <1>4, Zenon

LEMMA EarliestIn ==
  ASSUME NEW T \in SUBSET Nat, T # {}
  PROVE  Earliest(T) \in T
BY HasLeast DEF Earliest

LEMMA HasGreatest ==
  ASSUME NEW m \in Nat, NEW T \in SUBSET (0..m), T # {}
  PROVE  \E t \in T : \A u \in T : t >= u
<1> DEFINE D == {m - t : t \in T}
<1>1. D \in SUBSET Nat /\ D # {}
  <2>1. ASSUME NEW t \in T PROVE m - t \in Nat
    OBVIOUS
  <2> QED BY <2>1
<1> HIDE DEF D
<1>2. PICK d \in D : \A e \in D : d <= e
  BY <1>1, HasLeast
<1>3. PICK t \in T : d = m - t
  BY <1>2 DEF D
<1>4. \A u \in T : t >= u
  <2> TAKE u \in T
  <2>1. m - u \in D
    BY DEF D
  <2> QED BY <1>2, <1>3, <2>1
<1> QED BY <1>4

LEMMA LatestIn ==
  ASSUME NEW m \in Nat, NEW T \in SUBSET (0..m), T # {}
  PROVE  Latest(T) \in T /\ \A u \in T : u <= Latest(T)
<1>1. \E t \in T : \A u \in T : t >= u
  BY HasGreatest
<1>2. Latest(T) \in T /\ \A u \in T : Latest(T) >= u
  BY <1>1 DEF Latest
<1> QED BY <1>2

LEMMA LatestOrIn ==
  ASSUME NEW m \in Nat, NEW T \in SUBSET (0..m)
  PROVE  LatestOr(T) \in 0..m
<1>1. CASE T = {}
  BY <1>1 DEF LatestOr, None
<1>2. CASE T # {}
  <2>1. Latest(T) \in T
    BY <1>2, LatestIn
  <2> QED BY <1>2, <2>1 DEF LatestOr
<1> QED BY <1>1, <1>2

-----------------------------------------------------------------------------
LEMMA FreshType == [FreshRun EXCEPT !.at = "idle"] \in RunType /\ FreshRun \in RunType
<1>1. NumHosts * Paths + 1 \in Nat \ {0}
  BY CollectorAssumption
<1>2. 1 \in 1..(NumHosts * Paths + 1)
  BY <1>1
<1>3. [h \in Host |-> None] \in [Host -> 0..MaxTime]
  BY CollectorAssumption DEF None
<1>4. FreshRun \in RunType
  BY <1>2, <1>3, Zenon DEF FreshRun, RunType, Stages
<1> QED BY <1>4 DEF RunType, Stages

LEMMA Initially == Init => IInv
<1> SUFFICES ASSUME Init PROVE IInv
  OBVIOUS
<1>1. run \in RunType /\ run.at = "idle"
  BY FreshType DEF Init, FreshRun
<1>2. TypeOK
  BY <1>1, CollectorAssumption
     DEF Init, TypeOK, NoSummary, Statuses, Continuity, Time, None
<1>3. RowIsListing /\ Recorded /\ KeptForRetention
  BY <1>1 DEF Init, RowIsListing, Recorded, KeptForRetention, None
<1> QED BY <1>2, <1>3 DEF IInv

-----------------------------------------------------------------------------
LEMMA HostOfUrlIn ==
  ASSUME NEW u \in Urls
  PROVE  /\ HostOfUrl(u) \in Host
         /\ Paths = 1 => HostOfUrl(u) = u
<1>1. NumHosts \in Nat \ {0} /\ Paths \in Nat \ {0} /\ u \in 1..(NumHosts * Paths)
  BY CollectorAssumption DEF Urls
<1>2. (u - 1) \div Paths \in Nat /\ (u - 1) \div Paths < NumHosts
  BY <1>1, Z3T(60)
<1>3. HostOfUrl(u) \in Host
  BY <1>1, <1>2 DEF HostOfUrl, Host
<1>4. Paths = 1 => HostOfUrl(u) = u
  BY <1>1 DEF HostOfUrl
<1> QED BY <1>3, <1>4

(* A listing: what it adds to the run has the run's types.                 *)
LEMMA FetchType ==
  ASSUME TypeOK, Fetch
  PROVE  run' \in RunType
<1> DEFINE h == HostOfUrl(run.url)
           e == Ends(Log(h))
           full == Cardinality(Log(h)) >= LogSize
<1>1. h \in Host
  BY HostOfUrlIn DEF Fetch
<1> HIDE DEF h
<1>2. Log(h) \in SUBSET Query
  BY CollectorAssumption DEF Log, On, Completed, Query, TypeOK
<1>3. e \in SUBSET (0..MaxTime)
  <2>1. queries \in Seq(Completion)
    BY DEF TypeOK
  <2>2. \A i \in Completed : queries[i] \in Completion
    BY <2>1 DEF Completed
  <2>3. \A i \in Completed : queries[i].end \in Time
    BY <2>2 DEF Completion
  <2>4. \A i \in Log(h) : queries[i].end \in Time
    BY <2>3 DEF Log, On
  <2>5. e \in SUBSET Time
    BY <2>4 DEF Ends
  <2> QED BY <2>5, CollectorAssumption DEF Time
<1>4. run.oldest[h] \in 0..MaxTime
  BY <1>1 DEF TypeOK, RunType
<1>5. ASSUME e # {}
      PROVE  LatestOr({run.oldest[h], Earliest(e)}) \in 0..MaxTime
  <2>1. Earliest(e) \in e
    BY <1>3, <1>5, EarliestIn
  <2> HIDE DEF e
  <2> QED BY <1>3, <1>4, <2>1, LatestOrIn, CollectorAssumption
<1>6. run' = [run EXCEPT
                !.url = @ + 1,
                !.answered = @ \cup {h},
                !.seen = @ \cup Log(h),
                !.full = IF full THEN @ \cup {h} ELSE @,
                !.oldest[h] = IF ~full \/ e = {} THEN @ ELSE LatestOr({@, Earliest(e)})]
  BY DEF Fetch, h, e, full
<1>7. run.url + 1 \in 1..(NumHosts * Paths + 1)
  BY CollectorAssumption DEF Fetch, Urls
<1> HIDE DEF e, full
<1> QED BY <1>1, <1>2, <1>4, <1>5, <1>6, <1>7 DEF TypeOK, RunType

(* The summary's parts have their types whatever the run has seen.         *)
LEMMA SummaryType ==
  ASSUME TypeOK, NEW p \in 0..MaxTime
  PROVE  /\ ContinuityOf(run, p) \in Continuity
         /\ StatusOf(run, ContinuityOf(run, p)) \in Statuses
<1>1. ContinuityOf(run, p) \in Continuity
  BY DEF ContinuityOf, Continuity
<1>2. \A c : StatusOf(run, c) \in Statuses
  BY DEF StatusOf, Statuses
<1> QED BY <1>1, <1>2

-----------------------------------------------------------------------------
(* A query that completes changes nothing of the run but what it takes to  *)
(* be running.                                                             *)
LEMMA CompletionAndRun ==
  ASSUME TypeOK, NEW h \in Host, Complete(h)
  PROVE  /\ run' \in RunType
         /\ run'.at = run.at /\ run'.url = run.url /\ run'.answered = run.answered
         /\ run'.seen = run.seen /\ run'.full = run.full /\ run'.oldest = run.oldest
         /\ run'.candidates = run.candidates /\ run'.failed = run.failed
         /\ run'.warned = run.warned
<1>1. PICK S \in SUBSET {Len(queries) + 1} : run' = [run EXCEPT !.running = @ \cup S]
  BY DEF Complete
<1>2. Len(queries) \in Nat /\ Len(queries) + 1 \in Query
  BY CollectorAssumption DEF Complete, TypeOK, Query
<1>3. run \in RunType /\ run.running \cup S \in SUBSET Query
  BY <1>2 DEF TypeOK, RunType
<1> QED BY <1>1, <1>3 DEF RunType

(* It has the times of a completed query.                                  *)
LEMMA CompletedQuery ==
  ASSUME TypeOK, NEW h \in Host, Complete(h)
  PROVE  \E r \in Readable, t \in 0..MaxTime :
           LET new == [host |-> h, end |-> clock, readable |-> r, time |-> t]
           IN  new \in Completion /\ queries' = Append(queries, new)
<1>1. PICK r \in Readable : \E t \in WindowTimes(r) :
        queries' = Append(queries, [host |-> h, end |-> clock, readable |-> r, time |-> t])
  BY DEF Complete
<1>2. PICK t \in WindowTimes(r) :
        queries' = Append(queries, [host |-> h, end |-> clock, readable |-> r, time |-> t])
  BY <1>1
<1>3. clock \in Time /\ r \in BOOLEAN
  BY CollectorAssumption DEF TypeOK
<1>4. t \in 0..MaxTime
  <2>1. t \in {clock} \cup LateStarts \cup {None} \cup 1..clock
    BY <1>2, Zenon DEF WindowTimes
  <2>2. LateStarts \subseteq 1..MaxTime /\ MaxTime \in Nat
    BY CollectorAssumption
  <2>3. clock \in 1..MaxTime
    BY <1>3 DEF Time
  <2> QED BY <2>1, <2>2, <2>3 DEF None
<1>5. [host |-> h, end |-> clock, readable |-> r, time |-> t] \in Completion
  BY <1>3, <1>4 DEF Completion
<1> QED BY <1>2, <1>4, <1>5

LEMMA TypeStep == TypeOK /\ [Next]_vars => TypeOK'
<1> SUFFICES ASSUME TypeOK, [Next]_vars PROVE TypeOK'
  OBVIOUS
<1> USE CollectorAssumption
<1>1. CASE UNCHANGED vars
  BY <1>1 DEF vars, TypeOK
<1>2. CASE Tick
  BY <1>2 DEF Tick, TypeOK, Time
<1>3. ASSUME NEW h \in Host, Complete(h) PROVE TypeOK'
  <2>1. PICK new \in Completion : queries' = Append(queries, new)
    BY <1>3, CompletedQuery
  <2>2. queries' \in Seq(Completion) /\ Len(queries') <= MaxQueries
    BY <1>3, <2>1 DEF Complete, TypeOK
  <2>3. run' \in RunType
    BY <1>3, CompletionAndRun
  <2> QED BY <1>3, <2>2, <2>3 DEF Complete, TypeOK
<1>4. ASSUME NEW h \in Host, Restart(h) PROVE TypeOK'
  <2>1. Len(queries) \in 0..MaxQueries
    BY DEF TypeOK
  <2> QED BY <1>4, <2>1 DEF Restart, Fault, TypeOK
<1>5. CASE Start
  <2>1. run' \in RunType
    BY <1>5, FreshType DEF Start, RunType, TypeOK
  <2> QED BY <1>5, <2>1 DEF Start, TypeOK
<1>6. CASE Fetch
  BY <1>6, FetchType DEF Fetch, TypeOK
<1>7. CASE Discovered
  <2>1. run' \in RunType
    BY <1>7 DEF Discovered, RunType, TypeOK, Stages
  <2> QED BY <1>7, <2>1 DEF Discovered, TypeOK
<1>8. CASE Persist
  <2>1. run' \in RunType
    BY <1>8 DEF Persist, RunType, TypeOK, Stages
  <2> QED BY <1>8, <2>1 DEF Persist, Upsert, TypeOK, Time
<1>9. CASE Enqueue
  <2>1. run' \in RunType
    BY <1>9 DEF Enqueue, RunType, TypeOK, Stages
  <2> QED BY <1>9, <2>1 DEF Enqueue, TypeOK
<1>10. CASE Prune
  <2>1. run' \in RunType
    BY <1>10 DEF Prune, RunType, TypeOK, Stages
  <2> QED BY <1>10, <2>1 DEF Prune, TypeOK, None
<1>11. CASE Summarise
  <2>1. run' \in RunType
    <3> DEFINE idle == [FreshRun EXCEPT !.at = "idle"]
    <3>1. run' = [idle EXCEPT !.seen = run.seen] /\ run.seen \in SUBSET Query
      BY <1>11 DEF Summarise, TypeOK, RunType, FreshRun
    <3>2. idle \in RunType
      BY FreshType
    <3> HIDE DEF idle
    <3> QED BY <3>1, <3>2 DEF RunType
  <2>2. summary.observed \in 0..MaxTime
    BY DEF TypeOK
  <2>3. summary' \in [status : Statuses, continuity : Continuity, observed : 0..MaxTime]
    BY <1>11, <2>2, SummaryType DEF Summarise, Boundary, TypeOK, Time
  <2> QED BY <1>11, <2>1, <2>3 DEF Summarise, TypeOK
<1>12. CASE FetchFails
  <2>1. run.url + 1 \in 1..(NumHosts * Paths + 1)
    BY <1>12 DEF FetchFails, Urls
  <2>2. run' \in RunType
    BY <1>12, <2>1 DEF FetchFails, RunType, TypeOK
  <2> QED BY <1>12, <2>2 DEF FetchFails, Fault, TypeOK
<1>13. CASE PersistFails \/ EnqueueFails \/ PruneFails \/ Unexpected
  <2>1. run' \in RunType
    <3>1. CASE PersistFails
      BY <3>1 DEF PersistFails, RunType, TypeOK, Stages
    <3>2. CASE EnqueueFails
      BY <3>2 DEF EnqueueFails, RunType, TypeOK, Stages
    <3>3. CASE PruneFails
      BY <3>3 DEF PruneFails, RunType, TypeOK, Stages
    <3>4. CASE Unexpected
      <4>1. CASE run.at = "listing"
        <5> DEFINE fresh == FreshRun
        <5>1. /\ run' = [fresh EXCEPT !.at = "summary", !.failed = TRUE, !.before = run.before]
              /\ run.before \in SUBSET Query
          BY <3>4, <4>1 DEF Unexpected, TypeOK, RunType
        <5>2. fresh \in RunType
          BY FreshType
        <5> HIDE DEF fresh
        <5> QED BY <5>1, <5>2 DEF RunType, Stages
      <4>2. CASE run.at # "listing"
        BY <3>4, <4>2 DEF Unexpected, RunType, TypeOK, Stages
      <4> QED BY <4>1, <4>2
    <3> QED BY <1>13, <3>1, <3>2, <3>3, <3>4
  <2>2. Fault /\ UNCHANGED <<clock, queries, restarted, stored, listed, summary>>
    BY <1>13 DEF PersistFails, EnqueueFails, PruneFails, Unexpected
  <2> QED BY <2>1, <2>2 DEF Fault, TypeOK
<1>14. CASE Die \/ DieWriting
  <2>1. run' \in RunType
    BY <1>14, FreshType DEF Die, DieWriting
  <2>2. summary' \in [status : Statuses, continuity : Continuity, observed : 0..MaxTime]
    BY <1>14 DEF Die, DieWriting, NoSummary, Statuses, Continuity, None, TypeOK
  <2>3. Fault /\ UNCHANGED <<clock, queries, restarted, stored, listed>>
    BY <1>14 DEF Die, DieWriting
  <2> QED BY <2>1, <2>2, <2>3 DEF Fault, TypeOK
<1> QED
  BY <1>1, <1>2, <1>3, <1>4, <1>5, <1>6, <1>7, <1>8, <1>9, <1>10, <1>11, <1>12,
     <1>13, <1>14 DEF Next, RunStep, RunFault

-----------------------------------------------------------------------------
(* A row is written by the run that lists its query and goes with it.      *)
LEMMA RowStep ==
  TypeOK /\ RowIsListing /\ KeptForRetention /\ [Next]_vars
    => RowIsListing' /\ KeptForRetention'
<1> SUFFICES ASSUME TypeOK, RowIsListing, KeptForRetention, [Next]_vars
             PROVE  RowIsListing' /\ KeptForRetention'
  OBVIOUS
<1> USE CollectorAssumption
<1>0. /\ clock \in Nat \ {0} /\ Retention \in Nat /\ None = 0
      /\ stored \in [Query -> Nat] /\ listed \in [Query -> Nat]
  BY DEF TypeOK, Time, None
<1>1. CASE Tick
  BY <1>1, <1>0 DEF Tick, RowIsListing, KeptForRetention
<1>2. CASE Persist
  <2>1. \A i \in Query : IF i \in run.candidates
                           THEN stored'[i] = clock /\ listed'[i] = clock
                           ELSE stored'[i] = stored[i] /\ listed'[i] = listed[i]
    BY <1>2 DEF Persist, Upsert
  <2>2. clock' = clock
    BY <1>2 DEF Persist
  <2> QED BY <1>0, <2>1, <2>2 DEF RowIsListing, KeptForRetention
<1>3. CASE Prune
  <2>1. /\ \A i \in Query : stored'[i] = IF stored[i] < clock - Retention THEN None ELSE stored[i]
        /\ UNCHANGED <<clock, listed>>
    BY <1>3 DEF Prune
  <2> QED BY <1>0, <2>1 DEF RowIsListing, KeptForRetention
<1>4. CASE UNCHANGED <<clock, stored, listed>>
  BY <1>4 DEF RowIsListing, KeptForRetention
<1>5. \/ Tick \/ Persist \/ Prune
      \/ UNCHANGED <<clock, stored, listed>>
  BY DEF Next, RunStep, RunFault, vars, Complete, Restart, Start, Fetch, Discovered, Enqueue,
         Summarise, FetchFails, PersistFails, EnqueueFails, PruneFails, Unexpected, Die, DieWriting
<1> QED BY <1>1, <1>2, <1>3, <1>4, <1>5

(* A run without a warning or a failure recorded what it selected.         *)
LEMMA RecordedStep == TypeOK /\ Recorded /\ [Next]_vars => Recorded'
<1> SUFFICES ASSUME TypeOK, Recorded, [Next]_vars PROVE Recorded'
  OBVIOUS
<1>0. clock # None /\ run \in RunType
  BY CollectorAssumption DEF TypeOK, Time, None
<1>1. CASE Persist
  <2>1. /\ run'.candidates = run.candidates
        /\ \A i \in Query : i \in run.candidates => listed'[i] = clock
    BY <1>1, <1>0 DEF Persist, RunType
  <2> QED BY <1>0, <2>1 DEF Recorded, RunType
<1>2. CASE Discovered
  BY <1>2, <1>0 DEF Discovered, Recorded, RunType
<1>3. CASE Start \/ Summarise \/ Die \/ DieWriting
  <2>1. run'.at \in {"idle", "listing"}
    BY <1>3, <1>0 DEF Start, Summarise, Die, DieWriting, FreshRun
  <2> QED BY <2>1 DEF Recorded
<1>4. CASE Fetch \/ FetchFails
  <2>1. run'.at = "listing"
    BY <1>4, <1>0 DEF Fetch, FetchFails, RunType
  <2> QED BY <2>1 DEF Recorded
<1>5. CASE PersistFails \/ EnqueueFails \/ Unexpected
  <2>1. run'.warned \/ run'.failed
    BY <1>5, <1>0 DEF PersistFails, EnqueueFails, Unexpected, RunType, FreshRun
  <2> QED BY <2>1 DEF Recorded
<1>6. CASE Enqueue \/ Prune \/ PruneFails
  <2>1. /\ run.at \in {"enqueue", "prune"}
        /\ run'.candidates = run.candidates
        /\ run'.warned = run.warned
        /\ run'.failed = run.failed
        /\ listed' = listed
    BY <1>6, <1>0 DEF Enqueue, Prune, PruneFails, RunType
  <2> QED BY <2>1 DEF Recorded
<1>7. CASE UNCHANGED <<run, listed>>
  BY <1>7 DEF Recorded
<1>9. ASSUME NEW h \in Host, Complete(h) PROVE Recorded'
  BY <1>9, CompletionAndRun DEF Complete, Recorded
<1>8. \/ Persist \/ Discovered \/ Start \/ Summarise \/ Die \/ DieWriting \/ Fetch \/ FetchFails
      \/ PersistFails \/ EnqueueFails \/ Unexpected \/ Enqueue \/ Prune \/ PruneFails
      \/ UNCHANGED <<run, listed>>
      \/ \E h \in Host : Complete(h)
  BY DEF Next, RunStep, RunFault, vars, Tick, Restart
<1> QED BY <1>1, <1>2, <1>3, <1>4, <1>5, <1>6, <1>7, <1>8, <1>9

LEMMA Inductive == IInv /\ [Next]_vars => IInv'
BY TypeStep, RowStep, RecordedStep DEF IInv

LEMMA Invariant == Spec => []IInv
BY Initially, Inductive, PTL DEF Spec

-----------------------------------------------------------------------------
(* Every variable keeps its type: in particular the boundary a run leaves  *)
(* is a time the clock has shown, or none.                                 *)
THEOREM CollectorTypeCorrect == Spec => []TypeOK
BY Invariant, PTL DEF IInv

(* However often and in whatever order runs list, record, fail, die and    *)
(* prune, a query a run recorded stays in the store for the retention      *)
(* since it was last recorded.                                             *)
THEOREM RetentionKept == Spec => []KeptForRetention
BY Invariant, PTL DEF IInv

(* A ready summary is only written over a history that holds what the run  *)
(* selected.                                                               *)
THEOREM ReadyVouches == Spec => ReadyMeansRecorded
<1> DEFINE Vouched ==
      Summarise /\ Ready(summary') =>
        \A i \in run.candidates :
          /\ listed[i] # None
          /\ stored[i] # None \/ clock > listed[i] + Retention
<1>1. IInv => Vouched
  <2> SUFFICES ASSUME IInv, Summarise, Ready(summary'), NEW i \in run.candidates
               PROVE  /\ listed[i] # None
                      /\ stored[i] # None \/ clock > listed[i] + Retention
    OBVIOUS
  <2>1. run.at = "summary" /\ i \in Query
    BY DEF Summarise, IInv, TypeOK, RunType
  <2>2. StatusOf(run, ContinuityOf(run, summary.observed)) \in {"recorded", "idle"}
    BY DEF Summarise, Ready
  <2>3. ~run.failed /\ ~run.warned
    BY <2>2 DEF StatusOf, IInv, TypeOK, RunType
  <2>4. listed[i] # None
    BY <2>1, <2>3 DEF IInv, Recorded
  <2>5. stored[i] # None \/ ~(clock <= listed[i] + Retention)
    BY <2>1, <2>4 DEF IInv, KeptForRetention
  <2>6. clock \in Nat /\ listed[i] \in Nat /\ Retention \in Nat
    BY <2>1, CollectorAssumption DEF IInv, TypeOK, Time
  <2> QED BY <2>4, <2>5, <2>6
<1>2. []IInv => [][Vouched]_vars
  BY <1>1, PTL
<1> QED BY <1>2, Invariant, PTL DEF ReadyMeansRecorded

-----------------------------------------------------------------------------
(* What a confirmed summary says of the logs.  A query that left a log      *)
(* before a newer one was listed left it because the log was full, so the  *)
(* run noted the log as full, and an oldest time no earlier than the       *)
(* query's.                                                                *)

TimesOrdered ==
  /\ \A i \in Completed : queries[i].end <= clock /\ queries[i].readable \in Readable
  /\ \A i, j \in Completed : i <= j => queries[i].end <= queries[j].end

SeenCompleted == run.seen \subseteq Completed

(* With one path a daemon is asked once, so there is no older answer. *)
NotYetListed ==
  run.at = "listing" /\ Paths = 1 => \A h \in Host : h >= run.url => run.oldest[h] = None

Noted(h, i) == h \in run.full /\ (run.oldest[h] = None \/ queries[i].end <= run.oldest[h])

Witnessed ==
  run.at # "idle" =>
    \A h \in Host : \A i \in On(h), j \in On(h) \cap run.seen :
      i > restarted[h] /\ i < j /\ i \notin run.seen => Noted(h, i)

LogsInv == TimesOrdered /\ SeenCompleted /\ NotYetListed /\ Witnessed

LEMMA OnIsCompleted ==
  ASSUME TypeOK
  PROVE  /\ Len(queries) \in Nat
         /\ \A h : On(h) \subseteq Completed /\ Log(h) \subseteq On(h)
         /\ \A i \in Completed : queries[i].host \in Host /\ queries[i].end \in Time
                                   /\ queries[i].readable \in BOOLEAN
<1>1. queries \in Seq(Completion)
  BY DEF TypeOK
<1>2. Len(queries) \in Nat /\ \A i \in Completed : queries[i] \in Completion
  BY <1>1 DEF Completed
<1> QED BY <1>2 DEF On, Log, Completion

(* A log that has lost a query holds as many as it can, all newer.          *)
LEMMA LostFromFullLog ==
  ASSUME TypeOK, NEW h \in Host, NEW i \in On(h), i > restarted[h], i \notin Log(h)
  PROVE  /\ Cardinality(Log(h)) >= LogSize
         /\ \A k \in Log(h) : i < k
<1> DEFINE Above(k) == {j \in On(h) : j > k}
           Deep == {k \in On(h) : Cardinality(Above(k)) >= LogSize}
<1>1. /\ LogSize \in Nat \ {0} /\ restarted[h] \in Nat /\ Len(queries) \in Nat
      /\ On(h) \subseteq 1..Len(queries)
      /\ Log(h) = {k \in On(h) : k > restarted[h] /\ Cardinality(Above(k)) < LogSize}
  BY OnIsCompleted, CollectorAssumption DEF TypeOK, Completed, Log
<1>2. IsFiniteSet(On(h)) /\ On(h) \subseteq Nat
  <2>1. IsFiniteSet(1..Len(queries))
    BY <1>1, FS_Interval
  <2> QED BY <1>1, <2>1, FS_Subset
<1>3. \A k : IsFiniteSet(Above(k)) /\ Cardinality(Above(k)) \in Nat
  <2> TAKE k
  <2>1. Above(k) \subseteq On(h)
    OBVIOUS
  <2> QED BY <1>2, <2>1, FS_Subset, FS_CardinalityType
<1> HIDE DEF Above
<1>4. ASSUME NEW k \in On(h), NEW l \in On(h), k <= l
      PROVE  Cardinality(Above(l)) <= Cardinality(Above(k))
  <2>1. Above(l) \subseteq Above(k)
    BY <1>2, <1>4 DEF Above
  <2> QED BY <1>3, <2>1, FS_Subset
<1>5. i \in Deep
  BY <1>1, <1>3
<1>6. \A k \in Log(h) : i < k
  BY <1>1, <1>2, <1>3, <1>4, <1>5
<1>7. PICK m \in Deep : \A k \in Deep : m >= k
  <2>1. Deep \subseteq 0..Len(queries) /\ Deep # {}
    BY <1>1, <1>5
  <2> HIDE DEF Deep
  <2> QED BY <1>1, <2>1, HasGreatest
<1>8. Above(m) \subseteq Log(h)
  <2> SUFFICES ASSUME NEW k \in Above(m) PROVE k \in Log(h)
    OBVIOUS
  <2>1. k \in On(h) /\ k > m /\ m \in On(h)
    BY DEF Above
  <2>2. k \notin Deep
    BY <1>2, <1>7, <2>1
  <2>3. Cardinality(Above(k)) < LogSize
    BY <1>1, <1>3, <2>1, <2>2
  <2>4. k > restarted[h]
    BY <1>1, <1>2, <1>5, <1>7, <2>1
  <2> QED BY <1>1, <2>1, <2>3, <2>4
<1>9. Cardinality(Above(m)) <= Cardinality(Log(h)) /\ Cardinality(Log(h)) \in Nat
  <2>1. IsFiniteSet(Log(h))
    BY <1>1, <1>2, FS_Subset
  <2> QED BY <1>8, <2>1, FS_Subset, FS_CardinalityType
<1> QED BY <1>1, <1>3, <1>6, <1>7, <1>9

LEMMA LogsInit == Init => LogsInv
BY DEF Init, FreshRun, LogsInv, TimesOrdered, SeenCompleted, NotYetListed, Witnessed, Completed

(* The daemons: a query completes, with the latest time; a restart empties *)
(* a log.                                                                  *)
LEMMA CompleteKeepsLogs ==
  ASSUME TypeOK, LogsInv, NEW h \in Host, Complete(h)
  PROVE  LogsInv'
<1>1. PICK r \in Readable, t \in 0..MaxTime :
        LET new == [host |-> h, end |-> clock, readable |-> r, time |-> t]
        IN  new \in Completion /\ queries' = Append(queries, new)
  BY CompletedQuery
<1> DEFINE n == Len(queries)
           new == [host |-> h, end |-> clock, readable |-> r, time |-> t]
<1>2. /\ UNCHANGED <<clock, restarted>> /\ clock \in Nat
      /\ run'.at = run.at /\ run'.url = run.url /\ run'.seen = run.seen
      /\ run'.full = run.full /\ run'.oldest = run.oldest
  BY CompletionAndRun, CollectorAssumption DEF Complete, TypeOK, Time
<1>3. /\ n \in Nat /\ Len(queries') = n + 1
      /\ queries'[n + 1] = new
      /\ \A i \in 1..n : queries'[i] = queries[i]
  <2>1. queries \in Seq(Completion)
    BY DEF TypeOK
  <2>2. Len(queries) \in Nat
    BY <2>1
  <2>3. new \in Completion /\ queries' = Append(queries, new)
    BY <1>1
  <2> HIDE DEF new
  <2> QED BY <2>1, <2>2, <2>3
<1>4. \A i \in 1..n : queries[i].end \in Nat
  BY OnIsCompleted, CollectorAssumption DEF Completed, Time
<1>5. Completed' = Completed \cup {n + 1} /\ Completed = 1..n
  BY <1>3 DEF Completed
<1> HIDE DEF n
<1>6. TimesOrdered'
  <2>1. \A i \in Completed' : queries'[i].end <= clock /\ queries'[i].readable \in Readable
    BY <1>2, <1>3, <1>5 DEF LogsInv, TimesOrdered
  <2>2. \A i, j \in Completed' : i <= j => queries'[i].end <= queries'[j].end
    BY <1>2, <1>3, <1>4, <1>5 DEF LogsInv, TimesOrdered
  <2> QED BY <1>2, <2>1, <2>2 DEF TimesOrdered
<1>7. SeenCompleted' /\ NotYetListed'
  BY <1>2, <1>5 DEF LogsInv, SeenCompleted, NotYetListed
<1>8. Witnessed'
  <2> SUFFICES ASSUME run.at # "idle", NEW g \in Host,
                      NEW i \in On(g)', NEW j \in On(g)' \cap run.seen,
                      i > restarted[g], i < j, i \notin run.seen
               PROVE  Noted(g, i)'
    BY <1>2 DEF Witnessed
  <2>1. i \in 1..n /\ j \in 1..n
    BY <1>3, <1>5 DEF On, LogsInv, SeenCompleted
  <2>2. i \in On(g) /\ j \in On(g)
    BY <1>3, <1>5, <2>1 DEF On
  <2>3. Noted(g, i)
    BY <2>2 DEF LogsInv, Witnessed
  <2> QED BY <1>2, <1>3, <2>1, <2>3 DEF Noted
<1> QED BY <1>6, <1>7, <1>8 DEF LogsInv

LEMMA RestartKeepsLogs ==
  ASSUME TypeOK, LogsInv, NEW h \in Host, Restart(h)
  PROVE  LogsInv'
<1>1. /\ UNCHANGED <<clock, queries, run>> /\ Len(queries) \in Nat
      /\ restarted' = [restarted EXCEPT ![h] = Len(queries)]
  BY OnIsCompleted DEF Restart
<1>2. TimesOrdered' /\ SeenCompleted' /\ NotYetListed'
  BY <1>1 DEF LogsInv, TimesOrdered, SeenCompleted, NotYetListed, Completed
<1>3. Witnessed'
  <2> SUFFICES ASSUME run.at # "idle", NEW g \in Host,
                      NEW i \in On(g), NEW j \in On(g) \cap run.seen,
                      i > restarted'[g], i < j, i \notin run.seen
               PROVE  Noted(g, i)
    BY <1>1 DEF Witnessed, Noted, On, Completed
  <2>1. g # h
    BY <1>1 DEF TypeOK, On, Completed
  <2>2. restarted'[g] = restarted[g]
    BY <1>1, <2>1 DEF TypeOK
  <2> QED BY <2>2 DEF LogsInv, Witnessed
<1> QED BY <1>2, <1>3 DEF LogsInv

(* A listing.  Of the daemon that answers, whatever is lost is noted; of   *)
(* the others nothing changes.                                             *)
LEMMA FetchKeepsLogs ==
  ASSUME Paths = 1 \/ FALSE \notin Readable, TypeOK, LogsInv, Fetch
  PROVE  LogsInv'
<1> DEFINE h == HostOfUrl(run.url)
           full == Cardinality(Log(h)) >= LogSize
           e == Ends(Log(h))
<1>1. h \in Host /\ (Paths = 1 => h = run.url)
  BY HostOfUrlIn DEF Fetch
<1>2. UNCHANGED <<clock, queries, restarted>> /\ run.at = "listing"
  BY DEF Fetch
<1>3. /\ run'.at = "listing" /\ run'.url = run.url + 1
      /\ run'.seen = run.seen \cup Log(h)
      /\ run'.full = IF full THEN run.full \cup {h} ELSE run.full
      /\ run'.oldest = [run.oldest EXCEPT ![h] =
                          IF ~full \/ e = {} THEN run.oldest[h]
                          ELSE LatestOr({run.oldest[h], Earliest(e)})]
      /\ run.oldest \in [Host -> 0..MaxTime] /\ run.url \in Nat
  BY CollectorAssumption DEF Fetch, TypeOK, RunType
<1> HIDE DEF h, full
<1>4. \A g \in Host : g # h => run'.oldest[g] = run.oldest[g] /\ (g \in run'.full <=> g \in run.full)
  BY <1>1, <1>3
<1>5. TimesOrdered' /\ SeenCompleted'
  BY <1>2, <1>3, OnIsCompleted DEF LogsInv, TimesOrdered, SeenCompleted, Completed
<1>6. NotYetListed'
  BY <1>1, <1>2, <1>3, <1>4 DEF LogsInv, NotYetListed, Host
<1>7. e \subseteq Nat /\ \A t \in e : \E k \in Log(h) : t = queries[k].end
                                           /\ t \in 0..MaxTime
  BY OnIsCompleted, CollectorAssumption DEF Ends, Time
<1>8. ASSUME NEW i \in On(h), i > restarted[h], i \notin Log(h)
      PROVE  h \in run'.full /\ (run'.oldest[h] = None \/ queries[i].end <= run'.oldest[h])
  <2>1. /\ full /\ h \in run'.full
        /\ \A k \in Log(h) : i < k
    BY <1>1, <1>3, <1>8, LostFromFullLog DEF full
  <2>2. CASE e = {}
    <3>1. Log(h) # {}
      <4>1. SUFFICES ASSUME Log(h) = {} PROVE FALSE
        OBVIOUS
      <4>2. Cardinality(Log(h)) = 0
        BY <4>1, FS_EmptySet
      <4> QED BY <2>1, <4>2, CollectorAssumption DEF full
    <3>2. FALSE \in Readable
      <4>1. PICK k \in Log(h) : TRUE
        BY <3>1
      <4>2. queries[k].readable => queries[k].end \in e
        BY DEF Ends
      <4>3. ~queries[k].readable /\ k \in Completed
        BY <2>2, <4>2, OnIsCompleted
      <4>4. queries[k].readable \in Readable /\ queries[k].readable \in BOOLEAN
        BY <4>3, OnIsCompleted DEF LogsInv, TimesOrdered
      <4> QED BY <4>3, <4>4
    <3>3. run.oldest[h] = None
      <4>1. Paths = 1 \/ run.oldest[h] = None
        BY <3>2
      <4>2. h >= run.url \/ Paths # 1
        BY <1>1, <1>3
      <4> QED BY <1>1, <1>2, <4>1, <4>2 DEF LogsInv, NotYetListed
    <3> QED BY <1>1, <1>3, <2>1, <2>2, <3>3
  <2>3. CASE e # {}
    <3>1. Earliest(e) \in e
      BY <1>7, <2>3, EarliestIn
    <3>2. PICK k \in Log(h) : Earliest(e) = queries[k].end /\ Earliest(e) \in 0..MaxTime
      BY <1>7, <3>1
    <3>3. queries[i].end <= Earliest(e)
      <4>1. i \in Completed /\ k \in Completed /\ i \in Int /\ k \in Int /\ i <= k
        BY <2>1, OnIsCompleted DEF Completed
      <4> QED BY <3>2, <4>1 DEF LogsInv, TimesOrdered
    <3> DEFINE T == {run.oldest[h], Earliest(e)}
    <3>4. T \in SUBSET (0..MaxTime) /\ T # {}
      BY <1>1, <1>3, <3>2
    <3>5. Earliest(e) <= Latest(T) /\ Latest(T) \in 0..MaxTime
      BY <3>4, LatestIn, CollectorAssumption
    <3>6. run'.oldest[h] = Latest(T)
      BY <1>1, <1>3, <2>1, <2>3 DEF LatestOr
    <3>7. queries[i].end \in Nat
      BY OnIsCompleted, CollectorAssumption DEF Time
    <3> QED BY <2>1, <3>2, <3>3, <3>5, <3>6, <3>7
  <2> QED BY <2>2, <2>3
<1>9. Witnessed'
  <2> SUFFICES ASSUME NEW g \in Host, NEW i \in On(g), NEW j \in On(g) \cap run'.seen,
                      i > restarted[g], i < j, i \notin run'.seen
               PROVE  g \in run'.full /\ (run'.oldest[g] = None \/ queries[i].end <= run'.oldest[g])
    BY <1>2 DEF Witnessed, Noted, On, Completed
  <2>1. CASE g = h
    BY <1>3, <1>8, <2>1
  <2>2. CASE g # h
    <3>1. j \in run.seen
      BY <1>3, <2>2, OnIsCompleted DEF On
    <3>2. Noted(g, i)
      BY <1>2, <1>3, <3>1 DEF LogsInv, Witnessed
    <3> QED BY <1>4, <2>2, <3>2 DEF Noted
  <2> QED BY <2>1, <2>2
<1> QED BY <1>5, <1>6, <1>9 DEF LogsInv

LEMMA LogsStep ==
  ASSUME Paths = 1 \/ FALSE \notin Readable, TypeOK, LogsInv, [Next]_vars
  PROVE  LogsInv'
<1>0. run \in RunType /\ TimesOrdered /\ SeenCompleted /\ NotYetListed /\ Witnessed
  BY DEF TypeOK, LogsInv
<1>1. CASE Tick
  <2>1. clock' = clock + 1 /\ UNCHANGED <<queries, restarted, run>>
    BY <1>1 DEF Tick
  <2>2. clock \in Nat /\ \A i \in Completed : queries[i].end \in Nat
    BY OnIsCompleted, CollectorAssumption DEF TypeOK, Time
  <2>3. TimesOrdered'
    BY <1>0, <2>1, <2>2 DEF TimesOrdered, Completed
  <2>4. SeenCompleted' /\ NotYetListed' /\ Witnessed'
    BY <1>0, <2>1 DEF SeenCompleted, NotYetListed, Witnessed, Noted, On, Completed
  <2> QED BY <2>3, <2>4 DEF LogsInv
<1>2. CASE Start
  <2>1. /\ UNCHANGED <<clock, queries, restarted>>
        /\ run'.seen = {} /\ run'.oldest = [h \in Host |-> None]
    BY <1>2 DEF Start, FreshRun
  <2>2. TimesOrdered' /\ SeenCompleted' /\ NotYetListed' /\ Witnessed'
    BY <1>0, <2>1 DEF TimesOrdered, SeenCompleted, NotYetListed, Witnessed, On, Completed
  <2> QED BY <2>2 DEF LogsInv
<1>3. CASE Summarise \/ Die \/ DieWriting
  <2>1. /\ UNCHANGED <<clock, queries, restarted>>
        /\ run'.at = "idle" /\ run'.seen \subseteq run.seen
    BY <1>3 DEF Summarise, Die, DieWriting, FreshRun
  <2>2. TimesOrdered' /\ SeenCompleted' /\ NotYetListed' /\ Witnessed'
    BY <1>0, <2>1 DEF TimesOrdered, SeenCompleted, NotYetListed, Witnessed, Completed
  <2> QED BY <2>2 DEF LogsInv
<1>4. CASE \/ FetchFails \/ Discovered \/ Persist \/ PersistFails \/ Enqueue \/ EnqueueFails
           \/ Prune \/ PruneFails \/ UNCHANGED vars
           \/ Unexpected /\ run.at # "listing"
  <2>1. /\ UNCHANGED <<clock, queries, restarted>>
        /\ run'.seen = run.seen /\ run'.full = run.full /\ run'.oldest = run.oldest
        /\ run'.at = "listing" => run.at = "listing" /\ run'.url \in {run.url, run.url + 1}
        /\ run'.at # "idle" => run.at # "idle"
    <3>1. CASE FetchFails
      BY <1>0, <3>1 DEF FetchFails, RunType
    <3>2. CASE Discovered
      BY <1>0, <3>2 DEF Discovered, RunType
    <3>3. CASE Persist \/ PersistFails
      BY <1>0, <3>3 DEF Persist, PersistFails, RunType
    <3>4. CASE Enqueue \/ EnqueueFails
      BY <1>0, <3>4 DEF Enqueue, EnqueueFails, RunType
    <3>5. CASE Prune \/ PruneFails
      BY <1>0, <3>5 DEF Prune, PruneFails, RunType
    <3>6. CASE Unexpected /\ run.at # "listing"
      BY <1>0, <3>6 DEF Unexpected, RunType
    <3>7. CASE UNCHANGED vars
      BY <3>7 DEF vars
    <3> QED BY <1>4, <3>1, <3>2, <3>3, <3>4, <3>5, <3>6, <3>7
  <2>2. TimesOrdered' /\ SeenCompleted'
    BY <1>0, <2>1 DEF TimesOrdered, SeenCompleted, Completed
  <2>3. NotYetListed'
    BY <1>0, <2>1 DEF NotYetListed, Host, RunType
  <2>4. Witnessed'
    BY <1>0, <2>1 DEF Witnessed, Noted, On, Completed
  <2> QED BY <2>2, <2>3, <2>4 DEF LogsInv
<1>5. CASE Unexpected /\ run.at = "listing"
  <2>1. /\ UNCHANGED <<clock, queries, restarted>>
        /\ run'.at = "summary" /\ run'.seen = {}
    BY <1>5 DEF Unexpected, FreshRun
  <2>2. TimesOrdered' /\ SeenCompleted' /\ NotYetListed' /\ Witnessed'
    BY <1>0, <2>1 DEF TimesOrdered, SeenCompleted, NotYetListed, Witnessed, Completed
  <2> QED BY <2>2 DEF LogsInv
<1> QED
  BY <1>1, <1>2, <1>3, <1>4, <1>5, CompleteKeepsLogs, RestartKeepsLogs, FetchKeepsLogs
     DEF Next, RunStep, RunFault

(* A confirmed summary is right: whatever the daemons, however often they   *)
(* restart, whatever completes between the requests of a run and whichever *)
(* of them fail, no query that completed after the previous observation    *)
(* has left a log unlisted before a newer one that the run listed          *)
(* (query_log_continuity_status, fetch_impala_query_summaries).  Either a  *)
(* daemon is asked once, or every completed query has a readable end time: *)
(* else a second, unreadable answer would leave the first one's oldest     *)
(* time standing for it.                                                   *)
THEOREM ConfirmedIsSound ==
  ASSUME Paths = 1 \/ FALSE \notin Readable
  PROVE  Spec => ContinuityIsSound
<1> DEFINE Sound ==
      Summarise /\ summary'.continuity = "confirmed" =>
        \A h \in run.answered : \A i \in Evicted(h) :
          /\ queries[i].end > summary.observed
          /\ \E j \in On(h) \cap run.seen : i < j
          => i \in run.seen
<1>1. TypeOK /\ LogsInv => Sound
  <2> SUFFICES ASSUME TypeOK, LogsInv, Summarise, summary'.continuity = "confirmed",
                      NEW h \in run.answered, NEW i \in Evicted(h),
                      queries[i].end > summary.observed,
                      NEW j \in On(h) \cap run.seen, i < j, i \notin run.seen
               PROVE  FALSE
    OBVIOUS
  <2>1. /\ run.at = "summary" /\ h \in Host /\ i \in On(h) /\ i > restarted[h]
        /\ run.full \subseteq Host /\ run.oldest \in [Host -> 0..MaxTime]
    BY DEF Summarise, TypeOK, RunType, Evicted
  <2>2. Noted(h, i)
    BY <2>1 DEF LogsInv, Witnessed
  <2>3. ContinuityOf(run, summary.observed) = "confirmed"
    BY DEF Summarise
  <2>4. OldestOf(run) # None /\ OldestOf(run) <= summary.observed
    BY <2>2, <2>3 DEF ContinuityOf, Noted
  <2> DEFINE T == {run.oldest[g] : g \in run.full}
  <2>5. /\ \A g \in run.full : run.oldest[g] # None
        /\ OldestOf(run) = Latest(T)
    BY <2>2, <2>4 DEF OldestOf, LatestOr, Noted
  <2>6. T \in SUBSET (0..MaxTime) /\ run.oldest[h] \in T
    BY <2>1, <2>2 DEF Noted
  <2>7. run.oldest[h] <= Latest(T) /\ Latest(T) \in 0..MaxTime
    BY <2>6, LatestIn, CollectorAssumption
  <2>8. queries[i].end <= run.oldest[h]
    BY <2>2, <2>5 DEF Noted
  <2>9. queries[i].end \in Nat /\ summary.observed \in Nat
    BY <2>1, OnIsCompleted, CollectorAssumption DEF TypeOK, Time
  <2> QED BY <2>4, <2>5, <2>6, <2>7, <2>8, <2>9
<1>2. Spec => []LogsInv
  BY LogsInit, LogsStep, CollectorTypeCorrect, PTL DEF Spec
<1>3. []TypeOK /\ []LogsInv => [][Sound]_vars
  BY <1>1, PTL
<1> QED BY <1>2, <1>3, CollectorTypeCorrect, PTL DEF ContinuityIsSound

=============================================================================
