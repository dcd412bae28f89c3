-------------------------- MODULE HistoryCollector --------------------------
(***************************************************************************)
(* The scheduled collector of Recent history with direct Impala discovery  *)
(* (cli/batch_recent.py with --discover-only, impala/query_discovery.py,   *)
(* recent/collector_summary.py, recent/history_store.py and the prune and  *)
(* upsert statements of the stores): a run lists the completed queries the *)
(* daemons still hold, records them, prunes the history and writes a       *)
(* summary whose observation time is the boundary the next run compares a  *)
(* full daemon log with.  The operator audit reads that summary.           *)
(*                                                                         *)
(* Queries are numbered in the order they complete; the daemons' logs are  *)
(* external.  Time is in whole seconds, the precision the code keeps.      *)
(***************************************************************************)
EXTENDS Integers, Sequences, FiniteSets

CONSTANTS
  NumHosts,    \* configured daemons
  Paths,       \* query-list paths asked of each daemon
  LogSize,     \* completed queries a daemon keeps
  Window,      \* recent_window_minutes, in ticks
  Retention,   \* summary retention, in ticks
  MaxAge,      \* evidence age the operator audit accepts, in ticks
  Readable,    \* whether a completed query carries a readable end time
  LateStarts,  \* start times later than the end a query has beside them
  MaxQueries,  \* bound: queries that complete
  MaxTime,     \* bound: the clock
  MaxFaults    \* bound: failures of all kinds

ASSUME CollectorAssumption ==
  /\ {NumHosts, Paths, LogSize, Window, Retention} \subseteq Nat \ {0}
  /\ {MaxAge, MaxQueries, MaxFaults} \subseteq Nat
  /\ MaxTime \in Nat \ {0}
  /\ Readable \subseteq BOOLEAN
  /\ LateStarts \subseteq 1..MaxTime

VARIABLES
  clock,
  queries,   \* completed queries: host, end time, whether that is readable, and
             \* the time the window goes by
  restarted, \* completed queries when a daemon last restarted
  run,       \* the collector run, or what the last one left
  stored,    \* recorded_at of a query's summary row, 0: no row
  listed,    \* history: when a run last recorded the query, 0: never
  summary,   \* the collector summary file
  faults

vars == <<clock, queries, restarted, run, stored, listed, summary, faults>>

-----------------------------------------------------------------------------
Host == 1..NumHosts
Query == 1..MaxQueries
Time == 1..MaxTime

HostOfUrl(u) == (u - 1) \div Paths + 1
Urls == 1..(NumHosts * Paths)

Completed == 1..Len(queries)
On(h) == {i \in Completed : queries[i].host = h}

(* The completed queries a daemon holds: the last LogSize since it started. *)
Log(h) == {i \in On(h) : i > restarted[h] /\ Cardinality({j \in On(h) : j > i}) < LogSize}

Ends(S) == {queries[i].end : i \in {j \in S : queries[j].readable}}
Earliest(T) == CHOOSE t \in T : \A u \in T : t <= u
Latest(T) == CHOOSE t \in T : \A u \in T : t >= u

(* Time 0 stands for None. *)
None == 0

LatestOr(T) == IF T = {} THEN None ELSE Latest(T)

-----------------------------------------------------------------------------
Stages == {"idle", "listing", "persist", "enqueue", "prune", "summary"}
Statuses == {"recorded", "idle", "warning", "failed"}
Continuity == {"below_capacity", "confirmed", "gap_detected", "unproven"}

(* What a run starts with: an empty discovery result, nothing planned; for *)
(* the properties it carries what the run before it listed.                *)
FreshRun ==
  [at |-> "listing", url |-> 1, answered |-> {}, seen |-> {}, full |-> {},
   oldest |-> [h \in Host |-> None], candidates |-> {}, failed |-> FALSE,
   warned |-> FALSE, before |-> {}, running |-> {}]

NoSummary == [status |-> "failed", continuity |-> "unproven", observed |-> None]

Init ==
  /\ clock = 1
  /\ queries = <<>>
  /\ restarted = [h \in Host |-> 0]
  /\ run = [FreshRun EXCEPT !.at = "idle"]
  /\ stored = [i \in Query |-> None]
  /\ listed = [i \in Query |-> None]
  /\ summary = NoSummary
  /\ faults = 0

Fault == faults < MaxFaults /\ faults' = faults + 1

-----------------------------------------------------------------------------
(* The daemons and the clock.                                              *)

Tick ==
  /\ clock < MaxTime
  /\ clock' = clock + 1
  /\ UNCHANGED <<queries, restarted, run, stored, listed, summary, faults>>

(* A daemon has answered the run and is going to be asked again.           *)
AskedAgain(h) ==
  /\ run.at = "listing"
  /\ h \in run.answered
  /\ \E u \in Urls : u >= run.url /\ HostOfUrl(u) = h

(* The time a query has for the window: its end, or its start where that   *)
(* is later or the end cannot be read, if the start can.                   *)
WindowTimes(readable) ==
  IF readable THEN {clock} \cup {t \in LateStarts : t > clock} ELSE {None} \cup 1..clock

(* A query completes.  The run may have seen it running, in an answer of   *)
(* its daemon before the one that is still to come.                        *)
Complete(h) ==
  /\ Len(queries) < MaxQueries
  /\ \E r \in Readable : \E t \in WindowTimes(r) :
       queries' = Append(queries, [host |-> h, end |-> clock, readable |-> r, time |-> t])
  /\ \E S \in SUBSET {i \in {Len(queries) + 1} : AskedAgain(h)} :
       run' = [run EXCEPT !.running = @ \cup S]
  /\ UNCHANGED <<clock, restarted, stored, listed, summary, faults>>

(* A daemon that restarts has an empty log. *)
Restart(h) ==
  /\ Fault
  /\ restarted' = [restarted EXCEPT ![h] = Len(queries)]
  /\ UNCHANGED <<clock, queries, run, stored, listed, summary>>

-----------------------------------------------------------------------------
(* One run of the collector.                                               *)

(* The schedule forbids two runs at once. *)
Start ==
  /\ run.at = "idle"
  /\ run' = [FreshRun EXCEPT !.before = run.seen]
  /\ UNCHANGED <<clock, queries, restarted, stored, listed, summary, faults>>

(* A query list: what the daemon holds now, whether that is all its log    *)
(* can hold, and then the oldest end time in it.  Of a daemon's two paths  *)
(* the later oldest time counts.                                           *)
Fetch ==
  LET h == HostOfUrl(run.url)
      full == Cardinality(Log(h)) >= LogSize
  IN
  /\ run.at = "listing"
  /\ run.url \in Urls
  /\ run' = [run EXCEPT
               !.url = @ + 1,
               !.answered = @ \cup {h},
               !.seen = @ \cup Log(h),
               !.full = IF full THEN @ \cup {h} ELSE @,
               !.oldest[h] = IF ~full \/ Ends(Log(h)) = {} THEN @
                             ELSE LatestOr({@, Earliest(Ends(Log(h)))})]
  /\ UNCHANGED <<clock, queries, restarted, stored, listed, summary, faults>>

(* A path that cannot be read is passed over. *)
FetchFails ==
  /\ run.at = "listing"
  /\ run.url \in Urls
  /\ Fault
  /\ run' = [run EXCEPT !.url = @ + 1]
  /\ UNCHANGED <<clock, queries, restarted, stored, listed, summary>>

(* Queries of the window [now - Window, now): the current second is not in *)
(* it, and a query without a readable time is in no window.                *)
InWindow(i) ==
  /\ queries[i].time # None
  /\ queries[i].time >= clock - Window
  /\ queries[i].time < clock

(* Every path is asked.  If none answered discovery has failed, and the    *)
(* run goes on to its summary.  Of the entries of one query the first      *)
(* counts, and what was running in it is left out.                         *)
Discovered ==
  /\ run.at = "listing"
  /\ run.url \notin Urls
  /\ run' = IF run.answered = {}
              THEN [run EXCEPT !.at = "summary", !.failed = TRUE]
              ELSE [run EXCEPT !.at = "persist",
                               !.candidates = {i \in run.seen \ run.running : InWindow(i)}]
  /\ UNCHANGED <<clock, queries, restarted, stored, listed, summary, faults>>

(* Mutant of Upsert: a row that is there is left as it is.                 *)
InsertOnly(S) == [i \in Query |-> IF i \in S /\ stored[i] = None THEN clock ELSE stored[i]]

(* A row that is there gets a new recorded_at. *)
Upsert(S) == [i \in Query |-> IF i \in S THEN clock ELSE stored[i]]

Persist ==
  /\ run.at = "persist"
  /\ stored' = Upsert(run.candidates)
  /\ listed' = [i \in Query |-> IF i \in run.candidates THEN clock ELSE listed[i]]
  /\ run' = [run EXCEPT !.at = "enqueue"]
  /\ UNCHANGED <<clock, queries, restarted, summary, faults>>

(* The store cannot be opened or written: a warning. *)
PersistFails ==
  /\ run.at = "persist"
  /\ Fault
  /\ run' = [run EXCEPT !.at = "enqueue", !.warned = TRUE]
  /\ UNCHANGED <<clock, queries, restarted, stored, listed, summary>>

(* Mutant of Enqueue: the status is set anew where jobs are planned.       *)
EnqueueClears ==
  /\ run.at = "enqueue"
  /\ run' = [run EXCEPT !.at = "prune", !.warned = FALSE]
  /\ UNCHANGED <<clock, queries, restarted, stored, listed, summary, faults>>

(* The jobs themselves are those of ProfileJobStore. *)
Enqueue ==
  /\ run.at = "enqueue"
  /\ run' = [run EXCEPT !.at = "prune"]
  /\ UNCHANGED <<clock, queries, restarted, stored, listed, summary, faults>>

EnqueueFails ==
  /\ run.at = "enqueue"
  /\ Fault
  /\ run' = [run EXCEPT !.at = "prune", !.warned = TRUE]
  /\ UNCHANGED <<clock, queries, restarted, stored, listed, summary>>

Prune ==
  /\ run.at = "prune"
  /\ stored' = [i \in Query |-> IF stored[i] < clock - Retention THEN None ELSE stored[i]]
  /\ run' = [run EXCEPT !.at = "summary"]
  /\ UNCHANGED <<clock, queries, restarted, listed, summary, faults>>

(* The history's status is not touched by a failing prune. *)
PruneFails ==
  /\ run.at = "prune"
  /\ Fault
  /\ run' = [run EXCEPT !.at = "summary"]
  /\ UNCHANGED <<clock, queries, restarted, stored, listed, summary>>

(* Any other exception: discovery counts as failed, the run goes on to its *)
(* summary with the discovery it has, the empty one while it discovers.    *)
Unexpected ==
  /\ run.at \in {"listing", "persist", "enqueue", "prune"}
  /\ Fault
  /\ run' = IF run.at = "listing"
              THEN [FreshRun EXCEPT !.at = "summary", !.failed = TRUE, !.before = run.before]
              ELSE [run EXCEPT !.at = "summary", !.failed = TRUE]
  /\ UNCHANGED <<clock, queries, restarted, stored, listed, summary>>

-----------------------------------------------------------------------------
(* The summary.                                                            *)

(* Mutant of OldestOf: the log that reaches back farthest counts.          *)
OldestOfAny(r) ==
  LET known == {h \in r.full : r.oldest[h] # None}
  IN IF known # r.full \/ known = {} THEN None ELSE Earliest({r.oldest[h] : h \in known})

(* The latest of the full logs' oldest times, if each of them has one.     *)
OldestOf(r) ==
  IF \E h \in r.full : r.oldest[h] = None THEN None
  ELSE LatestOr({r.oldest[h] : h \in r.full})

(* Mutant of ContinuityOf: without a boundary there is nothing to compare. *)
ContinuityIfKnown(r, previous) ==
  CASE r.full = {} -> "below_capacity"
    [] r.full # {} /\ (OldestOf(r) = None \/ previous = None) -> "not_applicable"
    [] OTHER -> IF OldestOf(r) <= previous THEN "confirmed" ELSE "gap_detected"

(* A discovery that failed has an empty result, unless it had one before.  *)
ContinuityOf(r, previous) ==
  CASE r.full = {} -> "below_capacity"
    [] r.full # {} /\ (OldestOf(r) = None \/ previous = None) -> "unproven"
    [] OTHER -> IF OldestOf(r) <= previous THEN "confirmed" ELSE "gap_detected"

StatusOf(r, continuity) ==
  CASE r.failed -> "failed"
    [] ~r.failed /\ (r.warned \/ continuity \in {"gap_detected", "unproven"}) -> "warning"
    [] OTHER -> IF r.candidates = {} THEN "idle" ELSE "recorded"

(* Mutant of Boundary: only a run that is ready moves the boundary.        *)
BoundaryIfReady(r, continuity) ==
  IF StatusOf(r, continuity) \in {"recorded", "idle"} \/ summary.observed = None
    THEN clock
    ELSE summary.observed

(* The summary carries the time it is made, whatever the run's status.     *)
Boundary(r, continuity) == clock

(* The previous summary is read just before the new one takes its place.   *)
Summarise ==
  LET continuity == ContinuityOf(run, summary.observed) IN
  /\ run.at = "summary"
  /\ summary' = [status |-> StatusOf(run, continuity), continuity |-> continuity,
                 observed |-> Boundary(run, continuity)]
  /\ run' = [FreshRun EXCEPT !.at = "idle", !.seen = run.seen]
  /\ UNCHANGED <<clock, queries, restarted, stored, listed, faults>>

(* A run that dies, or cannot open the file, leaves the last summary.      *)
Die ==
  /\ run.at # "idle"
  /\ Fault
  /\ run' = [FreshRun EXCEPT !.at = "idle"]
  /\ UNCHANGED <<clock, queries, restarted, stored, listed, summary>>

(* The file is written in place: a run that dies there leaves no summary   *)
(* that can be read.                                                       *)
DieWriting ==
  /\ run.at = "summary"
  /\ Fault
  /\ summary' = NoSummary
  /\ run' = [FreshRun EXCEPT !.at = "idle"]
  /\ UNCHANGED <<clock, queries, restarted, stored, listed>>

-----------------------------------------------------------------------------
RunStep ==
  \/ Start
  \/ Fetch
  \/ Discovered
  \/ Persist
  \/ Enqueue
  \/ Prune
  \/ Summarise

RunFault ==
  \/ FetchFails
  \/ PersistFails
  \/ EnqueueFails
  \/ PruneFails
  \/ Unexpected
  \/ Die
  \/ DieWriting

Next ==
  \/ Tick
  \/ \E h \in Host : Complete(h) \/ Restart(h)
  \/ RunStep
  \/ RunFault

Spec == Init /\ [][Next]_vars

(* The clock runs, and the scheduler starts runs that take their steps.    *)
FairSpec == Spec /\ WF_vars(Tick) /\ WF_vars(RunStep)

-----------------------------------------------------------------------------
(* The operator audit of the collector: a summary that can be read, with a *)
(* ready status, made not too long ago.                                    *)
Ready(s) == s.status \in {"recorded", "idle"}
Fresh(s) == s.observed # None /\ clock - s.observed <= MaxAge
OperatorReady == Ready(summary) /\ Fresh(summary)

-----------------------------------------------------------------------------
RunType ==
  [at : Stages, url : 1..(NumHosts * Paths + 1), answered : SUBSET Host,
   seen : SUBSET Query, full : SUBSET Host, oldest : [Host -> 0..MaxTime],
   candidates : SUBSET Query, failed : BOOLEAN, warned : BOOLEAN, before : SUBSET Query,
   running : SUBSET Query]

Completion == [host : Host, end : Time, readable : BOOLEAN, time : 0..MaxTime]

TypeOK ==
  /\ clock \in Time
  /\ queries \in Seq(Completion)
  /\ Len(queries) <= MaxQueries
  /\ restarted \in [Host -> 0..MaxQueries]
  /\ run \in RunType
  /\ stored \in [Query -> 0..MaxTime]
  /\ listed \in [Query -> 0..MaxTime]
  /\ summary \in [status : Statuses, continuity : Continuity, observed : 0..MaxTime]
  /\ faults \in 0..MaxFaults

(* Queries that left a daemon's log because the log is full.               *)
Evicted(h) == {i \in On(h) : i > restarted[h] /\ i \notin Log(h)}

(* A summary that claims its logs overlap the previous observation is      *)
(* right: the run has listed every query that has left the log of a daemon *)
(* that answered, completed after that observation and before another that *)
(* the run listed, whatever completed between the requests of the run.  An *)
(* entry that an earlier answer had as a running one counts as listed.     *)
(* Where a daemon is asked twice this needs readable end times: a second   *)
(* full answer without any leaves the oldest time of the first.            *)
ContinuityIsSound ==
  [][Summarise /\ summary'.continuity = "confirmed" =>
       \A h \in run.answered : \A i \in Evicted(h) :
         /\ queries[i].end > summary.observed
         /\ \E j \in On(h) \cap run.seen : i < j
         => i \in run.seen]_vars

(* A ready summary vouches for the history: whatever failed on the way,    *)
(* every query the run selected has been recorded, and is in the store     *)
(* unless the retention since it was last recorded is over.                *)
ReadyMeansRecorded ==
  [][Summarise /\ Ready(summary') =>
       \A i \in run.candidates :
         /\ listed[i] # None
         /\ stored[i] # None \/ clock > listed[i] + Retention]_vars

(* Retention counts from the last run that listed a query: however often   *)
(* it is listed, its row is there until then.                              *)
KeptForRetention ==
  \A i \in Query :
    listed[i] # None /\ clock <= listed[i] + Retention => stored[i] # None

(* A gap, a failure or a lost summary do not wedge the audit: the collector *)
(* is ready again, unless a full log holds no readable time.               *)
BackToReady ==
  <>[](OperatorReady \/ \E h \in Host : Cardinality(Log(h)) = LogSize /\ Ends(Log(h)) = {})

(* docs/recent-history-store.md: a missed stretch of a full query log is a *)
(* warning, so that "a possible history hole cannot appear fully ready":   *)
(* when a ready summary is written, no query has left a log that completed *)
(* after one the run before listed and before one this run listed, seconds *)
(* apart from both, unless one of the two runs listed it.                  *)
ReadyHidesNoHole ==
  [][Summarise /\ Ready(summary') =>
       \A h \in Host : \A i \in Evicted(h) :
         /\ \E j \in On(h) \cap run.before : queries[j].end < queries[i].end
         /\ \E j \in On(h) \cap run.seen : queries[i].end < queries[j].end
         => i \in run.before \cup run.seen]_vars

=============================================================================
