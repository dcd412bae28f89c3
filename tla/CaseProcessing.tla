--------------------------- MODULE CaseProcessing ---------------------------
(***************************************************************************)
(* How a Recent batch processes the cases discovery selected               *)
(* (recent/case_processing.py, recent/case_reuse.py, recent/backfill.py,   *)
(* recent/metadata_refresh.py): the main thread that submits profile       *)
(* collections and processes their futures, the pool threads that run the  *)
(* collector and the analyzer, the circuit breaker that stops submissions  *)
(* when Cloudera Manager keeps answering HTTP 5xx, and the later passes    *)
(* over the best cases, one for runtime metrics and one for metadata.      *)
(*                                                                         *)
(* A case is its place in the list.  Scores, durations and paths are left  *)
(* out: a ranking is any order of the cases.                               *)
(***************************************************************************)
EXTENDS Integers, FiniteSets

CONSTANTS
  NumCases,       \* cases the batch selected
  Reusable,       \* cases an earlier batch analysed
  Source,         \* "cm" or "impala": where profiles come from
  CmJobs,         \* threads that collect profiles
  Jobs,           \* threads that analyse
  MetadataJobs,   \* threads of the metadata pass
  MaxAttempts,    \* collector processes per collection
  MinFailures,    \* fewer 5xx than this never trip the breaker
  Consecutive,    \* this many 5xx in a row trip it
  MinCompleted,   \* after this many collections, half of them do
  MaxMetricsJobs, \* bound of the code on threads of the runtime-metrics pass
  MetricsLimit,   \* best cases the runtime-metrics pass may take
  MetadataLimit,  \* cases the metadata pass may take
  CaseLimit,      \* cases the summary wants (more are selected to backfill)
  Answers,        \* what a collector process may answer
  AnalysisResults,\* what an analyzer process may return
  MaxRaises       \* bound: tasks that raise an exception

AllAnswers == {"ok", "no_digest", "timeout", "5xx", "refused", "unknown"}

ASSUME CaseAssumption ==
  /\ NumCases \in Nat
  /\ Reusable \subseteq 1..NumCases
  /\ Source \in {"cm", "impala"}
  /\ {CmJobs, Jobs, MetadataJobs, MaxAttempts, MaxMetricsJobs} \subseteq Nat \ {0}
  /\ {MinFailures, Consecutive, MinCompleted} \subseteq Nat \ {0}
  /\ {MetricsLimit, MetadataLimit, MaxRaises} \subseteq Nat
  /\ CaseLimit \in Nat \ {0}
  /\ Answers \subseteq AllAnswers
  /\ AnalysisResults \subseteq {"ok", "failed", "timeout"}

VARIABLES
  stage,        \* what the main thread is at
  next,         \* next case of the pending iterator
  outstanding,  \* cases whose collection future is not yet processed
  batch,        \* futures the last wait returned, still to be processed
  breaker,      \* the circuit breaker
  warned,       \* the breaker's warning is in the summary
  at,           \* what a pool thread does for a case
  tries,        \* collector processes its collection has used
  collection,   \* collection_status of a case
  analysis,     \* analysis_status of a case
  category,     \* failure_category of a case
  metadata,     \* metadata_status of a case
  reused,       \* cases copied from an earlier batch
  retained      \* cases the summary keeps

loop == <<next, outstanding, batch, breaker, warned>>
tasks == <<at, tries>>
results == <<collection, analysis, category, metadata>>
vars == <<stage, loop, tasks, results, reused, retained>>

-----------------------------------------------------------------------------
Case == 1..NumCases

SmallerOf(m, n) == IF m <= n THEN m ELSE n
LargerOf(m, n) == IF m <= n THEN n ELSE m

Stages == {"reuse", "collect", "analyse", "metrics", "metadata", "done",
           "unwinding", "raised"}
Queues == {"to_analyse", "to_refresh", "to_enrich"}
Working == {"collecting", "analysing", "refreshing", "reanalysing", "enriching"}
Places == {"idle", "collected", "raised"} \cup Queues \cup Working
CollectionStatus == {"not_started", "ok", "failed", "timeout", "skipped"}
AnalysisStatus == {"not_started", "ok", "failed", "timeout"}

(* Profile-collection failures are told apart only where the breaker does. *)
Category == {"none", "http_5xx", "collection", "skipped", "analysis", "metadata"}

(* Skipped, not observed and not requested are one: no metadata.           *)
MetadataStatus == {"none", "failed", "collected"}

(* Cases that are in a pool's queue or that one of its threads has in hand. *)
Busy == {c \in Case : at[c] \in Queues \cup Working}
Raised == {c \in Case : at[c] = "raised"}

-----------------------------------------------------------------------------
(* The circuit breaker.                                                    *)

FreshBreaker == [completed |-> 0, failures |-> 0, consecutive |-> 0, tripped |-> FALSE]

(* With one collection thread cases are collected in a plain loop, and     *)
(* direct Impala has no breaker.                                           *)
HasBreaker == Source = "cm" /\ CmJobs > 1

(* Mutant of ShouldTrip: the failures in a row are compared off by one.    *)
ShouldTripLate(completed, failures, consecutive) ==
  /\ failures >= MinFailures
  /\ \/ consecutive > Consecutive
     \/ completed > MinCompleted /\ 2 * failures >= completed

ShouldTrip(completed, failures, consecutive) ==
  /\ failures >= MinFailures
  /\ \/ consecutive >= Consecutive
     \/ completed >= MinCompleted /\ 2 * failures >= completed

Record(b, failed5xx) ==
  LET completed == b.completed + 1
      failures == IF failed5xx THEN b.failures + 1 ELSE b.failures
      consecutive == IF failed5xx THEN b.consecutive + 1 ELSE 0
  IN [completed |-> completed, failures |-> failures, consecutive |-> consecutive,
      tripped |-> b.tripped \/ ShouldTrip(completed, failures, consecutive)]

-----------------------------------------------------------------------------
(* Collector answers.                                                      *)

Retryable == {"timeout", "5xx", "unknown"}

StatusOf(a) == CASE a = "ok" -> "ok"
                 [] a = "timeout" -> "timeout"
                 [] OTHER -> "failed"

CollectionCategory(a, old) == CASE a = "ok" -> old
                                [] a = "5xx" -> "http_5xx"
                                [] OTHER -> "collection"

-----------------------------------------------------------------------------
(* The pools behind the queues: how many threads each has, and what they   *)
(* do for a case.                                                          *)

PoolSize(queue) == CASE queue = "to_analyse" -> Jobs
                     [] queue = "to_refresh" -> SmallerOf(CmJobs, MaxMetricsJobs)
                     [] queue = "to_enrich" -> MetadataJobs

WorkOf(queue) == CASE queue = "to_analyse" -> {"analysing"}
                   [] queue = "to_refresh" -> {"refreshing", "reanalysing"}
                   [] queue = "to_enrich" -> {"enriching"}

-----------------------------------------------------------------------------
Init ==
  /\ stage = "reuse"
  /\ next = 1
  /\ outstanding = {}
  /\ batch = {}
  /\ breaker = FreshBreaker
  /\ warned = FALSE
  /\ at = [c \in Case |-> "idle"]
  /\ tries = [c \in Case |-> 0]
  /\ collection = [c \in Case |-> "not_started"]
  /\ analysis = [c \in Case |-> "not_started"]
  /\ category = [c \in Case |-> "none"]
  /\ metadata = [c \in Case |-> "none"]
  /\ reused = {}
  /\ retained = Case

-----------------------------------------------------------------------------
(* The main thread.                                                        *)

(* Cases whose copy succeeds are taken over with their metadata; then the  *)
(* first collections are submitted.                                        *)
ReuseAndStart ==
  LET submitted == SmallerOf(NumCases, CmJobs) IN
  /\ stage = "reuse"
  /\ stage' = "collect"
  /\ \E R \in SUBSET Reusable : \E m \in [R -> MetadataStatus] :
       /\ reused' = R
       /\ collection' = [c \in Case |-> IF c \in R THEN "ok" ELSE "not_started"]
       /\ analysis' = [c \in Case |-> IF c \in R THEN "ok" ELSE "not_started"]
       /\ metadata' = [c \in Case |-> IF c \in R THEN m[c] ELSE "none"]
  /\ outstanding' = 1..submitted
  /\ next' = submitted + 1
  /\ at' = [c \in Case |-> IF c <= submitted THEN "collecting" ELSE "idle"]
  /\ tries' = [c \in Case |-> IF c <= submitted THEN 1 ELSE 0]
  /\ UNCHANGED <<batch, breaker, warned, category, retained>>

(* wait(..., FIRST_COMPLETED): the futures that are done by now.           *)
Wait ==
  LET done == {c \in outstanding : at[c] \in {"collected", "raised"}} IN
  /\ stage = "collect"
  /\ batch = {}
  /\ done # {}
  /\ batch' = done
  /\ UNCHANGED <<stage, next, outstanding, breaker, warned, tasks, results, reused, retained>>

(* Collections and analyses overlap when both have threads to spare.       *)
Streaming == NumCases > 1 /\ CmJobs > 1 /\ Jobs > 1

(* Mutant of Unsubmitted: the list is walked, not the iterator.            *)
NotStarted == {c \in Case : collection[c] = "not_started"}

(* The cases left in the iterator are consumed; those not started are      *)
(* marked, a reused one keeps its result.                                  *)
Unsubmitted == {c \in next..NumCases : collection[c] = "not_started"}

(* Mutant of MarkUnsubmitted: the iterator is dropped unmarked.            *)
DropUnsubmitted ==
  /\ UNCHANGED <<collection, category>>
  /\ next' = NumCases + 1

MarkUnsubmitted ==
  /\ collection' = [c \in Case |-> IF c \in Unsubmitted THEN "skipped" ELSE collection[c]]
  /\ category' = [c \in Case |-> IF c \in Unsubmitted THEN "skipped" ELSE category[c]]
  /\ next' = NumCases + 1

(* The breaker after a future, and whether another case is submitted.      *)
Recorded(c) == IF HasBreaker THEN Record(breaker, category[c] = "http_5xx") ELSE breaker
More(c) == ~Recorded(c).tripped /\ next <= NumCases

(* What was collected goes to analysis at once where the two stream.       *)
AfterCollection(c) == IF Streaming /\ collection[c] = "ok" THEN "to_analyse" ELSE "idle"

SubmitNext(c) ==
  /\ next' = IF More(c) THEN next + 1 ELSE next
  /\ UNCHANGED <<collection, category>>

(* One future of the batch: record it, then skip the rest when this trips  *)
(* the breaker and submit the next case when it is not tripped.            *)
Process(c) ==
  /\ stage = "collect"
  /\ c \in batch
  /\ at[c] = "collected"
  /\ batch' = batch \ {c}
  /\ breaker' = Recorded(c)
  /\ warned' = (warned \/ Recorded(c).tripped)
  /\ IF Recorded(c).tripped /\ ~warned THEN MarkUnsubmitted ELSE SubmitNext(c)
  /\ outstanding' = (outstanding \ {c}) \cup {d \in {next} : More(c)}
  /\ at' = [d \in Case |-> CASE d = next /\ More(c) -> "collecting"
                               [] d = c -> AfterCollection(c)
                               [] OTHER -> at[d]]
  /\ tries' = [d \in Case |-> IF d = next /\ More(c) THEN 1 ELSE tries[d]]
  /\ UNCHANGED <<stage, analysis, metadata, reused, retained>>

(* Every future is processed: analyses that did not stream start now.      *)
EndCollect ==
  /\ stage = "collect"
  /\ outstanding = {}
  /\ stage' = "analyse"
  /\ at' = IF Streaming THEN at
           ELSE [c \in Case |-> IF collection[c] = "ok" THEN "to_analyse" ELSE at[c]]
  /\ UNCHANGED <<loop, tries, results, reused, retained>>

Analysed(S) == {c \in S : analysis[c] = "ok"}

(* The runtime-metrics pass takes the best analysed cases, less reused     *)
(* ones that have their metrics.                                           *)
EndAnalyse ==
  /\ stage = "analyse"
  /\ Busy \cup Raised = {}
  /\ \E best \in SUBSET Analysed(Case) : \E have \in SUBSET (best \cap reused) :
       /\ Cardinality(best) = SmallerOf(MetricsLimit, Cardinality(Analysed(Case)))
       /\ at' = [c \in Case |-> IF c \in best \ have THEN "to_refresh" ELSE "idle"]
  /\ stage' = "metrics"
  /\ UNCHANGED <<loop, tries, results, reused, retained>>

(* A batch that selected more cases than wanted keeps the first successes, *)
(* if there are enough of them.                                            *)
FirstAnalysed(n) ==
  {c \in Analysed(Case) : Cardinality(Analysed(1..c)) <= n}

Retained ==
  IF NumCases > CaseLimit /\ Cardinality(Analysed(Case)) >= CaseLimit
    THEN FirstAnalysed(CaseLimit)
    ELSE Case

(* The metadata pass: analysed cases with tables to look up, the best of   *)
(* them by a selection that is any set here; not reused ones that have     *)
(* theirs.                                                                 *)
EndMetrics ==
  /\ stage = "metrics"
  /\ Busy \cup Raised = {}
  /\ retained' = Retained
  /\ \E chosen \in SUBSET {c \in Analysed(Retained) : ~(c \in reused /\ metadata[c] = "collected")} :
       /\ Cardinality(chosen) <= MetadataLimit
       /\ at' = [c \in Case |-> IF c \in chosen THEN "to_enrich" ELSE "idle"]
  /\ stage' = "metadata"
  /\ UNCHANGED <<loop, tries, results, reused>>

EndMetadata ==
  /\ stage = "metadata"
  /\ Busy \cup Raised = {}
  /\ stage' = "done"
  /\ UNCHANGED <<loop, tasks, results, reused, retained>>

-----------------------------------------------------------------------------
(* A task of a pool raises: the exception reaches the main thread with the *)
(* task's result.  Leaving a pool waits for what is queued and running; a  *)
(* pool of one thread is a plain loop, where the rest never runs.          *)

Unwind ==
  /\ \/ stage = "collect" /\ batch \cap Raised # {}
     \/ stage \in {"analyse", "metrics", "metadata"} /\ Raised # {}
  /\ stage' = "unwinding"
  /\ at' = [c \in Case |-> IF at[c] \in Queues /\ PoolSize(at[c]) = 1 THEN "idle" ELSE at[c]]
  /\ UNCHANGED <<loop, tries, results, reused, retained>>

(* Mutant of EndUnwind: the pools are left without waiting.                *)
EndUnwindAtOnce ==
  /\ stage = "unwinding"
  /\ stage' = "raised"
  /\ UNCHANGED <<loop, tasks, results, reused, retained>>

EndUnwind ==
  /\ stage = "unwinding"
  /\ Busy = {}
  /\ stage' = "raised"
  /\ UNCHANGED <<loop, tasks, results, reused, retained>>

MainStep ==
  \/ ReuseAndStart
  \/ Wait
  \/ \E c \in Case : Process(c)
  \/ EndCollect
  \/ EndAnalyse
  \/ EndMetrics
  \/ EndMetadata
  \/ Unwind
  \/ EndUnwind

-----------------------------------------------------------------------------
(* Pool threads.                                                           *)

(* A thread takes a case off the queue.  A reused case is analysed already. *)
StartTask(c) ==
  LET queue == at[c] IN
  /\ queue \in Queues
  /\ Cardinality({d \in Case : at[d] \in WorkOf(queue)}) < PoolSize(queue)
  /\ PoolSize(queue) = 1 => Raised = {}
  /\ at' = [at EXCEPT ![c] = CASE queue = "to_refresh" -> "refreshing"
                               [] queue = "to_enrich" -> "enriching"
                               [] OTHER -> IF c \in reused THEN "idle" ELSE "analysing"]
  /\ tries' = [tries EXCEPT ![c] = IF queue = "to_refresh" THEN 1 ELSE 0]
  /\ UNCHANGED <<stage, loop, results, reused, retained>>

(* A reused case is not collected again. *)
CollectReused(c) ==
  /\ at[c] = "collecting"
  /\ c \in reused
  /\ at' = [at EXCEPT ![c] = "collected"]
  /\ UNCHANGED <<stage, loop, tries, results, reused, retained>>

(* Mutant of Retry: attempts are not limited.                              *)
RetryForEver(c) ==
  /\ \/ at[c] = "collecting" /\ c \notin reused
     \/ at[c] = "refreshing"
  /\ Answers \cap Retryable # {}
  /\ tries' = [tries EXCEPT ![c] = @ + 1]
  /\ UNCHANGED <<stage, loop, at, results, reused, retained>>

(* A failure worth retrying starts the collector again.                    *)
Retry(c) ==
  /\ \/ at[c] = "collecting" /\ c \notin reused
     \/ at[c] = "refreshing"
  /\ Answers \cap Retryable # {}
  /\ tries[c] < MaxAttempts
  /\ tries' = [tries EXCEPT ![c] = @ + 1]
  /\ UNCHANGED <<stage, loop, at, results, reused, retained>>

Final(c, a) == a \notin Retryable \/ tries[c] = MaxAttempts

(* The collector's last answer is the case's collection result.            *)
Collect(c) ==
  /\ at[c] = "collecting"
  /\ c \notin reused
  /\ \E a \in Answers :
       /\ Final(c, a)
       /\ collection' = [collection EXCEPT ![c] = StatusOf(a)]
       /\ category' = [category EXCEPT ![c] = CollectionCategory(a, @)]
  /\ at' = [at EXCEPT ![c] = "collected"]
  /\ tries' = [tries EXCEPT ![c] = 0]
  /\ UNCHANGED <<stage, loop, analysis, metadata, reused, retained>>

(* Mutant of Refresh: a collection without metrics is asked for again.     *)
RefreshUntilMetrics(c) ==
  /\ at[c] = "refreshing"
  /\ \E a \in Answers :
       /\ Final(c, a)
       /\ at' = [at EXCEPT ![c] = IF a = "ok" THEN "reanalysing" ELSE "to_refresh"]
  /\ tries' = [tries EXCEPT ![c] = 0]
  /\ UNCHANGED <<stage, loop, results, reused, retained>>

(* The runtime-metrics pass collects into a copy of the case: a failure,   *)
(* or an answer without metrics, leaves the case as it was.                *)
Refresh(c) ==
  /\ at[c] = "refreshing"
  /\ \E a \in Answers :
       /\ Final(c, a)
       /\ \/ at' = [at EXCEPT ![c] = "idle"]
          \/ a = "ok" /\ at' = [at EXCEPT ![c] = "reanalysing"]
  /\ tries' = [tries EXCEPT ![c] = 0]
  /\ UNCHANGED <<stage, loop, results, reused, retained>>

(* Mutant of AnalysisPass: a metadata failure is not noted.                *)
AnalysisPassOnly(c, r, m) ==
  /\ analysis' = [analysis EXCEPT ![c] = r]
  /\ metadata' = [metadata EXCEPT ![c] = m]
  /\ category' = [category EXCEPT ![c] = IF r # "ok" /\ @ = "none" THEN "analysis" ELSE @]
  /\ at' = [at EXCEPT ![c] = "idle"]
  /\ UNCHANGED <<stage, loop, tries, collection, reused, retained>>

(* run_analysis_pass: m is the metadata status the pass leaves.            *)
AnalysisPass(c, r, m) ==
  /\ analysis' = [analysis EXCEPT ![c] = r]
  /\ metadata' = [metadata EXCEPT ![c] = m]
  /\ category' = [category EXCEPT ![c] =
                    CASE r = "timeout" -> "analysis"
                      [] r = "failed" -> IF @ = "none" THEN "analysis" ELSE @
                      [] r = "ok" -> IF m = "failed" THEN "metadata" ELSE @]
  /\ at' = [at EXCEPT ![c] = "idle"]
  /\ UNCHANGED <<stage, loop, tries, collection, reused, retained>>

(* Triage and the runtime-metrics pass analyse without metadata; what an   *)
(* earlier batch collected is still there.                                 *)
Analyse(c) ==
  /\ at[c] \in {"analysing", "reanalysing"}
  /\ \E r \in AnalysisResults : AnalysisPass(c, r, metadata[c])

Enrich(c) ==
  /\ at[c] = "enriching"
  /\ \E r \in AnalysisResults, m \in MetadataStatus : AnalysisPass(c, r, m)

(* A directory, a file or a process the task needs cannot be had.          *)
Raise(c) ==
  /\ at[c] \in Working
  /\ ~(at[c] = "collecting" /\ c \in reused)
  /\ Cardinality(Raised) < MaxRaises
  /\ at' = [at EXCEPT ![c] = "raised"]
  /\ tries' = [tries EXCEPT ![c] = 0]
  /\ UNCHANGED <<stage, loop, results, reused, retained>>

TaskStep(c) ==
  \/ StartTask(c)
  \/ CollectReused(c)
  \/ Retry(c)
  \/ Collect(c)
  \/ Refresh(c)
  \/ Analyse(c)
  \/ Enrich(c)
  \/ Raise(c)

-----------------------------------------------------------------------------
(* The batch is over; its summary is written, or the exception goes on.    *)
Over == stage \in {"done", "raised"} /\ UNCHANGED vars

Next == MainStep \/ (\E c \in Case : TaskStep(c)) \/ Over

Spec == Init /\ [][Next]_vars

(* The main thread and the pool threads get on; every process they wait    *)
(* for is ended by its timeout.                                            *)
Fairness == WF_vars(MainStep) /\ \A c \in Case : WF_vars(TaskStep(c))

FairSpec == Spec /\ Fairness

-----------------------------------------------------------------------------
TypeOK ==
  /\ stage \in Stages
  /\ next \in 1..(NumCases + 1)
  /\ outstanding \subseteq Case
  /\ batch \subseteq Case
  /\ breaker \in [completed : Nat, failures : Nat, consecutive : Nat, tripped : BOOLEAN]
  /\ warned \in BOOLEAN
  /\ at \in [Case -> Places]
  /\ tries \in [Case -> 0..MaxAttempts]
  /\ collection \in [Case -> CollectionStatus]
  /\ analysis \in [Case -> AnalysisStatus]
  /\ category \in [Case -> Category]
  /\ metadata \in [Case -> MetadataStatus]
  /\ reused \subseteq Case
  /\ retained \subseteq Case

(* The breaker bounds the harm: however the futures complete, a source     *)
(* that answers every collection with a 5xx is asked for at most           *)
(* CmJobs - 1 profiles after the answer that trips the breaker.            *)
FailureBudget ==
  HasBreaker => breaker.consecutive <= LargerOf(MinFailures, Consecutive) + CmJobs - 1

(* No case is lost between the iterator, the futures and the two pools:    *)
(* when collection is over every case has a result, those skipped only     *)
(* under the warning, and what was collected, before or after the breaker  *)
(* tripped, is analysed.                                                   *)
EveryCaseAnswered ==
  stage \in {"analyse", "metrics", "metadata", "done"} =>
    \A c \in Case :
      /\ collection[c] # "not_started"
      /\ collection[c] = "skipped" => warned
      /\ collection[c] = "ok" /\ stage # "analyse" => analysis[c] # "not_started"

(* A case is called skipped only if no thread ever had it: the cases in    *)
(* flight when the breaker trips, whose status is not_started too, keep    *)
(* their results.                                                          *)
SkippedNeverRun ==
  \A c \in Case :
    collection[c] = "skipped" => at[c] = "idle" /\ analysis[c] = "not_started"

(* The failure category, set by any of four passes and never cleared, says *)
(* in the end what the statuses say, for every case this batch collected.  *)
FailureMatchesOutcome ==
  stage = "done" =>
    \A c \in Case \ reused :
      category[c] = "none" <=> /\ collection[c] = "ok"
                               /\ analysis[c] = "ok"
                               /\ metadata[c] # "failed"

(* Whether the batch ends or an exception goes through it, no pool thread  *)
(* and no process of one is left behind.                                   *)
NothingLeftRunning == stage \in {"done", "raised"} => Busy = {}

(* The batch ends. *)
BatchEnds == <>(stage \in {"done", "raised"})

=============================================================================
