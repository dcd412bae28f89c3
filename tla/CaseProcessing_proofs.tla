------------------------ MODULE CaseProcessing_proofs ------------------------
(***************************************************************************)
(* Proofs about CaseProcessing, for any number of cases and threads, any   *)
(* thresholds of the breaker, any answers and any number of exceptions.    *)
(***************************************************************************)
EXTENDS CaseProcessing, FiniteSetTheorems, TLAPS

-----------------------------------------------------------------------------
(* Types.                                                                  *)

LEMMA SmallerType ==
  ASSUME NEW m \in Nat, NEW n \in Nat
  PROVE  /\ SmallerOf(m, n) \in Nat
         /\ SmallerOf(m, n) <= m
         /\ SmallerOf(m, n) <= n
         /\ LargerOf(m, n) \in Nat
         /\ LargerOf(m, n) >= m
         /\ LargerOf(m, n) >= n
BY DEF SmallerOf, LargerOf

BreakerType == [completed : Nat, failures : Nat, consecutive : Nat, tripped : BOOLEAN]

(* What recording a future does to the breaker's counters.                 *)
LEMMA RecordCounts ==
  ASSUME NEW b \in BreakerType, NEW f \in BOOLEAN
  PROVE  /\ Record(b, f) \in BreakerType
         /\ b.tripped => Record(b, f).tripped
         /\ Record(b, f).consecutive <= b.consecutive + 1
         /\ b.consecutive <= b.failures
              => Record(b, f).consecutive <= Record(b, f).failures
         /\ ~Record(b, f).tripped =>
              ~ShouldTrip(Record(b, f).completed, Record(b, f).failures,
                          Record(b, f).consecutive)
<1> DEFINE n == b.completed + 1
           k == IF f THEN b.failures + 1 ELSE b.failures
           m == IF f THEN b.consecutive + 1 ELSE 0
           t == b.tripped \/ ShouldTrip(n, k, m)
<1>1. Record(b, f) = [completed |-> n, failures |-> k, consecutive |-> m, tripped |-> t]
  BY DEF Record
<1>2. /\ n \in Nat /\ k \in Nat /\ m \in Nat
      /\ m <= b.consecutive + 1
      /\ b.consecutive <= b.failures => m <= k
      /\ b.tripped \in BOOLEAN
  BY DEF BreakerType
<1>3. t \in BOOLEAN /\ (b.tripped => t) /\ (~t => ~ShouldTrip(n, k, m))
  BY <1>2, Zenon DEF ShouldTrip
<1> HIDE DEF n, k, m, t
<1>4. /\ Record(b, f).completed = n
      /\ Record(b, f).failures = k
      /\ Record(b, f).consecutive = m
      /\ Record(b, f).tripped = t
  BY <1>1
<1>5. Record(b, f) \in BreakerType
  BY <1>1, <1>2, <1>3 DEF BreakerType
<1> QED
  BY <1>2, <1>3, <1>4, <1>5

LEMMA RecordedType ==
  ASSUME TypeOK, NEW c \in Case
  PROVE  Recorded(c) \in BreakerType
<1>1. breaker \in BreakerType
  BY DEF TypeOK, BreakerType
<1>2. (category[c] = "http_5xx") \in BOOLEAN
  OBVIOUS
<1> QED
  BY <1>1, <1>2, RecordCounts DEF Recorded

LEMMA InitType == Init => TypeOK
<1> SUFFICES ASSUME Init PROVE TypeOK
  OBVIOUS
<1>1. breaker \in [completed : Nat, failures : Nat, consecutive : Nat, tripped : BOOLEAN]
  BY DEF Init, FreshBreaker
<1>2. next \in 1..(NumCases + 1)
  BY CaseAssumption DEF Init
<1>3. /\ at \in [Case -> Places]
      /\ collection \in [Case -> CollectionStatus]
      /\ analysis \in [Case -> AnalysisStatus]
      /\ category \in [Case -> Category]
      /\ metadata \in [Case -> MetadataStatus]
  BY DEF Init, Places, CollectionStatus, AnalysisStatus, Category, MetadataStatus
<1>4. tries \in [Case -> 0..MaxAttempts]
  BY CaseAssumption DEF Init
<1> QED
  BY <1>1, <1>2, <1>3, <1>4 DEF Init, TypeOK, Stages

LEMMA MainType ==
  ASSUME TypeOK, MainStep
  PROVE  TypeOK'
<1> USE DEF Stages, Places, Queues, Working, CollectionStatus, AnalysisStatus, Category,
            MetadataStatus
<1>1. CASE ReuseAndStart
  <2> DEFINE n == SmallerOf(NumCases, CmJobs)
  <2>1. n \in Nat /\ n <= NumCases
    BY SmallerType, CaseAssumption
  <2>2. PICK R \in SUBSET Reusable : \E m \in [R -> MetadataStatus] :
          /\ reused' = R
          /\ collection' = [c \in Case |-> IF c \in R THEN "ok" ELSE "not_started"]
          /\ analysis' = [c \in Case |-> IF c \in R THEN "ok" ELSE "not_started"]
          /\ metadata' = [c \in Case |-> IF c \in R THEN m[c] ELSE "none"]
    BY <1>1 DEF ReuseAndStart
  <2>3. /\ stage' = "collect"
        /\ outstanding' = 1..n
        /\ next' = n + 1
        /\ at' = [c \in Case |-> IF c <= n THEN "collecting" ELSE "idle"]
        /\ tries' = [c \in Case |-> IF c <= n THEN 1 ELSE 0]
        /\ UNCHANGED <<batch, breaker, warned, category, retained>>
    BY <1>1 DEF ReuseAndStart
  <2> HIDE DEF n
  <2>4. next' \in 1..(NumCases + 1) /\ outstanding' \subseteq Case
    BY <2>1, <2>3, CaseAssumption DEF Case
  <2>5. at' \in [Case -> Places] /\ tries' \in [Case -> 0..MaxAttempts]
    BY <2>3, CaseAssumption
  <2>6. /\ reused' \subseteq Case
        /\ collection' \in [Case -> CollectionStatus]
        /\ analysis' \in [Case -> AnalysisStatus]
        /\ metadata' \in [Case -> MetadataStatus]
    BY <2>2, CaseAssumption DEF Case
  <2> QED
    BY <2>3, <2>4, <2>5, <2>6 DEF TypeOK
<1>2. CASE Wait
  BY <1>2 DEF Wait, TypeOK, tasks, results
<1>3. ASSUME NEW c \in Case, Process(c)
      PROVE  TypeOK'
  <2>1. breaker' \in [completed : Nat, failures : Nat, consecutive : Nat, tripped : BOOLEAN]
    BY <1>3, RecordedType DEF Process, BreakerType
  <2>2. warned' \in BOOLEAN
    BY <1>3, RecordedType DEF Process, TypeOK, BreakerType
  <2>3. /\ next' \in 1..(NumCases + 1)
        /\ collection' \in [Case -> CollectionStatus]
        /\ category' \in [Case -> Category]
    BY <1>3, CaseAssumption DEF Process, SubmitNext, More, MarkUnsubmitted, TypeOK
  <2>4. outstanding' \subseteq Case /\ batch' \subseteq Case
    <3>1. outstanding \subseteq Case /\ batch \subseteq Case /\ next \in Nat /\ next >= 1
      BY CaseAssumption DEF TypeOK
    <3>2. /\ outstanding' = (outstanding \ {c}) \cup {d \in {next} : More(c)}
          /\ batch' = batch \ {c}
      BY <1>3 DEF Process
    <3>3. More(c) => next \in Case
      BY <3>1, CaseAssumption DEF More, Case
    <3> HIDE DEF Stages, Places, Queues, Working, CollectionStatus, AnalysisStatus, Category,
                 MetadataStatus
    <3> QED BY <3>1, <3>2, <3>3
  <2>5. at' \in [Case -> Places]
    <3>1. AfterCollection(c) \in Places /\ "collecting" \in Places
      BY DEF AfterCollection
    <3>2. at' = [d \in Case |-> CASE d = next /\ More(c) -> "collecting"
                                  [] d = c -> AfterCollection(c)
                                  [] OTHER -> at[d]]
      BY <1>3 DEF Process
    <3>3. at \in [Case -> Places]
      BY DEF TypeOK
    <3> HIDE DEF Places
    <3>4. \A d \in Case : at'[d] \in Places
      BY <3>1, <3>2, <3>3
    <3> QED BY <3>2, <3>4
  <2>6. tries' \in [Case -> 0..MaxAttempts]
    BY <1>3, CaseAssumption DEF Process, TypeOK
  <2> QED
    BY <1>3, <2>1, <2>2, <2>3, <2>4, <2>5, <2>6 DEF Process, TypeOK
<1>4. CASE EndCollect
  BY <1>4 DEF EndCollect, TypeOK, loop, results
<1>5. CASE EndAnalyse
  BY <1>5 DEF EndAnalyse, TypeOK, loop, results
<1>6. CASE EndMetrics
  <2>1. retained' \subseteq Case
    BY <1>6 DEF EndMetrics, Retained, FirstAnalysed, Analysed
  <2>2. at' \in [Case -> Places]
    BY <1>6 DEF EndMetrics
  <2> QED
    BY <1>6, <2>1, <2>2 DEF EndMetrics, TypeOK, loop, results
<1>7. CASE EndMetadata
  BY <1>7 DEF EndMetadata, TypeOK, loop, tasks, results
<1>8. CASE Unwind
  BY <1>8 DEF Unwind, TypeOK, loop, results
<1>9. CASE EndUnwind
  BY <1>9 DEF EndUnwind, TypeOK, loop, tasks, results
<1> QED
  BY <1>1, <1>2, <1>3, <1>4, <1>5, <1>6, <1>7, <1>8, <1>9 DEF MainStep

(* The pass over one case, whichever thread runs it. *)
LEMMA PassType ==
  ASSUME TypeOK, NEW c \in Case, NEW r \in AnalysisResults, NEW m \in MetadataStatus,
         AnalysisPass(c, r, m)
  PROVE  TypeOK'
<1>1. r \in {"ok", "failed", "timeout"}
  BY CaseAssumption
<1>2. analysis' \in [Case -> AnalysisStatus]
  BY <1>1 DEF AnalysisPass, TypeOK, AnalysisStatus
<1>3. category' \in [Case -> Category]
  BY <1>1 DEF AnalysisPass, TypeOK, Category
<1>4. metadata' \in [Case -> MetadataStatus]
  BY DEF AnalysisPass, TypeOK
<1>5. at' \in [Case -> Places]
  BY DEF AnalysisPass, TypeOK, Places
<1> QED
  BY <1>2, <1>3, <1>4, <1>5 DEF AnalysisPass, TypeOK, loop

LEMMA TaskType ==
  ASSUME TypeOK, NEW c \in Case, TaskStep(c)
  PROVE  TypeOK'
<1>1. CASE StartTask(c)
  <2>1. at' \in [Case -> Places]
    BY <1>1 DEF StartTask, TypeOK, Places, Queues, Working
  <2>2. tries' \in [Case -> 0..MaxAttempts]
    BY <1>1, CaseAssumption DEF StartTask, TypeOK
  <2> QED
    BY <1>1, <2>1, <2>2 DEF StartTask, TypeOK, loop, results
<1>2. CASE CollectReused(c)
  BY <1>2 DEF CollectReused, TypeOK, Places, loop, results
<1>3. CASE Retry(c)
  <2>1. tries' \in [Case -> 0..MaxAttempts]
    BY <1>3, CaseAssumption DEF Retry, TypeOK
  <2> QED
    BY <1>3, <2>1 DEF Retry, TypeOK, loop, results
<1>4. CASE Collect(c)
  <2>1. PICK a \in Answers :
          /\ collection' = [collection EXCEPT ![c] = StatusOf(a)]
          /\ category' = [category EXCEPT ![c] = CollectionCategory(a, @)]
    BY <1>4 DEF Collect
  <2>2. collection' \in [Case -> CollectionStatus]
    BY <2>1 DEF TypeOK, CollectionStatus, StatusOf
  <2>3. category' \in [Case -> Category]
    BY <2>1 DEF TypeOK, Category, CollectionCategory
  <2>4. at' \in [Case -> Places] /\ tries' \in [Case -> 0..MaxAttempts]
    BY <1>4, CaseAssumption DEF Collect, TypeOK, Places
  <2> QED
    BY <1>4, <2>2, <2>3, <2>4 DEF Collect, TypeOK, loop
<1>5. CASE Refresh(c)
  <2>1. at' \in [Case -> Places]
    BY <1>5 DEF Refresh, TypeOK, Places, Working
  <2>2. tries' \in [Case -> 0..MaxAttempts]
    BY <1>5, CaseAssumption DEF Refresh, TypeOK
  <2> QED
    BY <1>5, <2>1, <2>2 DEF Refresh, TypeOK, loop, results
<1>6. CASE Analyse(c)
  <2>1. PICK r \in AnalysisResults : AnalysisPass(c, r, metadata[c])
    BY <1>6 DEF Analyse
  <2>2. metadata[c] \in MetadataStatus
    BY DEF TypeOK
  <2> QED
    BY <2>1, <2>2, PassType
<1>7. CASE Enrich(c)
  BY <1>7, PassType DEF Enrich
<1>8. CASE Raise(c)
  <2>1. at' \in [Case -> Places] /\ tries' \in [Case -> 0..MaxAttempts]
    BY <1>8, CaseAssumption DEF Raise, TypeOK, Places
  <2> QED
    BY <1>8, <2>1 DEF Raise, TypeOK, loop, results
<1> QED
  BY <1>1, <1>2, <1>3, <1>4, <1>5, <1>6, <1>7, <1>8 DEF TaskStep

(* Every variable keeps its type. *)
THEOREM CasesTypeCorrect == Spec => []TypeOK
<1>1. TypeOK /\ [Next]_vars => TypeOK'
  <2> SUFFICES ASSUME TypeOK, [Next]_vars PROVE TypeOK'
    OBVIOUS
  <2>1. CASE UNCHANGED vars
    BY <2>1 DEF vars, loop, tasks, results, TypeOK
  <2> QED
    BY <2>1, MainType, TaskType DEF Next, Over
<1> QED
  BY <1>1, InitType, PTL DEF Spec

-----------------------------------------------------------------------------
(* The inductive invariant: the loop of the main thread, the breaker's     *)
(* budget, and what is known of one case.                                  *)

AfterCollect == {"analyse", "metrics", "metadata", "done"}

LoopInv ==
  /\ batch \subseteq outstanding
  /\ outstanding \subseteq 1..(next - 1)
  /\ warned = breaker.tripped
  /\ stage = "reuse" => outstanding = {} /\ breaker = FreshBreaker
  /\ stage = "collect" /\ next <= NumCases => ~breaker.tripped /\ outstanding # {}
  /\ stage \in AfterCollect => outstanding = {} /\ next = NumCases + 1

Bound == LargerOf(MinFailures, Consecutive)

(* What is outstanding when the breaker trips is all that can still fail.  *)
BudgetInv ==
  /\ breaker.consecutive <= breaker.failures
  /\ Cardinality(outstanding) <= CmJobs
  /\ ~breaker.tripped => breaker.consecutive < Bound
  /\ breaker.tripped => breaker.consecutive + Cardinality(outstanding) <= Bound + CmJobs - 1

CaseOK(c) ==
  /\ c \in outstanding => at[c] \in {"collecting", "collected", "raised"}
  /\ at[c] \in {"collecting", "collected"} => c \in outstanding
  /\ c >= next => at[c] = "idle" /\ (c \in reused \/ collection[c] = "not_started")
  /\ stage # "reuse" /\ c < next /\ c \notin outstanding => collection[c] # "not_started"
  /\ at[c] = "collected" => collection[c] # "not_started"
  /\ at[c] = "collecting" /\ c \notin reused =>
       collection[c] = "not_started" /\ analysis[c] = "not_started"
  /\ collection[c] = "skipped" => at[c] = "idle" /\ analysis[c] = "not_started" /\ warned
  /\ c \in reused => collection[c] = "ok" /\ analysis[c] # "not_started"
  /\ at[c] \in Queues \cup (Working \ {"collecting"}) => collection[c] = "ok"
  /\ analysis[c] # "not_started" => collection[c] = "ok"
  /\ collection[c] = "ok" /\ c \notin outstanding =>
       /\ (stage = "collect" /\ Streaming) \/ stage = "analyse" =>
            analysis[c] # "not_started" \/ at[c] \in {"to_analyse", "analysing", "raised"}
       /\ stage \in AfterCollect \ {"analyse"} => analysis[c] # "not_started"
  /\ stage \in {"done", "raised"} => at[c] \notin Queues \cup Working

CaseInv == \A c \in Case : CaseOK(c)

(* What a case's failure category says, while it is still on its way: it   *)
(* reaches each pool unmarked, and the metadata pass has it once.          *)
CategoryOK(c) ==
  /\ stage = "reuse" => /\ c \notin reused
                        /\ collection[c] = "not_started" /\ analysis[c] = "not_started"
  /\ stage \in {"reuse", "collect"} /\ ~Streaming =>
       /\ at[c] \in {"idle", "collecting", "collected", "raised"}
       /\ c \in reused \/ analysis[c] = "not_started"
  /\ c \notin reused /\ at[c] = "collected" => analysis[c] = "not_started"
  /\ at[c] \in {"to_enrich", "enriching"} => stage \in {"metadata", "unwinding"}
  /\ c \notin reused =>
       /\ category[c] = "none" <=> /\ collection[c] \in {"ok", "not_started"}
                                   /\ analysis[c] \in {"ok", "not_started"}
                                   /\ metadata[c] # "failed"
       /\ stage \in {"reuse", "collect", "analyse", "metrics"} => metadata[c] = "none"
       /\ at[c] \in Queues \cup Working => category[c] = "none"

CategoryInv == \A c \in Case : CategoryOK(c)

LEMMA LongerPrefix ==
  ASSUME NEW m \in Nat, NEW n \in Nat, m <= n
  PROVE  1..(m - 1) \subseteq 1..(n - 1)
OBVIOUS

LEMMA BoundType ==
  Bound \in Nat \ {0} /\ MinFailures <= Bound /\ Consecutive <= Bound
<1>1. MinFailures \in Nat \ {0} /\ Consecutive \in Nat \ {0}
  BY CaseAssumption
<1> QED
  BY <1>1 DEF Bound, LargerOf

(* Recording a future keeps an untripped breaker below its bound.          *)
LEMMA RecordedCounts ==
  ASSUME TypeOK, BudgetInv, NEW c \in Case
  PROVE  /\ Recorded(c) \in BreakerType
         /\ breaker.tripped => Recorded(c).tripped
         /\ Recorded(c).consecutive <= breaker.consecutive + 1
         /\ Recorded(c).consecutive <= Recorded(c).failures
         /\ ~Recorded(c).tripped => Recorded(c).consecutive < Bound
<1>1. breaker \in BreakerType
  BY DEF TypeOK, BreakerType
<1>2. CASE HasBreaker
  <2> DEFINE r == Record(breaker, category[c] = "http_5xx")
  <2>1. Recorded(c) = r
    BY <1>2 DEF Recorded
  <2>2. (category[c] = "http_5xx") \in BOOLEAN
    OBVIOUS
  <2>3. /\ r \in BreakerType
        /\ breaker.tripped => r.tripped
        /\ r.consecutive <= breaker.consecutive + 1
        /\ breaker.consecutive <= breaker.failures => r.consecutive <= r.failures
        /\ ~r.tripped => ~ShouldTrip(r.completed, r.failures, r.consecutive)
    BY <1>1, <2>2, RecordCounts
  <2> HIDE DEF r
  <2>4. r.consecutive <= r.failures
    BY <2>3 DEF BudgetInv
  <2>5. ~r.tripped => r.consecutive < Bound
    <3>1. MinFailures \in Nat /\ Consecutive \in Nat
      BY CaseAssumption
    <3>2. r.consecutive \in Nat /\ r.failures \in Nat
      BY <2>3 DEF BreakerType
    <3> QED
      BY <2>3, <2>4, <3>1, <3>2, BoundType DEF ShouldTrip
  <2> QED
    BY <2>1, <2>3, <2>4, <2>5
<1>3. CASE ~HasBreaker
  BY <1>1, <1>3 DEF Recorded, BudgetInv, BreakerType
<1> QED
  BY <1>2, <1>3

LEMMA InitInv == Init => LoopInv /\ BudgetInv /\ CaseInv /\ CategoryInv
<1> SUFFICES ASSUME Init PROVE LoopInv /\ BudgetInv /\ CaseInv /\ CategoryInv
  OBVIOUS
<1>1. LoopInv
  BY DEF Init, LoopInv, FreshBreaker, AfterCollect
<1>2. BudgetInv
  <2>1. /\ Cardinality(outstanding) = 0
        /\ breaker.consecutive = 0 /\ breaker.failures = 0 /\ breaker.tripped = FALSE
    BY FS_EmptySet DEF Init, FreshBreaker
  <2>2. CmJobs \in Nat
    BY CaseAssumption
  <2> QED
    BY <2>1, <2>2, BoundType DEF BudgetInv
<1>3. ASSUME NEW c \in Case
      PROVE  CaseOK(c)
  <2>1. /\ stage = "reuse" /\ outstanding = {} /\ reused = {} /\ next = 1
        /\ at[c] = "idle" /\ collection[c] = "not_started" /\ analysis[c] = "not_started"
    BY DEF Init
  <2> QED
    BY <2>1 DEF CaseOK, Queues, Working, AfterCollect
<1>4. CategoryInv
  BY DEF Init, CategoryInv, CategoryOK, Queues, Working
<1> QED
  BY <1>1, <1>2, <1>3, <1>4 DEF CaseInv

-----------------------------------------------------------------------------
(* The loop of the main thread.                                            *)

LEMMA LoopStep ==
  ASSUME TypeOK, LoopInv, [Next]_vars
  PROVE  LoopInv'
<1> USE DEF AfterCollect
<1>1. CASE ReuseAndStart
  <2> DEFINE n == SmallerOf(NumCases, CmJobs)
  <2>1. n \in Nat /\ n <= NumCases /\ (n < NumCases => n = CmJobs)
    BY CaseAssumption, SmallerType DEF SmallerOf
  <2>2. /\ stage = "reuse" /\ stage' = "collect"
        /\ outstanding' = 1..n
        /\ next' = n + 1
        /\ UNCHANGED <<batch, breaker, warned>>
    BY <1>1 DEF ReuseAndStart
  <2> HIDE DEF n
  <2>3. next' <= NumCases => outstanding' # {}
    <3>1. next' <= NumCases => 1 <= n
      BY <2>1, <2>2, CaseAssumption
    <3>2. 1 <= n => 1 \in 1..n
      BY <2>1
    <3> QED
      BY <2>2, <3>1, <3>2
  <2>4. ~breaker'.tripped
    BY <2>2 DEF LoopInv, FreshBreaker
  <2>5. outstanding' \subseteq 1..(next' - 1)
    BY <2>1, <2>2
  <2>6. batch' = {}
    BY <2>2 DEF LoopInv
  <2> QED
    BY <2>2, <2>3, <2>4, <2>5, <2>6 DEF LoopInv
<1>2. CASE Wait
  BY <1>2 DEF Wait, LoopInv
<1>3. ASSUME NEW c \in Case, Process(c)
      PROVE  LoopInv'
  <2>1. /\ stage = "collect" /\ stage' = "collect"
        /\ breaker' = Recorded(c)
        /\ warned' = (warned \/ Recorded(c).tripped)
        /\ batch' = batch \ {c}
        /\ outstanding' = (outstanding \ {c}) \cup {d \in {next} : More(c)}
    BY <1>3 DEF Process
  <2>2. Recorded(c) \in BreakerType /\ (breaker.tripped => Recorded(c).tripped)
    <3>1. breaker \in BreakerType
      BY DEF TypeOK, BreakerType
    <3>2. (category[c] = "http_5xx") \in BOOLEAN
      OBVIOUS
    <3> QED
      BY <3>1, <3>2, RecordCounts DEF Recorded
  <2>3. warned' = breaker'.tripped
    BY <2>1, <2>2 DEF LoopInv, BreakerType
  <2>4. /\ next \in 1..(NumCases + 1)
        /\ More(c) => next' = next + 1 /\ ~breaker'.tripped /\ next <= NumCases
        /\ ~More(c) => next' \in {next, NumCases + 1}
    BY <1>3, <2>1, <2>2 DEF Process, SubmitNext, MarkUnsubmitted, More, TypeOK, BreakerType
  <2>5. ~More(c) => next' = NumCases + 1
    <3>1. CASE ~Recorded(c).tripped
      BY <2>4, <3>1, CaseAssumption DEF More
    <3>2. CASE Recorded(c).tripped /\ ~warned
      BY <1>3, <3>2 DEF Process, MarkUnsubmitted
    <3>3. CASE warned
      BY <2>1, <2>4, <3>3, CaseAssumption DEF LoopInv
    <3> QED
      BY <3>1, <3>2, <3>3
  <2>6. batch' \subseteq outstanding'
    BY <2>1 DEF LoopInv
  <2>7. outstanding' \subseteq 1..(next' - 1)
    <3>1. NumCases \in Nat /\ next \in Nat /\ next <= NumCases + 1
      BY <2>4, CaseAssumption
    <3>2. next' \in Nat /\ next <= next' /\ (More(c) => next' = next + 1)
      BY <2>4, <2>5, <3>1
    <3>3. outstanding \subseteq 1..(next' - 1)
      <4>1. outstanding \subseteq 1..(next - 1)
        BY DEF LoopInv
      <4>2. 1..(next - 1) \subseteq 1..(next' - 1)
        BY <3>1, <3>2, LongerPrefix
      <4> QED
        BY <4>1, <4>2
    <3>4. More(c) => next \in 1..(next' - 1)
      BY <2>4, <3>2
    <3> QED
      BY <2>1, <3>3, <3>4
  <2>8. next' <= NumCases => ~breaker'.tripped /\ outstanding' # {}
    <3>1. NumCases \in Nat
      BY CaseAssumption
    <3>2. next' <= NumCases => More(c)
      BY <2>5, <3>1
    <3>3. More(c) => next \in outstanding' /\ ~breaker'.tripped
      BY <2>1, <2>4
    <3> QED
      BY <3>2, <3>3
  <2> QED
    BY <2>1, <2>3, <2>6, <2>7, <2>8 DEF LoopInv
<1>4. CASE EndCollect
  BY <1>4, CaseAssumption DEF EndCollect, LoopInv, loop, TypeOK
<1>5. CASE EndAnalyse \/ EndMetrics \/ EndMetadata
  BY <1>5 DEF EndAnalyse, EndMetrics, EndMetadata, LoopInv, loop
<1>6. CASE Unwind \/ EndUnwind
  BY <1>6 DEF Unwind, EndUnwind, LoopInv, loop
<1>7. CASE UNCHANGED <<stage, loop>>
  BY <1>7 DEF LoopInv, loop
<1>8. ASSUME NEW c \in Case, TaskStep(c)
      PROVE  UNCHANGED <<stage, loop>>
  BY <1>8 DEF TaskStep, StartTask, CollectReused, Retry, Collect, Refresh, Analyse, Enrich,
              Raise, AnalysisPass
<1> QED
  BY <1>1, <1>2, <1>3, <1>4, <1>5, <1>6, <1>7, <1>8 DEF Next, MainStep, Over, vars

LEMMA OutstandingFinite ==
  ASSUME TypeOK
  PROVE  IsFiniteSet(outstanding) /\ Cardinality(outstanding) \in Nat
<1>1. IsFiniteSet(1..NumCases)
  BY FS_Interval, CaseAssumption
<1>2. IsFiniteSet(outstanding)
  BY <1>1, FS_Subset DEF TypeOK, Case
<1> QED
  BY <1>2, FS_CardinalityType

LEMMA BudgetStep ==
  ASSUME TypeOK, LoopInv, BudgetInv, [Next]_vars
  PROVE  BudgetInv'
<1>1. IsFiniteSet(outstanding) /\ Cardinality(outstanding) \in Nat
  BY OutstandingFinite
<1>2. Bound \in Nat \ {0}
  BY BoundType
<1>3. CASE ReuseAndStart
  <2> DEFINE n == SmallerOf(NumCases, CmJobs)
  <2>1. n \in Nat /\ n <= CmJobs
    BY CaseAssumption, SmallerType
  <2>2. outstanding' = 1..n /\ breaker' = breaker /\ breaker = FreshBreaker
    BY <1>3 DEF ReuseAndStart, LoopInv
  <2>3. Cardinality(outstanding') = n
    BY <2>1, <2>2, FS_Interval
  <2> QED
    BY <1>2, <2>1, <2>2, <2>3 DEF BudgetInv, FreshBreaker
<1>4. ASSUME NEW c \in Case, Process(c)
      PROVE  BudgetInv'
  <2>1. /\ breaker' = Recorded(c)
        /\ outstanding' = (outstanding \ {c}) \cup {d \in {next} : More(c)}
        /\ c \in outstanding
    BY <1>4 DEF Process, LoopInv
  <2>2. breaker \in BreakerType /\ (category[c] = "http_5xx") \in BOOLEAN
    BY DEF TypeOK, BreakerType
  <2>3. /\ breaker' \in BreakerType
        /\ breaker.tripped => breaker'.tripped
        /\ breaker'.consecutive <= breaker.consecutive + 1
        /\ breaker'.consecutive <= breaker'.failures
        /\ ~breaker'.tripped => breaker'.consecutive < Bound
    BY <2>1, RecordedCounts
  <2>5. /\ IsFiniteSet(outstanding \ {c})
        /\ Cardinality(outstanding \ {c}) = Cardinality(outstanding) - 1
    BY <1>1, <2>1, FS_RemoveElement
  <2>6. CASE More(c)
    <3>1. outstanding' = (outstanding \ {c}) \cup {next}
      BY <2>1, <2>6
    <3>2. next \notin outstanding \ {c}
      BY DEF LoopInv, TypeOK
    <3>3. Cardinality(outstanding') = Cardinality(outstanding)
      <4>1. Cardinality((outstanding \ {c}) \cup {next}) = Cardinality(outstanding \ {c}) + 1
        BY <2>5, <3>2, FS_AddElement
      <4> QED
        BY <1>1, <2>5, <3>1, <4>1
    <3>4. ~breaker'.tripped
      BY <2>1, <2>6 DEF More
    <3> QED
      BY <2>3, <3>3, <3>4 DEF BudgetInv
  <2>7. CASE ~More(c)
    <3>1. outstanding' = outstanding \ {c}
      BY <2>1, <2>7
    <3>2. /\ breaker.consecutive \in Nat /\ breaker'.consecutive \in Nat
          /\ breaker.tripped \in BOOLEAN
      BY <2>2, <2>3 DEF BreakerType
    <3>3. breaker'.tripped =>
            breaker'.consecutive + Cardinality(outstanding') <= Bound + CmJobs - 1
      BY <1>1, <1>2, <2>3, <2>5, <3>1, <3>2, CaseAssumption DEF BudgetInv
    <3>4. Cardinality(outstanding') <= CmJobs
      BY <1>1, <2>5, <3>1, CaseAssumption DEF BudgetInv
    <3> QED
      BY <2>3, <3>3, <3>4 DEF BudgetInv
  <2> QED
    BY <2>6, <2>7
<1>5. CASE UNCHANGED <<outstanding, breaker>>
  BY <1>5 DEF BudgetInv
<1>6. ASSUME NEW c \in Case, TaskStep(c)
      PROVE  UNCHANGED <<outstanding, breaker>>
  BY <1>6 DEF TaskStep, StartTask, CollectReused, Retry, Collect, Refresh, Analyse, Enrich,
              Raise, AnalysisPass, loop
<1>7. ASSUME Wait \/ EndCollect \/ EndAnalyse \/ EndMetrics \/ EndMetadata \/ Unwind \/ EndUnwind
      PROVE  UNCHANGED <<outstanding, breaker>>
  BY <1>7 DEF Wait, EndCollect, EndAnalyse, EndMetrics, EndMetadata, Unwind, EndUnwind, loop
<1> QED
  BY <1>3, <1>4, <1>5, <1>6, <1>7 DEF Next, MainStep, Over, vars, loop

-----------------------------------------------------------------------------
(* One case through one step.                                              *)

LEMMA CaseStep ==
  ASSUME TypeOK, LoopInv, CaseInv, Next, NEW d \in Case
  PROVE  CaseOK(d)'
<1> USE DEF Queues, Working, AfterCollect
<1>1. CaseOK(d)
  BY DEF CaseInv
<1>2. /\ d \in Nat /\ next \in Nat /\ NumCases \in Nat /\ d <= NumCases
      /\ at[d] \in Places /\ collection[d] \in CollectionStatus
      /\ analysis[d] \in AnalysisStatus
  <2>1. /\ at \in [Case -> Places] /\ collection \in [Case -> CollectionStatus]
        /\ analysis \in [Case -> AnalysisStatus] /\ next \in 1..(NumCases + 1)
    BY DEF TypeOK
  <2>2. /\ at[d] \in Places /\ collection[d] \in CollectionStatus
        /\ analysis[d] \in AnalysisStatus
    BY <2>1, Zenon
  <2>3. NumCases \in Nat /\ d \in 1..NumCases
    BY CaseAssumption DEF Case
  <2>4. d \in Nat /\ next \in Nat /\ d <= NumCases
    BY <2>1, <2>3
  <2> QED
    BY <2>2, <2>3, <2>4
<1>3. CASE ReuseAndStart
  <2> DEFINE n == SmallerOf(NumCases, CmJobs)
  <2>1. n \in Nat
    BY SmallerType, CaseAssumption
  <2>2. /\ stage' = "collect" /\ stage = "reuse"
        /\ outstanding' = 1..n
        /\ next' = n + 1
        /\ at'[d] = IF d <= n THEN "collecting" ELSE "idle"
    BY <1>3 DEF ReuseAndStart
  <2>3. /\ collection'[d] = IF d \in reused' THEN "ok" ELSE "not_started"
        /\ analysis'[d] = IF d \in reused' THEN "ok" ELSE "not_started"
    BY <1>3 DEF ReuseAndStart
  <2> HIDE DEF n
  <2>4. d \in outstanding' <=> d <= n
    BY <2>1, <2>2, CaseAssumption DEF Case
  <2>5. d >= next' <=> ~(d <= n)
    BY <1>2, <2>1, <2>2
  <2>6. d < next' <=> d <= n
    BY <1>2, <2>1, <2>2
  <2> QED
    BY <2>2, <2>3, <2>4, <2>5, <2>6 DEF CaseOK
<1>4. CASE Wait
  BY <1>1, <1>4 DEF Wait, CaseOK, tasks, results, Streaming
<1>5. ASSUME NEW c \in Case, Process(c)
      PROVE  CaseOK(d)'
  <2>1. /\ stage = "collect" /\ stage' = "collect"
        /\ c \in outstanding /\ c \in Nat
        /\ at[c] = "collected"
        /\ outstanding' = (outstanding \ {c}) \cup {e \in {next} : More(c)}
        /\ analysis' = analysis /\ reused' = reused
        /\ warned' = (warned \/ Recorded(c).tripped)
        /\ at'[d] = CASE d = next /\ More(c) -> "collecting"
                      [] d = c -> AfterCollection(c)
                      [] OTHER -> at[d]
    BY <1>5 DEF Process, LoopInv, Case
  <2>2. c < next
    BY <2>1, <1>2 DEF LoopInv
  <2>3. CASE Recorded(c).tripped /\ ~warned
    <3>1. ~More(c) /\ warned' /\ next' = NumCases + 1
      BY <1>5, <2>1, <2>3 DEF Process, MarkUnsubmitted, More
    <3>2. collection'[d] = IF d \in next..NumCases /\ collection[d] = "not_started"
                             THEN "skipped" ELSE collection[d]
      BY <1>5, <2>3 DEF Process, MarkUnsubmitted, Unsubmitted
    <3>3. /\ at'[d] = IF d = c THEN AfterCollection(c) ELSE at[d]
          /\ outstanding' = outstanding \ {c}
      BY <2>1, <3>1
    <3>4. d \in next..NumCases <=> ~(d < next)
      BY <1>2
    <3>5. ~(d >= next') /\ (d >= next <=> ~(d < next))
      BY <1>2, <3>1
    <3>6. CASE d = c
      BY <1>1, <2>1, <2>2, <3>1, <3>2, <3>3, <3>4, <3>5, <3>6
         DEF CaseOK, AfterCollection, Streaming
    <3>7. CASE d # c
      BY <1>1, <2>1, <2>2, <3>1, <3>2, <3>3, <3>4, <3>5, <3>7
         DEF CaseOK, Streaming
    <3> QED
      BY <3>6, <3>7
  <2>4. CASE ~(Recorded(c).tripped /\ ~warned)
    <3>1. /\ next' = IF More(c) THEN next + 1 ELSE next
          /\ collection' = collection
      BY <1>5, <2>4 DEF Process, SubmitNext
    <3>2. d # next => (d < next' <=> d < next) /\ (d >= next' <=> d >= next)
      BY <1>2, <3>1
    <3>3. CASE d = next /\ More(c)
      BY <1>1, <1>2, <2>1, <2>2, <3>1, <3>3 DEF CaseOK, Streaming
    <3>4. CASE d = next /\ ~More(c)
      BY <1>1, <1>2, <2>1, <2>2, <3>1, <3>4 DEF CaseOK, Streaming
    <3>5. CASE d # next /\ d = c
      BY <1>1, <1>2, <2>1, <2>2, <3>1, <3>2, <3>5 DEF CaseOK, AfterCollection, Streaming
    <3>6. CASE d # next /\ d # c
      BY <1>1, <1>2, <2>1, <2>2, <3>1, <3>2, <3>6 DEF CaseOK, Streaming
    <3> QED
      BY <3>3, <3>4, <3>5, <3>6
  <2> QED
    BY <2>3, <2>4
<1>6. CASE EndCollect
  <2>1. /\ stage = "collect" /\ stage' = "analyse" /\ outstanding = {}
        /\ UNCHANGED <<next, outstanding, warned, collection, analysis, reused>>
    BY <1>6 DEF EndCollect, loop, results
  <2>2. at'[d] = IF ~Streaming /\ collection[d] = "ok" THEN "to_analyse" ELSE at[d]
    BY <1>6 DEF EndCollect
  <2>3. at[d] # "collecting" /\ at[d] # "collected" /\ d < next
    BY <1>1, <1>2, <2>1 DEF CaseOK, LoopInv
  <2>4. CASE Streaming
    BY <1>1, <1>2, <2>1, <2>2, <2>3, <2>4 DEF CaseOK
  <2>5. CASE ~Streaming
    BY <1>1, <1>2, <2>1, <2>2, <2>3, <2>5 DEF CaseOK, Streaming
  <2> QED
    BY <2>4, <2>5
<1>7. CASE EndAnalyse
  <2>1. /\ stage = "analyse" /\ stage' = "metrics"
        /\ d \notin Busy \cup Raised
        /\ UNCHANGED <<next, outstanding, warned, collection, analysis, reused>>
    BY <1>7 DEF EndAnalyse, loop, results
  <2>2. at'[d] = "idle" \/ (at'[d] = "to_refresh" /\ analysis[d] = "ok")
    BY <1>7 DEF EndAnalyse, Analysed
  <2>3. d \notin outstanding /\ d < next
    BY <1>2, <2>1 DEF LoopInv
  <2>4. at[d] \notin {"to_analyse", "analysing", "raised"}
    BY <2>1 DEF Busy, Raised
  <2> QED
    BY <1>1, <1>2, <2>1, <2>2, <2>3, <2>4 DEF CaseOK, Streaming
<1>8. CASE EndMetrics
  <2>1. /\ stage = "metrics" /\ stage' = "metadata"
        /\ UNCHANGED <<next, outstanding, warned, collection, analysis, reused>>
    BY <1>8 DEF EndMetrics, loop, results
  <2>2. at'[d] = "idle" \/ (at'[d] = "to_enrich" /\ analysis[d] = "ok")
    BY <1>8 DEF EndMetrics, Analysed
  <2>3. d \notin outstanding /\ d < next
    BY <1>2, <2>1 DEF LoopInv
  <2> QED
    BY <1>1, <1>2, <2>1, <2>2, <2>3 DEF CaseOK, Streaming
<1>9. CASE EndMetadata
  BY <1>1, <1>9 DEF EndMetadata, CaseOK, Busy, Streaming, loop, tasks, results
<1>10. CASE Unwind
  <2>1. /\ stage' = "unwinding" /\ at'[d] \in {at[d], "idle"}
        /\ at[d] \notin Queues => at'[d] = at[d]
        /\ stage \in {"collect", "analyse", "metrics", "metadata"}
        /\ UNCHANGED <<next, outstanding, warned, collection, analysis, reused>>
    BY <1>10 DEF Unwind, loop, results
  <2> QED
    BY <1>1, <2>1 DEF CaseOK, Streaming
<1>11. CASE EndUnwind
  BY <1>1, <1>11 DEF EndUnwind, CaseOK, Busy, Streaming, loop, tasks, results
<1>12. ASSUME NEW c \in Case, TaskStep(c)
       PROVE  CaseOK(d)'
  <2>0. UNCHANGED <<stage, next, outstanding, warned, reused>>
    BY <1>12 DEF TaskStep, StartTask, CollectReused, Retry, Collect, Refresh, Analyse, Enrich,
                 Raise, AnalysisPass, loop
  <2>1. CASE d # c
    <3>1. at'[d] = at[d] /\ collection'[d] = collection[d] /\ analysis'[d] = analysis[d]
      BY <1>12, <2>1 DEF TaskStep, StartTask, CollectReused, Retry, Collect, Refresh, Analyse,
                         Enrich, Raise, AnalysisPass, results, TypeOK
    <3> QED
      BY <1>1, <2>0, <3>1 DEF CaseOK, Streaming
  <2>2. CASE d = c
    <3>1. CASE StartTask(d)
      BY <1>1, <2>0, <3>1 DEF StartTask, CaseOK, Streaming, results, TypeOK
    <3>2. CASE CollectReused(d)
      BY <1>1, <2>0, <3>2 DEF CollectReused, CaseOK, Streaming, results, TypeOK
    <3>3. CASE Retry(d)
      BY <1>1, <2>0, <3>3 DEF Retry, CaseOK, Streaming, results, TypeOK
    <3>4. CASE Collect(d)
      <4>1. /\ at[d] = "collecting" /\ d \notin reused /\ at'[d] = "collected"
            /\ collection'[d] \in {"ok", "timeout", "failed"}
            /\ analysis' = analysis
        BY <3>4 DEF Collect, StatusOf, TypeOK
      <4> QED
        BY <1>1, <2>0, <4>1 DEF CaseOK, Streaming
    <3>5. CASE Refresh(d)
      <4>1. /\ at[d] = "refreshing" /\ at'[d] \in {"idle", "reanalysing"}
            /\ collection' = collection /\ analysis' = analysis
        BY <3>5 DEF Refresh, results, TypeOK
      <4> QED
        BY <1>1, <2>0, <4>1 DEF CaseOK, Streaming
    <3>6. CASE Analyse(d) \/ Enrich(d)
      <4>1. /\ at[d] \in {"analysing", "reanalysing", "enriching"} /\ at'[d] = "idle"
            /\ collection' = collection
            /\ analysis'[d] \in AnalysisResults
        BY <3>6 DEF Analyse, Enrich, AnalysisPass, TypeOK
      <4>2. analysis'[d] # "not_started"
        BY <4>1, CaseAssumption
      <4> QED
        BY <1>1, <2>0, <4>1, <4>2 DEF CaseOK, Streaming
    <3>7. CASE Raise(d)
      BY <1>1, <2>0, <3>7 DEF Raise, CaseOK, Streaming, results, TypeOK
    <3> QED
      BY <1>12, <2>2, <3>1, <3>2, <3>3, <3>4, <3>5, <3>6, <3>7 DEF TaskStep
  <2> QED
    BY <2>1, <2>2
<1>13. CASE Over
  BY <1>1, <1>13 DEF Over, vars, loop, tasks, results, CaseOK, Streaming
<1> QED
  BY <1>3, <1>4, <1>5, <1>6, <1>7, <1>8, <1>9, <1>10, <1>11, <1>12, <1>13 DEF Next, MainStep

LEMMA CategoryStep ==
  ASSUME TypeOK, LoopInv, CaseInv, CategoryInv, Next, NEW d \in Case
  PROVE  CategoryOK(d)'
<1> USE DEF Queues, Working
<1>1. CaseOK(d) /\ CategoryOK(d)
  BY DEF CaseInv, CategoryInv
<1>2. /\ category[d] \in Category /\ collection[d] \in CollectionStatus
      /\ analysis[d] \in AnalysisStatus /\ metadata[d] \in MetadataStatus
  BY DEF TypeOK
<1>3. CASE ReuseAndStart
  <2>1. /\ stage = "reuse" /\ stage' = "collect" /\ category' = category
        /\ d \notin reused' => /\ collection'[d] = "not_started"
                               /\ analysis'[d] = "not_started"
                               /\ metadata'[d] = "none"
        /\ at'[d] \in {"collecting", "idle"}
    BY <1>3 DEF ReuseAndStart
  <2>2. d \notin reused /\ collection[d] = "not_started" /\ analysis[d] = "not_started"
    BY <1>1, <2>1 DEF CategoryOK, Streaming
  <2>3. category[d] = "none"
    BY <1>1, <2>1, <2>2 DEF CategoryOK, Streaming
  <2> QED
    BY <2>1, <2>3 DEF CategoryOK, Streaming
<1>4. ASSUME NEW c \in Case, Process(c)
      PROVE  CategoryOK(d)'
  <2>1. /\ stage = "collect" /\ stage' = "collect" /\ at[c] = "collected"
        /\ analysis' = analysis /\ reused' = reused /\ metadata' = metadata
        /\ at'[d] = CASE d = next /\ More(c) -> "collecting"
                      [] d = c -> AfterCollection(c)
                      [] OTHER -> at[d]
    BY <1>4 DEF Process
  <2>2. \/ collection' = collection /\ category' = category
        \/ /\ ~More(c)
           /\ \/ /\ collection'[d] = "skipped" /\ category'[d] = "skipped"
                 /\ at[d] = "idle" /\ d # c
              \/ collection'[d] = collection[d] /\ category'[d] = category[d]
    BY <1>1, <1>4, <2>1 DEF Process, SubmitNext, MarkUnsubmitted, Unsubmitted, More, CaseOK
  <2>3. d = next => at[d] = "idle" /\ (d \in reused \/ collection[d] = "not_started")
    BY <1>1 DEF CaseOK, Case
  <2> QED
    BY <1>1, <1>2, <2>1, <2>2, <2>3 DEF CategoryOK, CaseOK, AfterCollection, Streaming
<1>5. CASE EndCollect
  <2>1. /\ stage = "collect" /\ stage' = "analyse"
        /\ UNCHANGED <<category, collection, analysis, metadata, reused>>
        /\ at'[d] = at[d] \/ (at'[d] = "to_analyse" /\ collection[d] = "ok" /\ ~Streaming)
    BY <1>5 DEF EndCollect, results
  <2> QED
    BY <1>1, <1>2, <2>1 DEF CategoryOK, Streaming
<1>6. CASE EndAnalyse \/ EndMetrics
  <2>1. /\ stage \in {"analyse", "metrics"}
        /\ UNCHANGED <<category, collection, analysis, metadata, reused>>
        /\ stage' \in {"metrics", "metadata"}
        /\ \/ at'[d] = "idle"
           \/ at'[d] = "to_refresh" /\ analysis[d] = "ok"
           \/ at'[d] = "to_enrich" /\ analysis[d] = "ok" /\ stage' = "metadata"
    BY <1>6 DEF EndAnalyse, EndMetrics, Analysed, results
  <2>2. analysis[d] = "ok" => collection[d] = "ok"
    BY <1>1 DEF CaseOK
  <2> QED
    BY <1>1, <2>1, <2>2 DEF CategoryOK, Streaming
<1>7. CASE Wait \/ EndMetadata \/ Unwind \/ EndUnwind \/ Over
  <2>1. /\ UNCHANGED <<category, collection, analysis, metadata, reused>>
        /\ at'[d] \in {at[d], "idle"}
        /\ \/ stage' = stage
           \/ stage' = "unwinding" /\ stage # "reuse"
           \/ stage' \in {"done", "raised"} /\ at'[d] \notin Queues \cup Working
    BY <1>7 DEF Wait, EndMetadata, Unwind, EndUnwind, Over, Busy, vars, tasks, results
  <2> QED
    BY <1>1, <2>1 DEF CategoryOK, Streaming
<1>8. ASSUME NEW c \in Case, TaskStep(c)
      PROVE  CategoryOK(d)'
  <2>0. UNCHANGED <<stage, reused>>
    BY <1>8 DEF TaskStep, StartTask, CollectReused, Retry, Collect, Refresh, Analyse, Enrich,
                Raise, AnalysisPass
  <2>1. CASE d # c
    <3>1. /\ at'[d] = at[d] /\ collection'[d] = collection[d] /\ analysis'[d] = analysis[d]
          /\ category'[d] = category[d] /\ metadata'[d] = metadata[d]
      BY <1>8, <2>1 DEF TaskStep, StartTask, CollectReused, Retry, Collect, Refresh, Analyse,
                        Enrich, Raise, AnalysisPass, results, TypeOK
    <3> QED
      BY <1>1, <2>0, <3>1 DEF CategoryOK, Streaming
  <2>2. CASE d = c
    <3>1. CASE StartTask(d) \/ CollectReused(d) \/ Retry(d) \/ Refresh(d) \/ Raise(d)
      <4>1. /\ UNCHANGED <<category, collection, analysis, metadata>>
            /\ at'[d] \in Queues \cup Working => at[d] \in Queues \cup Working
            /\ at'[d] = "enriching" => at[d] \in {"to_enrich", "enriching"}
            /\ at'[d] # "to_enrich" \/ at[d] = "to_enrich"
            /\ at'[d] = "collected" => at[d] = "collected" \/ d \in reused
            /\ at[d] \in {"idle", "collecting", "collected", "raised"} =>
                 at'[d] \in {"idle", "collecting", "collected", "raised"}
        BY <3>1 DEF StartTask, CollectReused, Retry, Refresh, Raise, results, TypeOK
      <4> QED
        BY <1>1, <2>0, <4>1 DEF CategoryOK, Streaming
    <3>2. CASE Collect(d)
      <4>1. /\ at[d] = "collecting" /\ d \notin reused /\ at'[d] = "collected"
            /\ analysis' = analysis /\ metadata' = metadata
            /\ \/ collection'[d] = "ok" /\ category'[d] = category[d]
               \/ collection'[d] \in {"failed", "timeout"} /\ category'[d] # "none"
        BY <3>2 DEF Collect, StatusOf, CollectionCategory, TypeOK
      <4> QED
        BY <1>1, <2>0, <4>1 DEF CategoryOK, CaseOK, LoopInv, Streaming
    <3>3. CASE Analyse(d) \/ Enrich(d)
      <4>1. PICK r \in AnalysisResults, m \in MetadataStatus :
              /\ AnalysisPass(d, r, m)
              /\ at[d] \in {"analysing", "reanalysing", "enriching"}
              /\ m = metadata[d] \/ at[d] = "enriching"
        BY <1>2, <3>3 DEF Analyse, Enrich
      <4>2. r \in {"ok", "failed", "timeout"}
        BY CaseAssumption
      <4>3. /\ at'[d] = "idle" /\ collection' = collection
            /\ analysis'[d] = r /\ metadata'[d] = m
            /\ r # "ok" => category'[d] # "none"
            /\ r = "ok" => category'[d] = IF m = "failed" THEN "metadata" ELSE category[d]
        BY <4>1, <4>2 DEF AnalysisPass, TypeOK
      <4>4. collection[d] = "ok" /\ (at[d] = "enriching" => stage \in {"metadata", "unwinding"})
        BY <1>1, <4>1 DEF CaseOK, CategoryOK
      <4> QED
        BY <1>1, <2>0, <4>1, <4>2, <4>3, <4>4 DEF CategoryOK, Streaming
    <3> QED
      BY <1>8, <2>2, <3>1, <3>2, <3>3 DEF TaskStep
  <2> QED
    BY <2>1, <2>2
<1> QED
  BY <1>3, <1>4, <1>5, <1>6, <1>7, <1>8 DEF Next, MainStep

LEMMA Inductive == Spec => [](TypeOK /\ LoopInv /\ BudgetInv /\ CaseInv /\ CategoryInv)
<1>1. TypeOK /\ LoopInv /\ BudgetInv /\ CaseInv /\ CategoryInv /\ [Next]_vars
        => LoopInv' /\ BudgetInv' /\ CaseInv' /\ CategoryInv'
  <2> SUFFICES ASSUME TypeOK, LoopInv, BudgetInv, CaseInv, CategoryInv, [Next]_vars
               PROVE  CaseInv' /\ CategoryInv'
    BY LoopStep, BudgetStep
  <2>1. CASE Next
    BY <2>1, CaseStep, CategoryStep DEF CaseInv, CategoryInv, Case
  <2>2. CASE UNCHANGED vars
    <3>1. CaseInv'
      BY <2>2 DEF vars, loop, tasks, results, CaseInv, CaseOK, Streaming, Queues, Working,
                  AfterCollect, Case
    <3>2. CategoryInv'
      BY <2>2 DEF vars, loop, tasks, results, CategoryInv, CategoryOK, Queues, Working, Streaming,
                  Case
    <3> QED
      BY <3>1, <3>2
  <2> QED
    BY <2>1, <2>2
<1> QED
  BY <1>1, InitInv, CasesTypeCorrect, PTL DEF Spec

-----------------------------------------------------------------------------
(* The breaker's budget holds whatever order the futures complete in.      *)
THEOREM BreakerBoundsFailures == Spec => []FailureBudget
<1>1. TypeOK /\ BudgetInv => FailureBudget
  <2> SUFFICES ASSUME TypeOK, BudgetInv PROVE breaker.consecutive <= Bound + CmJobs - 1
    BY DEF FailureBudget, Bound
  <2>1. /\ breaker.consecutive \in Nat /\ breaker.tripped \in BOOLEAN
        /\ CmJobs \in Nat \ {0} /\ Bound \in Nat
    BY BoundType, CaseAssumption DEF TypeOK
  <2>2. Cardinality(outstanding) \in Nat
    BY OutstandingFinite
  <2> QED
    BY <2>1, <2>2 DEF BudgetInv
<1> QED
  BY <1>1, Inductive, PTL

(* No case is lost between the iterator, the futures and the pools.        *)
THEOREM NoCaseLost == Spec => []EveryCaseAnswered
<1>1. TypeOK /\ LoopInv /\ CaseInv => EveryCaseAnswered
  <2> SUFFICES ASSUME TypeOK, LoopInv, CaseInv, stage \in AfterCollect, NEW c \in Case
               PROVE  /\ collection[c] # "not_started"
                      /\ collection[c] = "skipped" => warned
                      /\ collection[c] = "ok" /\ stage # "analyse" =>
                           analysis[c] # "not_started"
    BY DEF EveryCaseAnswered, AfterCollect
  <2>1. c < next /\ c \notin outstanding /\ stage # "reuse"
    BY CaseAssumption DEF LoopInv, Case, AfterCollect
  <2> QED
    BY <2>1 DEF CaseInv, CaseOK, AfterCollect
<1> QED
  BY <1>1, Inductive, PTL

(* A case is called skipped only if no thread ever had it.                 *)
THEOREM SkippedWereNeverRun == Spec => []SkippedNeverRun
<1>1. CaseInv => SkippedNeverRun
  BY DEF CaseInv, CaseOK, SkippedNeverRun
<1> QED
  BY <1>1, Inductive, PTL

(* No pool thread outlives the batch, nor the exception that ends it.      *)
THEOREM PoolsDrain == Spec => []NothingLeftRunning
<1>1. CaseInv => NothingLeftRunning
  BY DEF CaseInv, CaseOK, NothingLeftRunning, Busy, Queues, Working
<1> QED
  BY <1>1, Inductive, PTL

(* When the batch is done the failure category of a case this batch        *)
(* collected says what its statuses say.                                   *)
THEOREM CategoryTellsOutcome == Spec => []FailureMatchesOutcome
<1>1. LoopInv /\ CaseInv /\ CategoryInv => FailureMatchesOutcome
  <2> SUFFICES ASSUME LoopInv, CaseInv, CategoryInv, stage = "done", NEW c \in Case \ reused
               PROVE  category[c] = "none" <=> /\ collection[c] = "ok"
                                               /\ analysis[c] = "ok"
                                               /\ metadata[c] # "failed"
    BY DEF FailureMatchesOutcome
  <2>1. c < next /\ c \notin outstanding /\ stage # "reuse"
    BY CaseAssumption DEF LoopInv, Case, AfterCollect
  <2>2. CaseOK(c) /\ CategoryOK(c)
    BY DEF CaseInv, CategoryInv
  <2>3. /\ collection[c] # "not_started"
        /\ collection[c] = "ok" => analysis[c] # "not_started"
    BY <2>1, <2>2 DEF CaseOK, AfterCollect
  <2> QED
    BY <2>2, <2>3 DEF CategoryOK
<1> QED
  BY <1>1, Inductive, PTL

=============================================================================
