------------------------ MODULE ProfileSummary_proofs ------------------------
(***************************************************************************)
(* Further proofs about ProfileWorkers: the summary table against the job  *)
(* table, what a step may not undo, and the order of a batch.  The worker, *)
(* collector and remediation steps are first reduced to the transactions   *)
(* they run, so that each proof has one step per transaction.              *)
(***************************************************************************)
EXTENDS ProfileWorkers_proofs

-----------------------------------------------------------------------------
(* The transactions.                                                       *)

(* The store transaction of a step, with what its caller guarantees.       *)
Transaction ==
  \/ UNCHANGED <<job, summary>>
  \/ UpsertSummaries(listed)
  \/ \E S \in SUBSET listed : col = "enqueue" /\ EnqueueProfileJobs(S)
  \/ \E S \in SUBSET Queries : \E owner, expiry :
       /\ \A q \in S : job[q].status \in {"pending", "leased"}
       /\ ClaimProfileJobs(S, owner, expiry)
  \/ \E q \in Queries : \E owner, expiry : RenewLease(q, owner, expiry)
  \/ \E q \in Queries : \E owner, statement, completedAt :
       CompleteProfileJob(q, owner, statement, completedAt)
  \/ \E q \in Queries, kind \in {"retry", "failed", "aged_out"} : \E owner, error :
       FailProfileJob(q, owner, kind, error)
  \/ \E S \in SUBSET Queries : RequeueFailedJobs(S)
  \/ \E cutoff, now : AgeOutProfileJobs(cutoff, now)

LEMMA FailureKindReported ==
  ASSUME TypeInv, NEW w \in Workers, pc[w] = "fail"
  PROVE  FailureKind(w) \in {"retry", "failed", "aged_out"}
BY DEF TypeInv, BatchShape, FailureKind

LEMMA WorkerTransaction ==
  ASSUME TypeInv, NEW w \in Workers, WorkerStep(w)
  PROVE  Transaction
<1>1. CASE AgeOut(w)
  BY <1>1 DEF AgeOut, Transaction
<1>2. CASE Claim(w)
  <2>1. PICK S \in SUBSET Queries : S = Selection(at[w], MaxJobs)
    BY DEF Selection
  <2>2. \A q \in S : job[q].status \in {"pending", "leased"}
    BY <2>1 DEF Selection, Claimable, Expired
  <2>3. ClaimProfileJobs(S, OwnerOf[w], at[w] + LeaseSeconds)
    BY <1>2, <2>1 DEF Claim
  <2> QED  BY <2>2, <2>3 DEF Transaction
<1>3. CASE Renew(w)
  <2>1. Current(w) \in Queries
    BY <1>3, CurrentType DEF Renew, InBatch
  <2> QED  BY <1>3, <2>1 DEF Renew, Transaction
<1>4. CASE Complete(w)
  <2>1. Current(w) \in Queries
    BY <1>4, CurrentType DEF Complete, InBatch
  <2> QED  BY <1>4, <2>1 DEF Complete, Transaction
<1>5. CASE Fail(w)
  <2>1. Current(w) \in Queries
    BY <1>5, CurrentType DEF Fail, InBatch
  <2>2. PICK kind \in {"retry", "failed", "aged_out"} : kind = FailureKind(w)
    BY <1>5, FailureKindReported DEF Fail
  <2>3. FailProfileJob(Current(w), OwnerOf[w], kind, FailureCode(w))
    BY <1>5, <2>2 DEF Fail
  <2> QED  BY <2>1, <2>3 DEF Transaction
<1>6. CASE StoreCache(w) \/ StoreArtifact(w)
  BY <1>6 DEF StoreCache, StoreArtifact, StoreAnalysisCache, StoreProfileArtifact,
              Transaction
<1>7. CASE WorkerFault(w)
  BY <1>7 DEF WorkerFault, AgeOutError, ClaimError, StoreError, Crash, tables,
              Transaction
<1>8. CASE \/ StartRun(w) \/ RejectRow(w)
           \/ RenewLeaseLost(w) \/ CompleteLeaseLost(w) \/ FailLeaseLost(w)
           \/ \E print \in Prints : ProcessCompleted(w, print)
           \/ \E kind \in {"retry", "failed", "aged_out"} : ProcessFailed(w, kind)
  BY <1>8 DEF StartRun, RejectRow, RenewLeaseLost, CompleteLeaseLost,
     FailLeaseLost, ProcessCompleted, ProcessFailed, tables, Transaction
<1> QED
  BY <1>1, <1>2, <1>3, <1>4, <1>5, <1>6, <1>7, <1>8 DEF WorkerStep, RunStep

LEMMA StepTransaction ==
  ASSUME TypeInv, [Next]_vars
  PROVE  Transaction
<1>1. CASE UNCHANGED vars
  BY <1>1 DEF vars, tables, Transaction
<1>2. CASE \E w \in Workers : WorkerStep(w)
  BY <1>2, WorkerTransaction
<1>3. CASE Tick \/ PersistError \/ EnqueueError \/ \E S \in SUBSET Queries : Discover(S)
  BY <1>3 DEF Tick, PersistError, EnqueueError, Discover, tables, Transaction
<1>4. CASE Persist
  BY <1>4 DEF Persist, Transaction
<1>5. CASE \E S \in SUBSET Queries : Enqueue(S)
  BY <1>5 DEF Enqueue, Transaction
<1>6. CASE \E S \in SUBSET Queries : Remediate(S)
  BY <1>6 DEF Remediate, Transaction
<1> QED  BY <1>1, <1>2, <1>3, <1>4, <1>5, <1>6 DEF Next, CollectorStep

-----------------------------------------------------------------------------
(* The summary tracks the job.                                             *)

(* Without faults every query the collector enqueues has its summary row.  *)
PersistedFirst ==
  MaxFaults = 0 => /\ faults = 0
                   /\ col = "enqueue" => \A q \in listed : summary[q] # "absent"

TrackInv == SummaryTracksJob /\ PersistedFirst

(* A summary row, once there, stays.                                       *)
LEMMA RowsStay ==
  ASSUME StoreTypeOK, Transaction, NEW q \in Queries, summary[q] # "absent"
  PROVE  summary'[q] # "absent"
<1>1. \A S : \A new \in SummaryStatus \ {"absent"} :
        SetStatus(S, new) => summary'[q] # "absent"
  BY DEF StoreTypeOK, SetStatus, Progress
<1> QED
  BY <1>1 DEF Transaction, UpsertSummaries, EnqueueProfileJobs, ClaimProfileJobs,
     RenewLease, CompleteProfileJob, FailProfileJob, RequeueFailedJobs,
     AgeOutProfileJobs, SummaryStatus, StoreTypeOK

Tracks(q) == summary[q] \in Tracking(job[q].status) \cup Lagging

(* Each transaction keeps the two rows of a query together.                *)
LEMMA TracksKept ==
  ASSUME StoreTypeOK, TrackInv, Transaction, NEW q \in Queries
  PROVE  Tracks(q)'
<1> USE DEF Tracks, Tracking, Lagging
<1>1. Tracks(q) /\ job[q] \in JobRow /\ summary[q] \in SummaryStatus
  BY DEF TrackInv, SummaryTracksJob, StoreTypeOK
<1>2. CASE UNCHANGED <<job, summary>>
  BY <1>1, <1>2
<1>3. CASE UpsertSummaries(listed)
  BY <1>1, <1>3 DEF UpsertSummaries, JobRow, JobStatus
<1>4. CASE \E S \in SUBSET listed : col = "enqueue" /\ EnqueueProfileJobs(S)
  <2>1. PICK S \in SUBSET listed : col = "enqueue" /\ EnqueueProfileJobs(S)
    BY <1>4
  <2>2. q \notin S => job'[q] = job[q] /\ summary'[q] = summary[q]
    BY <2>1 DEF EnqueueProfileJobs, SetStatus
  <2>3. q \in S => /\ job[q].status = "absent" => job'[q].status = "pending"
                   /\ job[q].status # "absent" => job'[q] = job[q]
                   /\ summary'[q] = Progress(summary[q], "pending")
                   /\ MaxFaults = 0 => summary[q] # "absent"
    BY <2>1 DEF EnqueueProfileJobs, SetStatus, NoJob, TrackInv, PersistedFirst
  <2> QED  BY <1>1, <2>2, <2>3 DEF Progress, JobRow, JobStatus, SummaryStatus
<1>5. CASE \E S \in SUBSET Queries : \E owner, expiry :
             /\ \A p \in S : job[p].status \in {"pending", "leased"}
             /\ ClaimProfileJobs(S, owner, expiry)
  <2>1. PICK S \in SUBSET Queries :
             /\ \A p \in S : job[p].status \in {"pending", "leased"}
             /\ \E owner, expiry : ClaimProfileJobs(S, owner, expiry)
    BY <1>5
  <2>2. q \notin S => job'[q] = job[q] /\ summary'[q] = summary[q]
    BY <2>1 DEF ClaimProfileJobs, SetStatus
  <2>3. q \in S => /\ job[q].status \in {"pending", "leased"}
                   /\ job'[q].status = "leased"
                   /\ summary'[q] = Progress(summary[q], "processing")
    BY <2>1 DEF ClaimProfileJobs, SetStatus
  <2> QED  BY <1>1, <2>2, <2>3 DEF Progress, SummaryStatus
<1>6. CASE \E p \in Queries : \E owner, expiry : RenewLease(p, owner, expiry)
  BY <1>1, <1>6 DEF RenewLease, StoreTypeOK, JobRow
<1>7. CASE \E p \in Queries : \E owner, statement, completedAt :
             CompleteProfileJob(p, owner, statement, completedAt)
  <2>1. PICK p \in Queries :
             \E owner, statement, completedAt : CompleteProfileJob(p, owner, statement, completedAt)
    BY <1>7
  <2>2. q # p => job'[q] = job[q] /\ summary'[q] = summary[q]
    BY <2>1 DEF CompleteProfileJob, SetStatus, StoreTypeOK
  <2>3. q = p => /\ job[q].status = "leased"
                 /\ job'[q].status = "completed"
                 /\ summary'[q] = Progress(summary[q], "analyzed")
    BY <2>1 DEF CompleteProfileJob, SetStatus, MayComplete, Holds, StoreTypeOK, Unleased
  <2> QED  BY <1>1, <2>2, <2>3 DEF Progress, SummaryStatus
<1>8. CASE \E p \in Queries, kind \in {"retry", "failed", "aged_out"} : \E owner, error :
             FailProfileJob(p, owner, kind, error)
  <2>1. PICK p \in Queries, kind \in {"retry", "failed", "aged_out"} :
             \E owner, error : FailProfileJob(p, owner, kind, error)
    BY <1>8
  <2>2. q # p => job'[q] = job[q] /\ summary'[q] = summary[q]
    BY <2>1 DEF FailProfileJob, SetStatus, StoreTypeOK
  <2>3. q = p => /\ job[q].status = "leased"
                 /\ job'[q].status = NextJobStatus(kind)
                 /\ summary'[q] = Progress(summary[q],
                                    IF kind = "retry" THEN "retry_pending" ELSE "failed")
    BY <2>1 DEF FailProfileJob, SetStatus, Holds, StoreTypeOK, Unleased
  <2> QED  BY <1>1, <2>2, <2>3 DEF Progress, SummaryStatus, NextJobStatus
<1>9. CASE \E S \in SUBSET Queries : RequeueFailedJobs(S)
  <2>1. PICK S \in SUBSET Queries : RequeueFailedJobs(S)
    BY <1>9
  <2>2. q \notin S => job'[q] = job[q] /\ summary'[q] = summary[q]
    BY <2>1 DEF RequeueFailedJobs
  <2>3. q \in S => /\ job[q].status = "failed"
                   /\ job'[q].status = "pending"
                   /\ summary'[q] = IF summary[q] = "failed" THEN "pending" ELSE summary[q]
    BY <2>1 DEF RequeueFailedJobs, Failed, NoJob
  <2> QED  BY <1>1, <2>2, <2>3
<1>10. CASE \E cutoff, now : AgeOutProfileJobs(cutoff, now)
  <2>1. PICK cutoff, now : AgeOutProfileJobs(cutoff, now)
    BY <1>10
  <2> DEFINE S == Overdue(cutoff, now)
  <2>2. q \notin S => job'[q] = job[q] /\ summary'[q] = summary[q]
    BY <2>1 DEF AgeOutProfileJobs
  <2>3. q \in S => /\ job[q].status \in {"pending", "leased"}
                   /\ job'[q].status = "aged_out"
                   /\ summary'[q] = IF summary[q] \in Waiting THEN "failed" ELSE summary[q]
    BY <2>1 DEF AgeOutProfileJobs, Unleased, Overdue, Claimable, Expired
  <2> HIDE DEF S
  <2> QED  BY <1>1, <2>2, <2>3 DEF Waiting
<1> QED
  BY <1>2, <1>3, <1>4, <1>5, <1>6, <1>7, <1>8, <1>9, <1>10 DEF Transaction

LEMMA PersistedFirstStep ==
  ASSUME TypeInv, TrackInv, [Next]_vars
  PROVE  PersistedFirst'
<1> SUFFICES ASSUME MaxFaults = 0
             PROVE  /\ faults' = 0
                    /\ col' = "enqueue" => \A q \in listed' : summary'[q] # "absent"
  BY DEF PersistedFirst
<1>1. faults = 0 /\ (col = "enqueue" => \A q \in listed : summary[q] # "absent")
  BY DEF TrackInv, PersistedFirst
<1>2. listed \subseteq Queries /\ StoreTypeOK
  BY DEF TypeInv, TypeOK
<1>3. Transaction
  BY StepTransaction
<1>4. CASE UNCHANGED <<faults, col, listed>>
  BY <1>1, <1>2, <1>3, <1>4, RowsStay
<1>5. CASE \E S \in SUBSET Queries : Discover(S) \/ Enqueue(S)
  BY <1>1, <1>5 DEF Discover, Enqueue, NoFault
<1>6. CASE Persist
  BY <1>1, <1>2, <1>6 DEF Persist, UpsertSummaries, NoFault
<1>7. ~Fault
  BY <1>1 DEF Fault
<1>8. CASE \E w \in Workers : WorkerStep(w)
  <2>1. ASSUME NEW w \in Workers, WorkerFault(w)
        PROVE  FALSE
    BY <1>7, <2>1 DEF WorkerFault, AgeOutError, ClaimError, StoreError, Crash
  <2> QED
    BY <1>4, <1>8, <2>1 DEF WorkerStep, RunStep, StartRun, AgeOut, Claim, Renew,
       RenewLeaseLost, ProcessCompleted, ProcessFailed, StoreCache, StoreArtifact,
       RejectRow, Complete, CompleteLeaseLost, Fail, FailLeaseLost, NoFault, collector
<1>9. CASE Tick \/ (\E S \in SUBSET Queries : Remediate(S)) \/ UNCHANGED vars
  BY <1>4, <1>9 DEF Tick, Remediate, NoFault, vars, collector
<1>10. CASE PersistError \/ EnqueueError
  BY <1>7, <1>10 DEF PersistError, EnqueueError
<1> QED  BY <1>5, <1>6, <1>8, <1>9, <1>10 DEF Next, CollectorStep

LEMMA TrackInit == Init => TrackInv
BY DEF Init, StoreInit, TrackInv, SummaryTracksJob, Tracking, NoJob, PersistedFirst

LEMMA TrackStep == TypeInv /\ TrackInv /\ [Next]_vars => TrackInv'
<1> SUFFICES ASSUME TypeInv, TrackInv, [Next]_vars PROVE TrackInv'
  OBVIOUS
<1>1. StoreTypeOK /\ Transaction
  BY StepTransaction DEF TypeInv, TypeOK
<1>2. \A q \in Queries : Tracks(q)'
  BY <1>1, TracksKept
<1> QED  BY <1>2, PersistedFirstStep DEF TrackInv, SummaryTracksJob, Tracks

LEMMA TrackInvariant == Spec => []TrackInv
BY TypeInvariant, TrackInit, TrackStep, PTL DEF Spec

(* The summary row a reader sees agrees with the row of the job, exactly   *)
(* when no storage error ever struck, and up to the rows an error kept     *)
(* from being written otherwise (sqlite_history_store.py and               *)
(* postgres_history_store.py, the profile_status updates).                 *)
THEOREM SummaryFollowsJob == Spec => []SummaryTracksJob
<1>1. TrackInv => SummaryTracksJob
  BY DEF TrackInv
<1> QED  BY <1>1, TrackInvariant, PTL

-----------------------------------------------------------------------------
(* What is settled stays.                                                  *)

Settled(q) ==
  /\ job[q].status \in {"completed", "aged_out"} => job'[q] = job[q]
  /\ job[q].status = "failed" /\ job'[q] # job[q] =>
       job'[q] = [NoJob EXCEPT !.status = "pending"]
  /\ summary[q] = "analyzed" => summary'[q] = "analyzed"

(* The row of a finished job is touched by the requeue of failed jobs and  *)
(* by nothing else.                                                        *)
LEMMA FinishedJob ==
  ASSUME StoreTypeOK, Transaction, NEW q \in Queries, job[q].status \in Terminal
  PROVE  \/ job'[q] = job[q]
         \/ job[q].status = "failed" /\ job'[q] = [NoJob EXCEPT !.status = "pending"]
<1> USE DEF Terminal
<1>1. CASE UNCHANGED <<job, summary>> \/ UpsertSummaries(listed)
  BY <1>1 DEF UpsertSummaries
<1>2. CASE \E S \in SUBSET listed : col = "enqueue" /\ EnqueueProfileJobs(S)
  BY <1>2 DEF EnqueueProfileJobs
<1>3. CASE \E S \in SUBSET Queries : \E owner, expiry :
             /\ \A p \in S : job[p].status \in {"pending", "leased"}
             /\ ClaimProfileJobs(S, owner, expiry)
  BY <1>3 DEF ClaimProfileJobs
<1>4. CASE \E p \in Queries : \E owner, expiry : RenewLease(p, owner, expiry)
  BY <1>4 DEF RenewLease, Holds, StoreTypeOK
<1>5. CASE \E p \in Queries : \E owner, statement, completedAt :
             CompleteProfileJob(p, owner, statement, completedAt)
  BY <1>5 DEF CompleteProfileJob, MayComplete, Holds, StoreTypeOK
<1>6. CASE \E p \in Queries, kind \in {"retry", "failed", "aged_out"} :
             \E owner, error : FailProfileJob(p, owner, kind, error)
  BY <1>6 DEF FailProfileJob, Holds, StoreTypeOK
<1>7. CASE \E S \in SUBSET Queries : RequeueFailedJobs(S)
  BY <1>7 DEF RequeueFailedJobs, Failed
<1>8. CASE \E cutoff, now : AgeOutProfileJobs(cutoff, now)
  BY <1>8 DEF AgeOutProfileJobs, Overdue, Claimable, Expired
<1> QED
  BY <1>1, <1>2, <1>3, <1>4, <1>5, <1>6, <1>7, <1>8 DEF Transaction

(* An analyzed summary belongs to a completed job, and the statements that *)
(* would move it away from analyzed select no such job.                    *)
LEMMA AnalyzedStays ==
  ASSUME StoreTypeOK, Transaction, NEW q \in Queries,
         summary[q] = "analyzed", job[q].status = "completed"
  PROVE  summary'[q] = "analyzed"
<1>1. CASE UNCHANGED <<job, summary>>
  BY <1>1
<1>2. CASE UpsertSummaries(listed)
  BY <1>2 DEF UpsertSummaries
<1>3. CASE \E S \in SUBSET listed : col = "enqueue" /\ EnqueueProfileJobs(S)
  BY <1>3 DEF EnqueueProfileJobs, SetStatus, Progress
<1>4. CASE \E S \in SUBSET Queries : \E owner, expiry :
             /\ \A p \in S : job[p].status \in {"pending", "leased"}
             /\ ClaimProfileJobs(S, owner, expiry)
  BY <1>4 DEF ClaimProfileJobs, SetStatus
<1>5. CASE \E p \in Queries : \E owner, expiry : RenewLease(p, owner, expiry)
  BY <1>5 DEF RenewLease
<1>6. CASE \E p \in Queries : \E owner, statement, completedAt :
             CompleteProfileJob(p, owner, statement, completedAt)
  BY <1>6 DEF CompleteProfileJob, MayComplete, Holds, SetStatus
<1>7. CASE \E p \in Queries, kind \in {"retry", "failed", "aged_out"} :
             \E owner, error : FailProfileJob(p, owner, kind, error)
  BY <1>7 DEF FailProfileJob, Holds, SetStatus
<1>8. CASE \E S \in SUBSET Queries : RequeueFailedJobs(S)
  BY <1>8 DEF RequeueFailedJobs
<1>9. CASE \E cutoff, now : AgeOutProfileJobs(cutoff, now)
  BY <1>9 DEF AgeOutProfileJobs, Waiting
<1> QED
  BY <1>1, <1>2, <1>3, <1>4, <1>5, <1>6, <1>7, <1>8, <1>9 DEF Transaction

LEMMA SettledStep ==
  TypeInv /\ TrackInv /\ [Next]_vars => [\A q \in Queries : Settled(q)]_vars
<1> SUFFICES ASSUME TypeInv, TrackInv, [Next]_vars, NEW q \in Queries
             PROVE  Settled(q)
  OBVIOUS
<1>1. StoreTypeOK /\ Transaction
  BY StepTransaction DEF TypeInv, TypeOK
<1>2. job[q].status \in Terminal =>
        \/ job'[q] = job[q]
        \/ job[q].status = "failed" /\ job'[q] = [NoJob EXCEPT !.status = "pending"]
  BY <1>1, FinishedJob
<1>3. summary[q] = "analyzed" => job[q].status = "completed"
  BY DEF TrackInv, SummaryTracksJob, Tracking, Lagging
<1>4. summary[q] = "analyzed" => summary'[q] = "analyzed"
  BY <1>1, <1>3, AnalyzedStays
<1> QED  BY <1>2, <1>4 DEF Settled, Terminal

(* No statement of any process reopens what is settled, except the         *)
(* operator's requeue of a failed job: not a late enqueue of the same      *)
(* query, not a worker that lost its lease, not aging out.                 *)
THEOREM SettledForGood == Spec => SettledStays
<1>1. [\A q \in Queries : Settled(q)]_vars <=>
      [\A q \in Queries :
         /\ job[q].status \in {"completed", "aged_out"} => job'[q] = job[q]
         /\ job[q].status = "failed" /\ job'[q] # job[q] =>
              job'[q] = [NoJob EXCEPT !.status = "pending"]
         /\ summary[q] = "analyzed" => summary'[q] = "analyzed"]_vars
  BY DEF Settled
<1> QED
  BY <1>1, TypeInvariant, TrackInvariant, SettledStep, PTL DEF Spec, SettledStays

-----------------------------------------------------------------------------
(* The order of a batch.                                                   *)

Freshest(w) ==
  \A i, j \in DOMAIN todo[w] :
    LET p == todo[w][i].query
        q == todo[w][j].query
    IN  i < j /\ Priority[p] = Priority[q] => EndTime[p] >= EndTime[q]

LEMMA FreshestTail ==
  ASSUME TypeInv, NEW w \in Workers, InBatch(w), NextJob(w), Freshest(w)
  PROVE  Freshest(w)'
<1>1. /\ todo \in [Workers -> Seq(Claimed)]
      /\ todo[w] \in Seq(Claimed) /\ todo[w] # <<>>
  BY DEF TypeInv, TypeOK, BatchShape
<1>2. todo'[w] = Tail(todo[w])
  BY <1>1 DEF NextJob
<1>3. PICK n \in Nat : n = Len(todo[w]) /\ n > 0 /\ DOMAIN todo[w] = 1..n
  BY <1>1, LenProperties, EmptySeq
<1>4. /\ DOMAIN todo'[w] = 1..(n - 1)
      /\ \A i \in 1..(n - 1) : todo'[w][i] = todo[w][i + 1]
  BY <1>1, <1>2, <1>3, HeadTailProperties
<1>5. \A i \in 1..(n - 1) : i + 1 \in 1..n
  BY <1>3
<1>6. SUFFICES ASSUME NEW i \in 1..(n - 1), NEW j \in 1..(n - 1), i < j,
                      Priority[todo'[w][i].query] = Priority[todo'[w][j].query]
               PROVE  EndTime[todo'[w][i].query] >= EndTime[todo'[w][j].query]
  BY <1>4 DEF Freshest
<1>7. /\ i + 1 \in DOMAIN todo[w] /\ j + 1 \in DOMAIN todo[w] /\ i + 1 < j + 1
      /\ todo'[w][i] = todo[w][i + 1] /\ todo'[w][j] = todo[w][j + 1]
  BY <1>3, <1>4, <1>5, <1>6
<1> QED  BY <1>6, <1>7 DEF Freshest

LEMMA FreshestClaim ==
  ASSUME Backend = "sqlite", TypeInv, NEW w \in Workers, Claim(w)
  PROVE  Freshest(w)'
<1>1. PICK S \in SUBSET Queries : S = Selection(at[w], MaxJobs)
  BY DEF Selection
<1>2. PICK s \in Returned(S) : todo' = [todo EXCEPT ![w] = Batch(s)]
  BY <1>1 DEF Claim
<1>3. todo'[w] = Batch(s)
  BY <1>2 DEF TypeInv, TypeOK
<1>4. job \in [Queries -> JobRow]
  BY DEF TypeInv, TypeOK, StoreTypeOK
<1>5. PICK n \in Nat : n = Cardinality(S)
  BY StoreAssumption, FS_Subset, FS_CardinalityType
<1>6. /\ s \in [1..n -> S]
      /\ \A i, j \in 1..n : i < j => ReturnedBefore(s[i], s[j])
  BY <1>5 DEF Returned
<1>7. /\ DOMAIN todo'[w] = 1..n
      /\ \A i \in 1..n : todo'[w][i].query = s[i] /\ s[i] \in Queries
  BY <1>3, <1>6 DEF Batch
<1>8. \A p, q \in Queries :
        ReturnedBefore(p, q) /\ Priority[p] = Priority[q] => EndTime[p] >= EndTime[q]
  BY StoreAssumption DEF ReturnedBefore, SelectedBefore
<1> QED  BY <1>6, <1>7, <1>8 DEF Freshest

LEMMA FreshestStep ==
  ASSUME Backend = "sqlite", TypeInv, FreshestFirst, [Next]_vars
  PROVE  FreshestFirst'
<1> SUFFICES ASSUME NEW w \in Workers PROVE Freshest(w)'
  BY DEF FreshestFirst, Freshest
<1>1. Freshest(w)
  BY DEF FreshestFirst, Freshest
<1>2. CASE todo'[w] = todo[w]
  BY <1>1, <1>2 DEF Freshest
<1>3. CASE todo'[w] = <<>>
  BY <1>3 DEF Freshest
<1>4. CASE Claim(w)
  BY <1>4, FreshestClaim
<1>5. CASE InBatch(w) /\ NextJob(w)
  BY <1>1, <1>5, FreshestTail
<1>6. todo \in [Workers -> Seq(Claimed)]
  BY DEF TypeInv, TypeOK
<1>7. ASSUME NEW v \in Workers, WorkerStep(v), v # w
      PROVE  todo'[w] = todo[w]
  BY <1>7, OtherWorkers
<1>8. ASSUME WorkerStep(w)
      PROVE  \/ todo'[w] = todo[w]
             \/ todo'[w] = <<>>
             \/ Claim(w)
             \/ InBatch(w) /\ NextJob(w)
  BY <1>6, <1>8 DEF WorkerStep, RunStep, WorkerFault, StartRun, AgeOut,
     AgeOutError, ClaimError, Renew, RenewLeaseLost, ProcessCompleted,
     ProcessFailed, StoreCache, StoreArtifact, RejectRow, Complete,
     CompleteLeaseLost, Fail, FailLeaseLost, StoreError, Crash, InBatch
<1>9. CASE \/ Tick \/ CollectorStep \/ UNCHANGED vars
           \/ \E S \in SUBSET Queries : Remediate(S)
  <2>1. UNCHANGED todo
    BY <1>9 DEF Tick, CollectorStep, Discover, Enqueue, Persist, PersistError,
       EnqueueError, Remediate, vars, procs
  <2> QED  BY <2>1, <1>2
<1> QED  BY <1>2, <1>3, <1>4, <1>5, <1>7, <1>8, <1>9 DEF Next

LEMMA FreshestInit == Init => FreshestFirst
BY DEF Init, FreshestFirst

(* On SQLite a batch lists jobs of equal priority from the freshest to the *)
(* oldest, from the claim to its last job.  PostgreSQL is the other branch *)
(* of ReturnedBefore, where a run finds the order reversed.                *)
THEOREM BatchOrderOnSqlite ==
  ASSUME Backend = "sqlite"
  PROVE  Spec => []FreshestFirst
BY FreshestInit, FreshestStep, TypeInvariant, PTL DEF Spec

=============================================================================
