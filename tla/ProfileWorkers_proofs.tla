------------------------ MODULE ProfileWorkers_proofs ------------------------
(***************************************************************************)
(* Proofs about ProfileWorkers, for any number of workers, queries and     *)
(* fingerprints, any lease length, batch size, retry budget and clock.     *)
(***************************************************************************)
EXTENDS ProfileWorkers, SequenceTheorems, FiniteSetTheorems, TLAPS

-----------------------------------------------------------------------------
(* Every store transaction keeps the tables well typed. *)

LEMMA SetStatusType ==
  ASSUME StoreTypeOK, NEW S, NEW new \in SummaryStatus, SetStatus(S, new)
  PROVE  summary' \in [Queries -> SummaryStatus]
BY DEF StoreTypeOK, SetStatus, Progress

LEMMA UnleasedType ==
  ASSUME StoreTypeOK, NEW q \in Queries,
         NEW status \in JobStatus, NEW error \in ErrorCode
  PROVE  Unleased(job[q], status, error) \in JobRow
BY DEF StoreTypeOK, Unleased, JobRow

LEMMA NoJobType == NoJob \in JobRow /\ [NoJob EXCEPT !.status = "pending"] \in JobRow
BY DEF NoJob, JobRow, JobStatus, ErrorCode

LEMMA UpsertType ==
  ASSUME StoreTypeOK, NEW S, UpsertSummaries(S)
  PROVE  StoreTypeOK'
BY DEF StoreTypeOK, UpsertSummaries, SummaryStatus

LEMMA EnqueueType ==
  ASSUME StoreTypeOK, NEW S, EnqueueProfileJobs(S)
  PROVE  StoreTypeOK'
<1>1. summary' \in [Queries -> SummaryStatus]
  BY SetStatusType DEF EnqueueProfileJobs, SummaryStatus
<1>2. job' \in [Queries -> JobRow]
  BY NoJobType DEF StoreTypeOK, EnqueueProfileJobs
<1> QED  BY <1>1, <1>2 DEF StoreTypeOK, EnqueueProfileJobs

LEMMA ClaimType ==
  ASSUME StoreTypeOK, NEW S, NEW owner \in Owners, NEW expiry \in Nat,
         ClaimProfileJobs(S, owner, expiry)
  PROVE  StoreTypeOK'
<1>1. summary' \in [Queries -> SummaryStatus]
  BY SetStatusType DEF ClaimProfileJobs, SummaryStatus
<1>2. job' \in [Queries -> JobRow]
  BY DEF StoreTypeOK, ClaimProfileJobs, JobRow, JobStatus
<1> QED  BY <1>1, <1>2 DEF StoreTypeOK, ClaimProfileJobs

LEMMA RenewType ==
  ASSUME StoreTypeOK, NEW q \in Queries, NEW owner, NEW expiry \in Nat,
         RenewLease(q, owner, expiry)
  PROVE  StoreTypeOK'
BY DEF StoreTypeOK, RenewLease, JobRow

LEMMA CompleteType ==
  ASSUME StoreTypeOK, NEW q \in Queries, NEW owner, NEW completedAt,
         NEW statement \in Statements \cup {NoStatement},
         CompleteProfileJob(q, owner, statement, completedAt)
  PROVE  StoreTypeOK'
<1>1. summary' \in [Queries -> SummaryStatus]
  BY SetStatusType DEF CompleteProfileJob, SummaryStatus
<1>2. job' \in [Queries -> JobRow]
  <2>1. Unleased(job[q], "completed", "none") \in JobRow
    BY UnleasedType DEF JobStatus, ErrorCode
  <2> QED  BY <2>1 DEF StoreTypeOK, CompleteProfileJob
<1>3. identity' \in [Queries -> Statements \cup {NoStatement}]
  BY DEF StoreTypeOK, CompleteProfileJob, Promoted
<1> QED  BY <1>1, <1>2, <1>3 DEF StoreTypeOK, CompleteProfileJob

LEMMA FailType ==
  ASSUME StoreTypeOK, NEW q \in Queries, NEW owner,
         NEW kind, NEW error \in ErrorCode,
         FailProfileJob(q, owner, kind, error)
  PROVE  StoreTypeOK'
<1>1. summary' \in [Queries -> SummaryStatus]
  BY SetStatusType DEF FailProfileJob, SummaryStatus
<1>2. job' \in [Queries -> JobRow]
  <2>1. NextJobStatus(kind) \in JobStatus
    BY DEF NextJobStatus, JobStatus
  <2>2. Unleased(job[q], NextJobStatus(kind), error) \in JobRow
    BY <2>1, UnleasedType
  <2> QED  BY <2>2 DEF StoreTypeOK, FailProfileJob
<1> QED  BY <1>1, <1>2 DEF StoreTypeOK, FailProfileJob

LEMMA RequeueType ==
  ASSUME StoreTypeOK, NEW S, RequeueFailedJobs(S)
  PROVE  StoreTypeOK'
<1>1. job' \in [Queries -> JobRow]
  BY NoJobType DEF StoreTypeOK, RequeueFailedJobs
<1> QED  BY <1>1 DEF StoreTypeOK, RequeueFailedJobs, SummaryStatus

LEMMA AgeOutType ==
  ASSUME StoreTypeOK, NEW cutoff, NEW now, AgeOutProfileJobs(cutoff, now)
  PROVE  StoreTypeOK'
<1> DEFINE S == Overdue(cutoff, now)
<1>1. job' = [q \in Queries |->
                IF q \in S THEN Unleased(job[q], "aged_out", "profile_aged_out")
                ELSE job[q]]
  BY DEF AgeOutProfileJobs
<1>2. \A q \in Queries : Unleased(job[q], "aged_out", "profile_aged_out") \in JobRow
  BY UnleasedType DEF JobStatus, ErrorCode
<1>3. job' \in [Queries -> JobRow]
  BY <1>1, <1>2 DEF StoreTypeOK
<1> QED  BY <1>3 DEF StoreTypeOK, AgeOutProfileJobs, SummaryStatus

-----------------------------------------------------------------------------
(* Type correctness, together with the shape of a worker between two of    *)
(* its transactions.                                                       *)

TypeInv == TypeOK /\ BatchShape

(* Sequences: what a claim returns, and what going on to the next job does. *)

LEMMA FunctionIsSeq ==
  ASSUME NEW n \in Nat, NEW T, NEW f \in [1..n -> T]
  PROVE  f \in Seq(T) /\ Len(f) = n /\ (f = <<>> <=> n = 0)
BY EmptySeq

LEMMA ClaimedBatch ==
  ASSUME job \in [Queries -> JobRow],
         NEW S \in SUBSET Queries, NEW s \in Returned(S)
  PROVE  /\ Batch(s) \in Seq(Claimed)
         /\ Batch(s) = <<>> <=> S = {}
         /\ \A i \in DOMAIN Batch(s) : s[i] \in S /\ i \in DOMAIN s
<1>1. IsFiniteSet(S)
  BY StoreAssumption, FS_Subset
<1>2. PICK n \in Nat : n = Cardinality(S) /\ (n = 0 <=> S = {})
  BY <1>1, FS_CardinalityType, FS_EmptySet
<1>3. s \in [1..n -> S]
  BY <1>2 DEF Returned
<1>4. Batch(s) \in [1..n -> Claimed]
  BY <1>2, <1>3 DEF Batch, Claimed, JobRow
<1>5. Batch(s) \in Seq(Claimed) /\ (Batch(s) = <<>> <=> n = 0)
  BY <1>4, FunctionIsSeq
<1> QED  BY <1>2, <1>3, <1>4, <1>5

LEMMA NextJobShape ==
  ASSUME TypeInv, NEW w \in Workers, InBatch(w), NextJob(w), UNCHANGED clock
  PROVE  /\ pc' \in [Workers -> WorkerPc]
         /\ at' \in [Workers -> Nat]
         /\ todo' \in [Workers -> Seq(Claimed)]
         /\ out' \in [Workers -> Outcome]
         /\ BatchShape'
<1>1. todo[w] \in Seq(Claimed) /\ todo[w] # <<>>
  BY DEF TypeInv, TypeOK, BatchShape
<1>2. Tail(todo[w]) \in Seq(Claimed) /\ (Tail(todo[w]) = <<>> <=> Len(todo[w]) = 1)
  <2>1. /\ Tail(todo[w]) \in Seq(Claimed)
        /\ Len(Tail(todo[w])) = Len(todo[w]) - 1
    BY <1>1, HeadTailProperties
  <2>2. /\ Len(todo[w]) \in Nat
        /\ Tail(todo[w]) = <<>> <=> Len(Tail(todo[w])) = 0
    BY <1>1, <2>1, LenProperties, EmptySeq
  <2> QED  BY <2>1, <2>2
<1>3. /\ pc' = [pc EXCEPT ![w] = IF Len(todo[w]) = 1 THEN "idle" ELSE "renew"]
      /\ at' = [at EXCEPT ![w] = IF Len(todo[w]) = 1 THEN 0 ELSE clock]
      /\ todo' = [todo EXCEPT ![w] = Tail(todo[w])]
      /\ out' = [out EXCEPT ![w] = NoOutcome]
  BY DEF NextJob, GoTo
<1>4. NoOutcome \in Outcome
  BY DEF NoOutcome, Outcome, OutcomeKind
<1>5. BatchShape'
  BY <1>2, <1>3 DEF BatchShape, InBatch, TypeInv, TypeOK
<1> QED  BY <1>2, <1>3, <1>4, <1>5 DEF TypeInv, TypeOK, WorkerPc

LEMMA CurrentType ==
  ASSUME TypeInv, NEW w \in Workers, InBatch(w)
  PROVE  /\ Head(todo[w]) \in Claimed
         /\ Current(w) \in Queries
         /\ ClaimedAttempts(w) \in Nat
<1>1. todo[w] \in Seq(Claimed) /\ todo[w] # <<>>
  BY DEF TypeInv, TypeOK, BatchShape
<1>2. Head(todo[w]) \in Claimed
  BY <1>1, HeadTailProperties
<1> QED  BY <1>2 DEF Current, ClaimedAttempts, Claimed

LEMMA TablesUnchanged ==
  ASSUME TypeOK, UNCHANGED tables
  PROVE  StoreTypeOK'
BY DEF TypeOK, StoreTypeOK, tables

LEMMA FaultType ==
  ASSUME TypeOK, Fault \/ NoFault
  PROVE  faults' \in Nat
BY DEF TypeOK, Fault, NoFault

LEMMA TypeInvInit == Init => TypeInv
<1> SUFFICES ASSUME Init PROVE TypeInv
  OBVIOUS
<1>1. StoreTypeOK
  BY NoJobType DEF Init, StoreInit, StoreTypeOK, SummaryStatus
<1>2. <<>> \in Seq(Claimed)
  BY EmptySeq
<1>3. TypeOK
  BY <1>1, <1>2, WorkerAssumption
     DEF Init, TypeOK, WorkerPc, CollectorPc, Outcome, OutcomeKind, NoOutcome
<1>4. BatchShape
  BY DEF Init, BatchShape, InBatch
<1> QED  BY <1>3, <1>4 DEF TypeInv

(* Every step of a worker, one lemma step per action. *)
LEMMA TypeInvWorker ==
  ASSUME TypeInv, NEW w \in Workers, WorkerStep(w)
  PROVE  TypeInv'
<1> USE DEF TypeInv
<1>a. faults' \in Nat
  BY FaultType DEF WorkerStep, RunStep, WorkerFault, StartRun, AgeOut, AgeOutError,
     Claim, ClaimError, Renew, RenewLeaseLost, ProcessCompleted, ProcessFailed,
     StoreCache, StoreArtifact, RejectRow, Complete, CompleteLeaseLost, Fail,
     FailLeaseLost, StoreError, Crash
<1>1. CASE StartRun(w)
  <2>1. StoreTypeOK'
    BY <1>1, TablesUnchanged DEF StartRun
  <2> QED  BY <1>a, <1>1, <2>1
       DEF StartRun, GoTo, TypeOK, BatchShape, InBatch, collector, WorkerPc
<1>2. CASE AgeOut(w)
  <2>1. StoreTypeOK'
    BY <1>2, AgeOutType DEF AgeOut, TypeOK
  <2> QED  BY <1>a, <1>2, <2>1
       DEF AgeOut, GoTo, TypeOK, BatchShape, InBatch, collector, WorkerPc
<1>3. CASE AgeOutError(w)
  <2>1. StoreTypeOK'
    BY <1>3, TablesUnchanged DEF AgeOutError
  <2> QED  BY <1>a, <1>3, <2>1
       DEF AgeOutError, GoTo, TypeOK, BatchShape, InBatch, collector, WorkerPc
<1>4. CASE Claim(w)
  <2> DEFINE S == Selection(at[w], MaxJobs)
  <2>1. S \in SUBSET Queries
    BY DEF Selection
  <2>2. OwnerOf[w] \in Owners /\ at[w] + LeaseSeconds \in Nat
    BY WorkerAssumption DEF TypeOK
  <2>3. StoreTypeOK'
    BY <1>4, <2>2, ClaimType DEF Claim, TypeOK
  <2>4. PICK s \in Returned(S) : todo' = [todo EXCEPT ![w] = Batch(s)]
    BY <1>4 DEF Claim
  <2>5. Batch(s) \in Seq(Claimed) /\ (Batch(s) = <<>> <=> S = {})
    <3>1. job \in [Queries -> JobRow]
      BY DEF TypeOK, StoreTypeOK
    <3> QED  BY <2>1, <3>1, ClaimedBatch
  <2>6. pc' = [pc EXCEPT ![w] = IF S = {} THEN "idle" ELSE "renew"]
    BY <1>4 DEF Claim, GoTo
  <2>8. at' = [at EXCEPT ![w] = IF S = {} THEN 0 ELSE clock] /\ UNCHANGED <<clock, out, col, listed>>
    BY <1>4 DEF Claim, collector
  <2> HIDE DEF S
  <2>9. BatchShape'
    BY <2>5, <2>4, <2>6, <2>8 DEF TypeOK, BatchShape, InBatch
  <2> QED  BY <1>a, <2>3, <2>5, <2>4, <2>6, <2>8, <2>9 DEF TypeOK, WorkerPc
<1>5. CASE ClaimError(w)
  <2>1. StoreTypeOK'
    BY <1>5, TablesUnchanged DEF ClaimError
  <2> QED  BY <1>a, <1>5, <2>1
       DEF ClaimError, GoTo, TypeOK, BatchShape, InBatch, collector, WorkerPc
<1>6. CASE Renew(w)
  <2>1. InBatch(w) /\ Current(w) \in Queries
    BY <1>6, CurrentType DEF Renew, InBatch
  <2>2. StoreTypeOK'
    <3>1. PICK t \in at[w]..clock : RenewLease(Current(w), OwnerOf[w], t + LeaseSeconds)
      BY <1>6 DEF Renew
    <3>2. t + LeaseSeconds \in Nat
      BY <3>1, WorkerAssumption DEF TypeOK
    <3> QED  BY <2>1, <3>1, <3>2, RenewType, WorkerAssumption DEF TypeOK
  <2> QED  BY <1>a, <1>6, <2>2
       DEF Renew, GoTo, TypeOK, BatchShape, InBatch, collector, WorkerPc
<1>7. CASE RenewLeaseLost(w)
  <2>1. InBatch(w) /\ NextJob(w) /\ UNCHANGED clock
    BY <1>7 DEF RenewLeaseLost, InBatch
  <2>2. StoreTypeOK'
    BY <1>7, TablesUnchanged DEF RenewLeaseLost
  <2> QED  BY <1>a, <1>7, <2>1, <2>2, NextJobShape DEF RenewLeaseLost, TypeOK, collector
<1>8. CASE \E print \in Prints : ProcessCompleted(w, print)
  <2>1. PICK print \in Prints : ProcessCompleted(w, print)
    BY <1>8
  <2>2. StoreTypeOK'
    BY <2>1, TablesUnchanged DEF ProcessCompleted
  <2> QED  BY <1>a, <2>1, <2>2
       DEF ProcessCompleted, GoTo, TypeOK, BatchShape, InBatch, collector, WorkerPc,
           Outcome, OutcomeKind
<1>9. CASE \E kind \in {"retry", "failed", "aged_out"} : ProcessFailed(w, kind)
  <2>1. PICK kind \in {"retry", "failed", "aged_out"} : ProcessFailed(w, kind)
    BY <1>9
  <2>2. StoreTypeOK'
    BY <2>1, TablesUnchanged DEF ProcessFailed
  <2> QED  BY <1>a, <2>1, <2>2
       DEF ProcessFailed, GoTo, TypeOK, BatchShape, InBatch, collector, WorkerPc,
           Outcome, OutcomeKind
<1>10. CASE StoreCache(w)
  <2>1. InBatch(w) /\ Current(w) \in Queries /\ out[w].print \in Prints
    BY <1>10, CurrentType DEF StoreCache, InBatch, BatchShape
  <2>2. StoreTypeOK'
    BY <1>10, <2>1 DEF StoreCache, StoreAnalysisCache, TypeOK, StoreTypeOK
  <2> QED  BY <1>a, <1>10, <2>2
       DEF StoreCache, GoTo, TypeOK, BatchShape, InBatch, collector, WorkerPc
<1>11. CASE StoreArtifact(w)
  <2>1. InBatch(w) /\ Current(w) \in Queries /\ out[w].print \in Prints
    BY <1>11, CurrentType DEF StoreArtifact, InBatch, BatchShape
  <2>2. StoreTypeOK'
    BY <1>11, <2>1 DEF StoreArtifact, StoreProfileArtifact, TypeOK, StoreTypeOK
  <2> QED  BY <1>a, <1>11, <2>2
       DEF StoreArtifact, GoTo, TypeOK, BatchShape, InBatch, collector, WorkerPc
<1>12. CASE RejectRow(w)
  <2>1. StoreTypeOK'
    BY <1>12, TablesUnchanged DEF RejectRow
  <2> QED  BY <1>a, <1>12, <2>1
       DEF RejectRow, GoTo, TypeOK, BatchShape, InBatch, collector, WorkerPc, Outcome, OutcomeKind
<1>13. CASE Complete(w)
  <2>1. InBatch(w) /\ NextJob(w) /\ UNCHANGED clock
    BY <1>13 DEF Complete, InBatch
  <2>2. StatementOf[out[w].print] \in Statements \cup {NoStatement}
    BY <1>13, StoreAssumption DEF Complete, BatchShape
  <2>3. StoreTypeOK'
    BY <1>13, <2>1, <2>2, CurrentType, CompleteType DEF Complete, TypeOK
  <2> QED  BY <1>a, <1>13, <2>1, <2>3, NextJobShape DEF Complete, TypeOK, collector
<1>14. CASE CompleteLeaseLost(w)
  <2>1. InBatch(w) /\ NextJob(w) /\ UNCHANGED clock
    BY <1>14 DEF CompleteLeaseLost, InBatch
  <2>2. StoreTypeOK'
    BY <1>14, TablesUnchanged DEF CompleteLeaseLost
  <2> QED  BY <1>a, <1>14, <2>1, <2>2, NextJobShape DEF CompleteLeaseLost, TypeOK, collector
<1>15. CASE Fail(w)
  <2>1. InBatch(w) /\ NextJob(w) /\ UNCHANGED clock
    BY <1>15 DEF Fail, InBatch
  <2>2. FailureCode(w) \in ErrorCode
    BY DEF FailureCode, ErrorCode
  <2>3. StoreTypeOK'
    BY <1>15, <2>1, <2>2, CurrentType, FailType DEF Fail, TypeOK
  <2> QED  BY <1>a, <1>15, <2>1, <2>3, NextJobShape DEF Fail, TypeOK, collector
<1>16. CASE FailLeaseLost(w)
  <2>1. InBatch(w) /\ NextJob(w) /\ UNCHANGED clock
    BY <1>16 DEF FailLeaseLost, InBatch
  <2>2. StoreTypeOK'
    BY <1>16, TablesUnchanged DEF FailLeaseLost
  <2> QED  BY <1>a, <1>16, <2>1, <2>2, NextJobShape DEF FailLeaseLost, TypeOK, collector
<1>17. CASE StoreError(w)
  <2>1. InBatch(w) /\ NextJob(w) /\ UNCHANGED clock
    BY <1>17 DEF StoreError, InBatch
  <2>2. StoreTypeOK'
    BY <1>17, TablesUnchanged DEF StoreError
  <2> QED  BY <1>a, <1>17, <2>1, <2>2, NextJobShape DEF StoreError, TypeOK, collector
<1>18. CASE Crash(w)
  <2>1. StoreTypeOK'
    BY <1>18, TablesUnchanged DEF Crash
  <2> QED  BY <1>a, <1>18, <2>1, EmptySeq
       DEF Crash, GoTo, TypeOK, BatchShape, InBatch, collector, WorkerPc, Outcome, OutcomeKind, NoOutcome
<1> QED
  BY <1>1, <1>2, <1>3, <1>4, <1>5, <1>6, <1>7, <1>8, <1>9, <1>10, <1>11, <1>12,
     <1>13, <1>14, <1>15, <1>16, <1>17, <1>18
  DEF WorkerStep, RunStep, WorkerFault

(* Every other step leaves the workers alone. *)
LEMMA TypeInvOthers ==
  ASSUME TypeInv, Tick \/ CollectorStep \/ \E S \in SUBSET Queries : Remediate(S)
  PROVE  TypeInv'
<1> USE DEF TypeInv
<1>1. CASE Tick
  <2>1. StoreTypeOK'
    BY <1>1, TablesUnchanged DEF Tick
  <2> QED  BY <1>1, <2>1 DEF Tick, NoFault, TypeOK, BatchShape, InBatch, procs, collector
<1>2. ASSUME UNCHANGED <<clock, procs>>, faults' \in Nat, StoreTypeOK',
             col' \in CollectorPc, listed' \subseteq Queries
      PROVE  TypeInv'
  BY <1>2 DEF TypeOK, BatchShape, InBatch, procs
<1>3. CASE \E S \in SUBSET Queries : Discover(S)
  BY <1>2, <1>3, TablesUnchanged DEF Discover, NoFault, TypeOK, CollectorPc
<1>4. CASE \E S \in SUBSET Queries : Enqueue(S)
  BY <1>2, <1>4, EnqueueType DEF Enqueue, NoFault, TypeOK, CollectorPc
<1>5. CASE Persist
  BY <1>2, <1>5, UpsertType DEF Persist, NoFault, TypeOK, CollectorPc
<1>6. CASE PersistError
  BY <1>2, <1>6, TablesUnchanged, FaultType DEF PersistError, TypeOK, CollectorPc
<1>7. CASE EnqueueError
  BY <1>2, <1>7, TablesUnchanged, FaultType DEF EnqueueError, TypeOK, CollectorPc
<1>8. CASE \E S \in SUBSET Queries : Remediate(S)
  BY <1>2, <1>8, RequeueType DEF Remediate, NoFault, TypeOK, collector
<1> QED  BY <1>1, <1>3, <1>4, <1>5, <1>6, <1>7, <1>8 DEF CollectorStep

LEMMA TypeInvStep == TypeInv /\ [Next]_vars => TypeInv'
<1> SUFFICES ASSUME TypeInv, [Next]_vars PROVE TypeInv'
  OBVIOUS
<1>1. CASE UNCHANGED vars
  BY <1>1 DEF TypeInv, TypeOK, StoreTypeOK, BatchShape, InBatch,
              vars, tables, procs, collector
<1>2. CASE \E w \in Workers : WorkerStep(w)
  BY <1>2, TypeInvWorker
<1> QED  BY <1>1, <1>2, TypeInvOthers DEF Next

(* Every reachable state is well typed, and every worker has the job, the  *)
(* fingerprint and the clock reading its next transaction needs.           *)
THEOREM TypeCorrect == Spec => []TypeOK
<1>1. TypeInv => TypeOK
  BY DEF TypeInv
<1> QED  BY <1>1, TypeInvInit, TypeInvStep, PTL DEF Spec

LEMMA TypeInvariant == Spec => []TypeInv
BY TypeInvInit, TypeInvStep, PTL DEF Spec

-----------------------------------------------------------------------------
(* A completed job is materialised.                                        *)

Materialised == StoredSoFar /\ CompletedIsMaterialised

(* Only a completion makes a job completed or a summary analyzed.          *)
NoNewCompletion ==
  \A q \in Queries :
    /\ job'[q].status = "completed" => job[q].status = "completed"
    /\ summary'[q] = "analyzed" => summary[q] = "analyzed"

LEMMA SetStatusEffect ==
  ASSUME StoreTypeOK, NEW S, NEW new, new # "analyzed", SetStatus(S, new)
  PROVE  \A q \in Queries : summary'[q] = "analyzed" => summary[q] = "analyzed"
BY DEF StoreTypeOK, SetStatus, Progress

LEMMA UpsertCompletesNothing ==
  ASSUME StoreTypeOK, NEW S, UpsertSummaries(S)
  PROVE  NoNewCompletion
BY DEF StoreTypeOK, UpsertSummaries, NoNewCompletion

LEMMA EnqueueCompletesNothing ==
  ASSUME StoreTypeOK, NEW S, EnqueueProfileJobs(S)
  PROVE  NoNewCompletion
<1>1. [NoJob EXCEPT !.status = "pending"].status = "pending"
  BY DEF NoJob
<1> QED  BY <1>1, SetStatusEffect DEF EnqueueProfileJobs, NoNewCompletion

LEMMA ClaimCompletesNothing ==
  ASSUME StoreTypeOK, NEW S, NEW owner, NEW expiry,
         ClaimProfileJobs(S, owner, expiry)
  PROVE  NoNewCompletion
BY SetStatusEffect DEF ClaimProfileJobs, NoNewCompletion

LEMMA RenewCompletesNothing ==
  ASSUME StoreTypeOK, NEW q \in Queries, NEW owner, NEW expiry,
         RenewLease(q, owner, expiry)
  PROVE  NoNewCompletion
BY DEF StoreTypeOK, RenewLease, JobRow, NoNewCompletion

LEMMA FailCompletesNothing ==
  ASSUME StoreTypeOK, NEW q \in Queries, NEW owner, NEW kind, NEW error,
         FailProfileJob(q, owner, kind, error)
  PROVE  NoNewCompletion
<1>1. NextJobStatus(kind) # "completed"
  BY DEF NextJobStatus
<1>2. Unleased(job[q], NextJobStatus(kind), error).status # "completed"
  BY <1>1 DEF Unleased
<1>3. job' = [job EXCEPT ![q] = Unleased(job[q], NextJobStatus(kind), error)]
  BY DEF FailProfileJob
<1>4. \A p \in Queries : job'[p].status = "completed" => job[p].status = "completed"
  BY <1>2, <1>3 DEF StoreTypeOK
<1> QED  BY <1>4, SetStatusEffect DEF FailProfileJob, NoNewCompletion

LEMMA RequeueCompletesNothing ==
  ASSUME StoreTypeOK, NEW S, RequeueFailedJobs(S)
  PROVE  NoNewCompletion
<1>1. [NoJob EXCEPT !.status = "pending"].status = "pending"
  BY DEF NoJob
<1> QED  BY <1>1 DEF RequeueFailedJobs, NoNewCompletion

LEMMA AgeOutCompletesNothing ==
  ASSUME StoreTypeOK, NEW cutoff, NEW now, AgeOutProfileJobs(cutoff, now)
  PROVE  NoNewCompletion
<1>1. \A q : Unleased(job[q], "aged_out", "profile_aged_out").status = "aged_out"
  BY DEF Unleased
<1> QED  BY <1>1 DEF AgeOutProfileJobs, NoNewCompletion

(* A step of one worker leaves the others' memory as it was.               *)
LEMMA OtherWorkers ==
  ASSUME TypeInv, NEW w \in Workers, WorkerStep(w), NEW v \in Workers, v # w
  PROVE  /\ pc'[v] = pc[v] /\ at'[v] = at[v]
         /\ todo'[v] = todo[v] /\ out'[v] = out[v]
BY DEF TypeInv, TypeOK, WorkerStep, RunStep, WorkerFault, StartRun, AgeOut,
       AgeOutError, Claim, ClaimError, Renew, RenewLeaseLost, ProcessCompleted,
       ProcessFailed, StoreCache, StoreArtifact, RejectRow, Complete,
       CompleteLeaseLost, Fail, FailLeaseLost, StoreError, Crash, GoTo, NextJob

LEMMA KeepMaterialised ==
  ASSUME Materialised, NoNewCompletion,
         cached \subseteq cached', artifact \subseteq artifact',
         \A v \in Workers : pc'[v] \in {"artifact", "complete"} =>
           pc'[v] = pc[v] /\ todo'[v] = todo[v] /\ out'[v] = out[v]
  PROVE  Materialised'
BY DEF Materialised, StoredSoFar, CompletedIsMaterialised, Ready, Current,
       NoNewCompletion

LEMMA MaterialisedWorker ==
  ASSUME TypeInv, Materialised, NEW w \in Workers, WorkerStep(w)
  PROVE  Materialised'
<1>1. \A v \in Workers : v # w =>
        pc'[v] = pc[v] /\ todo'[v] = todo[v] /\ out'[v] = out[v]
  BY OtherWorkers
<1>2. StoreTypeOK /\ pc \in [Workers -> WorkerPc]
  BY DEF TypeInv, TypeOK
<1>3. CASE StartRun(w)
  <2>1. NoNewCompletion /\ UNCHANGED <<cached, artifact>>
    BY <1>2, <1>3 DEF StartRun, NoNewCompletion, tables
  <2>2. pc'[w] \notin {"artifact", "complete"}
    BY <1>2, <1>3 DEF StartRun, GoTo
  <2> QED  BY <1>1, <2>1, <2>2, KeepMaterialised
<1>4. CASE AgeOutError(w)
  <2>1. NoNewCompletion /\ UNCHANGED <<cached, artifact>>
    BY <1>2, <1>4 DEF AgeOutError, NoNewCompletion, tables
  <2>2. pc'[w] \notin {"artifact", "complete"}
    BY <1>2, <1>4 DEF AgeOutError, GoTo
  <2> QED  BY <1>1, <2>1, <2>2, KeepMaterialised
<1>5. CASE ClaimError(w)
  <2>1. NoNewCompletion /\ UNCHANGED <<cached, artifact>>
    BY <1>2, <1>5 DEF ClaimError, NoNewCompletion, tables
  <2>2. pc'[w] \notin {"artifact", "complete"}
    BY <1>2, <1>5 DEF ClaimError, GoTo
  <2> QED  BY <1>1, <2>1, <2>2, KeepMaterialised
<1>6. CASE RenewLeaseLost(w)
  <2>1. NoNewCompletion /\ UNCHANGED <<cached, artifact>>
    BY <1>2, <1>6 DEF RenewLeaseLost, NoNewCompletion, tables
  <2>2. pc'[w] \notin {"artifact", "complete"}
    BY <1>2, <1>6 DEF RenewLeaseLost, GoTo, NextJob
  <2> QED  BY <1>1, <2>1, <2>2, KeepMaterialised
<1>7. CASE RejectRow(w)
  <2>1. NoNewCompletion /\ UNCHANGED <<cached, artifact>>
    BY <1>2, <1>7 DEF RejectRow, NoNewCompletion, tables
  <2>2. pc'[w] \notin {"artifact", "complete"}
    BY <1>2, <1>7 DEF RejectRow, GoTo
  <2> QED  BY <1>1, <2>1, <2>2, KeepMaterialised
<1>8. CASE CompleteLeaseLost(w)
  <2>1. NoNewCompletion /\ UNCHANGED <<cached, artifact>>
    BY <1>2, <1>8 DEF CompleteLeaseLost, NoNewCompletion, tables
  <2>2. pc'[w] \notin {"artifact", "complete"}
    BY <1>2, <1>8 DEF CompleteLeaseLost, GoTo, NextJob
  <2> QED  BY <1>1, <2>1, <2>2, KeepMaterialised
<1>9. CASE FailLeaseLost(w)
  <2>1. NoNewCompletion /\ UNCHANGED <<cached, artifact>>
    BY <1>2, <1>9 DEF FailLeaseLost, NoNewCompletion, tables
  <2>2. pc'[w] \notin {"artifact", "complete"}
    BY <1>2, <1>9 DEF FailLeaseLost, GoTo, NextJob
  <2> QED  BY <1>1, <2>1, <2>2, KeepMaterialised
<1>10. CASE StoreError(w)
  <2>1. NoNewCompletion /\ UNCHANGED <<cached, artifact>>
    BY <1>2, <1>10 DEF StoreError, NoNewCompletion, tables
  <2>2. pc'[w] \notin {"artifact", "complete"}
    BY <1>2, <1>10 DEF StoreError, GoTo, NextJob
  <2> QED  BY <1>1, <2>1, <2>2, KeepMaterialised
<1>11. CASE Crash(w)
  <2>1. NoNewCompletion /\ UNCHANGED <<cached, artifact>>
    BY <1>2, <1>11 DEF Crash, NoNewCompletion, tables
  <2>2. pc'[w] \notin {"artifact", "complete"}
    BY <1>2, <1>11 DEF Crash, GoTo
  <2> QED  BY <1>1, <2>1, <2>2, KeepMaterialised
<1>12. CASE \E print \in Prints : ProcessCompleted(w, print)
  <2>1. NoNewCompletion /\ UNCHANGED <<cached, artifact>>
    BY <1>2, <1>12 DEF ProcessCompleted, NoNewCompletion, tables
  <2>2. pc'[w] \notin {"artifact", "complete"}
    BY <1>2, <1>12 DEF ProcessCompleted, GoTo
  <2> QED  BY <1>1, <2>1, <2>2, KeepMaterialised
<1>13. CASE \E kind \in {"retry", "failed", "aged_out"} : ProcessFailed(w, kind)
  <2>1. NoNewCompletion /\ UNCHANGED <<cached, artifact>>
    BY <1>2, <1>13 DEF ProcessFailed, NoNewCompletion, tables
  <2>2. pc'[w] \notin {"artifact", "complete"}
    BY <1>2, <1>13 DEF ProcessFailed, GoTo
  <2> QED  BY <1>1, <2>1, <2>2, KeepMaterialised
<1>14. CASE AgeOut(w)
  <2>1. NoNewCompletion /\ UNCHANGED <<cached, artifact>>
    BY <1>2, <1>14, AgeOutCompletesNothing DEF AgeOut, AgeOutProfileJobs
  <2>2. pc'[w] \notin {"artifact", "complete"}
    BY <1>2, <1>14 DEF AgeOut, GoTo
  <2> QED  BY <1>1, <2>1, <2>2, KeepMaterialised
<1>15. CASE Claim(w)
  <2>1. NoNewCompletion /\ UNCHANGED <<cached, artifact>>
    BY <1>2, <1>15, ClaimCompletesNothing DEF Claim, ClaimProfileJobs
  <2>2. pc'[w] \notin {"artifact", "complete"}
    BY <1>2, <1>15 DEF Claim, GoTo
  <2> QED  BY <1>1, <2>1, <2>2, KeepMaterialised
<1>16. CASE Renew(w)
  <2>1. Current(w) \in Queries
    BY <1>16, CurrentType DEF Renew, InBatch
  <2>2. NoNewCompletion /\ UNCHANGED <<cached, artifact>>
    BY <1>2, <1>16, <2>1, RenewCompletesNothing DEF Renew, RenewLease
  <2>3. pc'[w] \notin {"artifact", "complete"}
    BY <1>2, <1>16 DEF Renew, GoTo, NextJob
  <2> QED  BY <1>1, <2>2, <2>3, KeepMaterialised
<1>17. CASE Fail(w)
  <2>1. Current(w) \in Queries
    BY <1>17, CurrentType DEF Fail, InBatch
  <2>2. NoNewCompletion /\ UNCHANGED <<cached, artifact>>
    BY <1>2, <1>17, <2>1, FailCompletesNothing DEF Fail, FailProfileJob
  <2>3. pc'[w] \notin {"artifact", "complete"}
    BY <1>2, <1>17 DEF Fail, GoTo, NextJob
  <2> QED  BY <1>1, <2>2, <2>3, KeepMaterialised
<1>18. CASE StoreCache(w)
  <2>1. /\ cached \subseteq cached' /\ artifact \subseteq artifact'
        /\ UNCHANGED <<job, summary, todo, out>>
        /\ <<Current(w), out[w].print>> \in cached'
    BY <1>18 DEF StoreCache, StoreAnalysisCache
  <2>2. CompletedIsMaterialised'
    BY <2>1 DEF Materialised, CompletedIsMaterialised, Ready
  <2>3. pc'[w] = "artifact" /\ pc[w] = "cache"
    BY <1>2, <1>18 DEF StoreCache, GoTo
  <2> QED  BY <1>1, <2>1, <2>2, <2>3 DEF Materialised, StoredSoFar, Current
<1>19. CASE StoreArtifact(w)
  <2>1. /\ cached \subseteq cached' /\ artifact \subseteq artifact'
        /\ UNCHANGED <<job, summary, todo, out>>
        /\ <<Current(w), out[w].print>> \in artifact'
    BY <1>19 DEF StoreArtifact, StoreProfileArtifact
  <2>2. CompletedIsMaterialised'
    BY <2>1 DEF Materialised, CompletedIsMaterialised, Ready
  <2>3. pc'[w] = "complete" /\ pc[w] = "artifact"
    BY <1>2, <1>19 DEF StoreArtifact, GoTo
  <2> QED  BY <1>1, <2>1, <2>2, <2>3 DEF Materialised, StoredSoFar, Current
<1>20. CASE Complete(w)
  <2> DEFINE q == Current(w)
  <2>1. /\ q \in Queries /\ out[w].print \in Prints
        /\ <<q, out[w].print>> \in cached /\ <<q, out[w].print>> \in artifact
    BY <1>20, CurrentType
       DEF Complete, InBatch, TypeInv, BatchShape, Materialised, StoredSoFar
  <2>2. UNCHANGED <<cached, artifact>>
    BY <1>20 DEF Complete, CompleteProfileJob
  <2>3. \A p \in Queries : p # q => job'[p] = job[p] /\ summary'[p] = summary[p]
    BY <1>2, <1>20, <2>1 DEF Complete, CompleteProfileJob, SetStatus, StoreTypeOK
  <2>4. CompletedIsMaterialised'
    BY <2>1, <2>2, <2>3 DEF Materialised, CompletedIsMaterialised, Ready
  <2>5. pc'[w] \notin {"artifact", "complete"}
    BY <1>2, <1>20 DEF Complete, GoTo, NextJob
  <2>6. StoredSoFar'
    BY <1>1, <2>2, <2>5 DEF Materialised, StoredSoFar, Current
  <2> QED  BY <2>4, <2>6 DEF Materialised
<1> QED
  BY <1>3, <1>4, <1>5, <1>6, <1>7, <1>8, <1>9, <1>10, <1>11, <1>12, <1>13, <1>14, <1>15, <1>16, <1>17, <1>18, <1>19, <1>20
  DEF WorkerStep, RunStep, WorkerFault

LEMMA MaterialisedInit == Init => Materialised
BY DEF Init, StoreInit, NoJob, Materialised, StoredSoFar, CompletedIsMaterialised

LEMMA MaterialisedStep == TypeInv /\ Materialised /\ [Next]_vars => Materialised'
<1> SUFFICES ASSUME TypeInv, Materialised, [Next]_vars PROVE Materialised'
  OBVIOUS
<1>1. StoreTypeOK
  BY DEF TypeInv, TypeOK
<1>2. ASSUME NoNewCompletion, UNCHANGED <<cached, artifact, procs>>
      PROVE  Materialised'
  BY <1>2, KeepMaterialised DEF procs
<1>3. CASE UNCHANGED vars
  BY <1>2, <1>3 DEF vars, tables, NoNewCompletion
<1>4. CASE \E w \in Workers : WorkerStep(w)
  BY <1>4, MaterialisedWorker
<1>5. CASE Tick \/ PersistError \/ EnqueueError \/ \E S \in SUBSET Queries : Discover(S)
  BY <1>2, <1>5 DEF Tick, PersistError, EnqueueError, Discover, tables, NoNewCompletion
<1>6. CASE Persist
  BY <1>1, <1>2, <1>6, UpsertCompletesNothing DEF Persist, UpsertSummaries
<1>7. CASE \E S \in SUBSET Queries : Enqueue(S)
  BY <1>1, <1>2, <1>7, EnqueueCompletesNothing DEF Enqueue, EnqueueProfileJobs
<1>8. CASE \E S \in SUBSET Queries : Remediate(S)
  BY <1>1, <1>2, <1>8, RequeueCompletesNothing DEF Remediate, RequeueFailedJobs
<1> QED  BY <1>3, <1>4, <1>5, <1>6, <1>7, <1>8 DEF Next, CollectorStep

(* Nothing is completed or shown as analyzed before both its rows are      *)
(* stored.  No lease is needed for this: the argument is the order of one  *)
(* worker's own transactions and that no row of the two tables goes away.  *)
THEOREM CompletedMaterialised == Spec => []CompletedIsMaterialised
<1>1. Materialised => CompletedIsMaterialised
  BY DEF Materialised
<1> QED
  BY <1>1, TypeInvariant, MaterialisedInit, MaterialisedStep, PTL DEF Spec

-----------------------------------------------------------------------------
(* The retry budget, when no two workers share a lease-owner label.        *)

OwnersDistinct == \A v, w \in Workers : OwnerOf[v] = OwnerOf[w] => v = w

BudgetInv == AttemptsAgree /\ RetryBudget

(* What every transaction but a claim does to the leases, and every one    *)
(* but a failure to the pending jobs.                                      *)
LeasesKept ==
  \A q \in Queries :
    job'[q].status = "leased" =>
      /\ job[q].status = "leased"
      /\ job'[q].owner = job[q].owner
      /\ job'[q].attempts = job[q].attempts

PendingKept ==
  \A q \in Queries :
    job'[q].status = "pending" =>
      \/ job[q].status = "pending" /\ job'[q].attempts = job[q].attempts
      \/ job'[q].attempts = 0

LEMMA FreshJob ==
  [NoJob EXCEPT !.status = "pending"].status = "pending" /\
  [NoJob EXCEPT !.status = "pending"].attempts = 0
BY DEF NoJob

LEMMA EnqueueKeeps ==
  ASSUME StoreTypeOK, NEW S, EnqueueProfileJobs(S)
  PROVE  LeasesKept /\ PendingKept
BY FreshJob DEF EnqueueProfileJobs, LeasesKept, PendingKept

LEMMA RequeueKeeps ==
  ASSUME StoreTypeOK, NEW S, RequeueFailedJobs(S)
  PROVE  LeasesKept /\ PendingKept
BY FreshJob DEF RequeueFailedJobs, LeasesKept, PendingKept

LEMMA AgeOutKeeps ==
  ASSUME StoreTypeOK, NEW cutoff, NEW now, AgeOutProfileJobs(cutoff, now)
  PROVE  LeasesKept /\ PendingKept
<1>1. \A q : Unleased(job[q], "aged_out", "profile_aged_out").status = "aged_out"
  BY DEF Unleased
<1> QED  BY <1>1 DEF AgeOutProfileJobs, LeasesKept, PendingKept

LEMMA RenewKeeps ==
  ASSUME StoreTypeOK, NEW q \in Queries, NEW owner, NEW expiry,
         RenewLease(q, owner, expiry)
  PROVE  LeasesKept /\ PendingKept
BY DEF StoreTypeOK, RenewLease, JobRow, LeasesKept, PendingKept

LEMMA CompleteKeeps ==
  ASSUME StoreTypeOK, NEW q \in Queries, NEW owner, NEW statement, NEW completedAt,
         CompleteProfileJob(q, owner, statement, completedAt)
  PROVE  LeasesKept /\ PendingKept
<1>1. Unleased(job[q], "completed", "none").status = "completed"
  BY DEF Unleased
<1>2. job' = [job EXCEPT ![q] = Unleased(job[q], "completed", "none")]
  BY DEF CompleteProfileJob
<1> QED  BY <1>1, <1>2 DEF StoreTypeOK, LeasesKept, PendingKept

LEMMA ClaimKeepsPending ==
  ASSUME StoreTypeOK, NEW S, NEW owner, NEW expiry,
         ClaimProfileJobs(S, owner, expiry)
  PROVE  PendingKept
BY DEF ClaimProfileJobs, PendingKept

LEMMA JobUnchangedKeeps ==
  ASSUME UNCHANGED job
  PROVE  LeasesKept /\ PendingKept
BY DEF LeasesKept, PendingKept

LEMMA KeepBudget ==
  ASSUME RetryBudget, PendingKept
  PROVE  RetryBudget'
BY WorkerAssumption DEF RetryBudget, PendingKept

LEMMA KeepAgreement ==
  ASSUME AttemptsAgree, LeasesKept,
         \A v \in Workers : \A i \in DOMAIN todo'[v] :
           /\ todo'[v][i].query \in Queries
           /\ \E j \in DOMAIN todo[v] : todo'[v][i] = todo[v][j]
  PROVE  AttemptsAgree'
BY DEF AttemptsAgree, LeasesKept, Holds

LEMMA BatchQueries ==
  ASSUME TypeInv, NEW v \in Workers, NEW i \in DOMAIN todo[v]
  PROVE  todo[v][i].query \in Queries
<1>1. todo[v] \in Seq(Claimed)
  BY DEF TypeInv, TypeOK
<1>2. i \in 1..Len(todo[v])
  BY <1>1, LenProperties
<1>3. todo[v][i] \in Claimed
  BY <1>1, <1>2, ElementOfSeq
<1> QED  BY <1>3 DEF Claimed

(* A worker's batch after a step other than a claim is part of its batch   *)
(* before.                                                                 *)
LEMMA BatchShrinks ==
  ASSUME TypeInv, NEW w \in Workers, WorkerStep(w), ~Claim(w)
  PROVE  \A v \in Workers : \A i \in DOMAIN todo'[v] :
           /\ todo'[v][i].query \in Queries
           /\ \E j \in DOMAIN todo[v] : todo'[v][i] = todo[v][j]
<1>1. todo \in [Workers -> Seq(Claimed)] /\ \A v \in Workers : v # w => todo'[v] = todo[v]
  BY OtherWorkers DEF TypeInv, TypeOK
<1>2. \A v \in Workers : \A j \in DOMAIN todo[v] : todo[v][j].query \in Queries
  BY BatchQueries
<1>3. \/ todo'[w] = todo[w]
      \/ todo'[w] = <<>>
      \/ InBatch(w) /\ todo'[w] = Tail(todo[w])
  BY <1>1 DEF WorkerStep, RunStep, WorkerFault, StartRun, AgeOut, AgeOutError,
     ClaimError, Renew, RenewLeaseLost, ProcessCompleted, ProcessFailed,
     StoreCache, StoreArtifact, RejectRow, Complete, CompleteLeaseLost, Fail,
     FailLeaseLost, StoreError, Crash, NextJob, InBatch
<1>4. CASE InBatch(w) /\ todo'[w] = Tail(todo[w])
  <2>1. todo[w] \in Seq(Claimed) /\ todo[w] # <<>>
    BY <1>1, <1>4 DEF TypeInv, BatchShape
  <2>2. \A i \in DOMAIN todo'[w] :
          i + 1 \in DOMAIN todo[w] /\ todo'[w][i] = todo[w][i + 1]
    BY <1>4, <2>1, HeadTailProperties, LenProperties
  <2> QED  BY <1>1, <1>2, <2>2
<1>5. CASE todo'[w] = todo[w]
  <2>1. \A v \in Workers : todo'[v] = todo[v]
    BY <1>1, <1>5
  <2> QED  BY <1>2, <2>1
<1>6. CASE todo'[w] = <<>>
  <2>1. DOMAIN todo'[w] = {}
    BY <1>6
  <2> QED  BY <1>1, <1>2, <2>1
<1> QED  BY <1>3, <1>4, <1>5, <1>6

LEMMA BudgetClaim ==
  ASSUME OwnersDistinct, TypeInv, BudgetInv, NEW w \in Workers, Claim(w)
  PROVE  BudgetInv'
<1> DEFINE S == Selection(at[w], MaxJobs)
<1>1. StoreTypeOK /\ todo \in [Workers -> Seq(Claimed)]
  BY DEF TypeInv, TypeOK
<1>2. S \in SUBSET Queries
  BY DEF Selection
<1>3. ClaimProfileJobs(S, OwnerOf[w], at[w] + LeaseSeconds)
  BY DEF Claim
<1>4. /\ \A q \in S : /\ job'[q].attempts = job[q].attempts + 1
                       /\ job'[q].owner = OwnerOf[w]
      /\ \A q \in Queries : q \notin S => job'[q] = job[q]
  BY <1>2, <1>3 DEF ClaimProfileJobs
<1>5. PICK s \in Returned(S) : todo' = [todo EXCEPT ![w] = Batch(s)]
  BY DEF Claim
<1> HIDE DEF S
<1>6. RetryBudget'
  BY <1>1, <1>3, ClaimKeepsPending, KeepBudget DEF BudgetInv
<1>7. ASSUME NEW v \in Workers, NEW i \in DOMAIN todo'[v],
             job'[todo'[v][i].query].status = "leased",
             job'[todo'[v][i].query].owner = OwnerOf[v]
      PROVE  todo'[v][i].attempts = job'[todo'[v][i].query].attempts
  <2>1. CASE v = w
    <3>1. todo'[v] = Batch(s)
      BY <1>1, <1>5, <2>1
    <3>2. s[i] \in S /\ i \in DOMAIN s
      BY <1>1, <1>2, <3>1, ClaimedBatch DEF StoreTypeOK
    <3>3. todo'[v][i].query = s[i] /\ todo'[v][i].attempts = job[s[i]].attempts + 1
      BY <3>1, <3>2 DEF Batch
    <3>4. job'[s[i]].attempts = job[s[i]].attempts + 1
      BY <1>4, <3>2
    <3> QED  BY <3>3, <3>4
  <2>2. CASE v # w
    <3>1. todo'[v] = todo[v]
      BY <1>5, <2>2
    <3>2. i \in DOMAIN todo[v] /\ todo[v][i].query \in Queries
      BY <1>7, <3>1, BatchQueries
    <3>3. todo[v][i].query \notin S
      BY <1>4, <1>7, <2>2, <3>1 DEF OwnersDistinct
    <3>4. job'[todo[v][i].query] = job[todo[v][i].query]
      BY <1>4, <3>2, <3>3
    <3> QED  BY <1>7, <3>1, <3>2, <3>4 DEF BudgetInv, AttemptsAgree, Holds
  <2> QED  BY <2>1, <2>2
<1>8. AttemptsAgree'
  BY <1>7 DEF AttemptsAgree, Holds
<1> QED  BY <1>6, <1>8 DEF BudgetInv

LEMMA BudgetFail ==
  ASSUME TypeInv, BudgetInv, NEW w \in Workers, Fail(w)
  PROVE  BudgetInv'
<1> DEFINE q == Current(w)
           status == NextJobStatus(FailureKind(w))
<1>1. InBatch(w) /\ out[w].kind \in {"retry", "failed", "aged_out"}
  BY DEF Fail, InBatch, TypeInv, BatchShape
<1>2. q \in Queries /\ StoreTypeOK /\ ClaimedAttempts(w) \in Nat
  BY <1>1, CurrentType DEF TypeInv, TypeOK
<1>3. Holds(q, OwnerOf[w]) /\ job' = [job EXCEPT ![q] =
        Unleased(job[q], status, FailureCode(w))]
  BY DEF Fail, FailProfileJob
<1>4. status # "leased"
  BY DEF NextJobStatus
<1>5. job'[q].status = status /\ job'[q].attempts = job[q].attempts
  BY <1>2, <1>3 DEF Unleased, StoreTypeOK
<1>6. \A p \in Queries : p # q => job'[p] = job[p]
  BY <1>3 DEF StoreTypeOK
<1>7. LeasesKept
  BY <1>4, <1>5, <1>6 DEF LeasesKept
<1>8. AttemptsAgree'
  BY <1>7, BatchShrinks, KeepAgreement DEF BudgetInv, Claim, Fail,
     WorkerStep, RunStep
<1>9. ClaimedAttempts(w) = job[q].attempts
  <2>1. todo[w] \in Seq(Claimed) /\ todo[w] # <<>>
    BY <1>1 DEF TypeInv, TypeOK, BatchShape
  <2>2. 1 \in DOMAIN todo[w] /\ Head(todo[w]) = todo[w][1]
    BY <2>1, EmptySeq, LenProperties
  <2> QED  BY <1>3, <2>2 DEF BudgetInv, AttemptsAgree, Current, ClaimedAttempts
<1>10. status = "pending" => job[q].attempts < MaxAttempts
  <2>1. ASSUME status = "pending" PROVE ~Exhausted(w) /\ out[w].kind = "retry"
    BY <1>1, <2>1 DEF NextJobStatus, FailureKind
  <2> QED  BY <1>2, <1>9, <2>1, WorkerAssumption DEF Exhausted
<1>11. RetryBudget'
  BY <1>5, <1>6, <1>10 DEF BudgetInv, RetryBudget
<1> QED  BY <1>8, <1>11 DEF BudgetInv

LEMMA BudgetWorker ==
  ASSUME OwnersDistinct, TypeInv, BudgetInv, NEW w \in Workers, WorkerStep(w)
  PROVE  BudgetInv'
<1>1. StoreTypeOK
  BY DEF TypeInv, TypeOK
<1>2. SUFFICES ASSUME ~Claim(w), ~Fail(w) PROVE BudgetInv'
  BY BudgetClaim, BudgetFail
<1>3. ASSUME LeasesKept, PendingKept PROVE BudgetInv'
  BY <1>2, <1>3, BatchShrinks, KeepAgreement, KeepBudget DEF BudgetInv
<1>4. CASE AgeOut(w)
  BY <1>1, <1>3, <1>4, AgeOutKeeps DEF AgeOut
<1>5. CASE Renew(w)
  <2>1. Current(w) \in Queries
    BY <1>5, CurrentType DEF Renew, InBatch
  <2> QED  BY <1>1, <1>3, <1>5, <2>1, RenewKeeps DEF Renew
<1>6. CASE Complete(w)
  <2>1. Current(w) \in Queries
    BY <1>6, CurrentType DEF Complete, InBatch
  <2> QED  BY <1>1, <1>3, <1>6, <2>1, CompleteKeeps DEF Complete
<1>7. ASSUME UNCHANGED job PROVE BudgetInv'
  BY <1>3, <1>7, JobUnchangedKeeps
<1>8. CASE WorkerFault(w)
  BY <1>7, <1>8 DEF WorkerFault, AgeOutError, ClaimError, StoreError, Crash, tables
<1>9. CASE \/ StartRun(w) \/ RejectRow(w)
           \/ RenewLeaseLost(w) \/ CompleteLeaseLost(w) \/ FailLeaseLost(w)
           \/ \E print \in Prints : ProcessCompleted(w, print)
           \/ \E kind \in {"retry", "failed", "aged_out"} : ProcessFailed(w, kind)
  BY <1>7, <1>9 DEF StartRun, RejectRow, RenewLeaseLost, CompleteLeaseLost,
     FailLeaseLost, ProcessCompleted, ProcessFailed, tables
<1>10. CASE StoreCache(w) \/ StoreArtifact(w)
  BY <1>7, <1>10 DEF StoreCache, StoreArtifact, StoreAnalysisCache,
     StoreProfileArtifact
<1> QED
  BY <1>2, <1>4, <1>5, <1>6, <1>8, <1>9, <1>10 DEF WorkerStep, RunStep

LEMMA BudgetInit == Init => BudgetInv
<1>1. DOMAIN <<>> = {}
  OBVIOUS
<1> QED
  BY <1>1 DEF Init, StoreInit, NoJob, BudgetInv, AttemptsAgree, RetryBudget

LEMMA BudgetStep ==
  ASSUME OwnersDistinct
  PROVE  TypeInv /\ BudgetInv /\ [Next]_vars => BudgetInv'
<1> SUFFICES ASSUME TypeInv, BudgetInv, [Next]_vars PROVE BudgetInv'
  OBVIOUS
<1>1. StoreTypeOK
  BY DEF TypeInv, TypeOK
<1>2. \A v \in Workers : \A i \in DOMAIN todo[v] : todo[v][i].query \in Queries
  BY BatchQueries
<1>3. ASSUME LeasesKept, PendingKept, UNCHANGED todo PROVE BudgetInv'
  BY <1>2, <1>3, KeepAgreement, KeepBudget DEF BudgetInv
<1>4. CASE UNCHANGED vars
  BY <1>3, <1>4, JobUnchangedKeeps DEF vars, tables, procs
<1>5. CASE \E w \in Workers : WorkerStep(w)
  BY <1>5, BudgetWorker
<1>6. CASE Tick \/ PersistError \/ EnqueueError \/ \E S \in SUBSET Queries : Discover(S)
  BY <1>3, <1>6, JobUnchangedKeeps
     DEF Tick, PersistError, EnqueueError, Discover, tables, procs
<1>7. CASE Persist
  BY <1>3, <1>7, JobUnchangedKeeps DEF Persist, UpsertSummaries, procs
<1>8. CASE \E S \in SUBSET Queries : Enqueue(S)
  BY <1>1, <1>3, <1>8, EnqueueKeeps DEF Enqueue, procs
<1>9. CASE \E S \in SUBSET Queries : Remediate(S)
  BY <1>1, <1>3, <1>9, RequeueKeeps DEF Remediate, procs
<1> QED  BY <1>4, <1>5, <1>6, <1>7, <1>8, <1>9 DEF Next, CollectorStep

(* With one lease-owner label per worker, no job goes back to pending once *)
(* its budget is used up: whoever may report a retry still holds the lease *)
(* and therefore remembers the attempts the row has now.                   *)
THEOREM RetryBudgetKept ==
  ASSUME OwnersDistinct
  PROVE  Spec => []RetryBudget
<1>1. BudgetInv => RetryBudget
  BY DEF BudgetInv
<1>2. Init => BudgetInv
  BY BudgetInit
<1>3. TypeInv /\ BudgetInv /\ [Next]_vars => BudgetInv'
  BY BudgetStep
<1> QED  BY <1>1, <1>2, <1>3, TypeInvariant, PTL DEF Spec

-----------------------------------------------------------------------------
(* Fencing.                                                                *)

LEMMA FencedUnchanged ==
  ASSUME UNCHANGED job
  PROVE  Fenced
BY DEF Fenced

(* A row taken from its holder was expired by the clock, whatever reading  *)
(* the taker had.                                                          *)
LEMMA FencedTaken ==
  ASSUME TypeInv, NEW w \in Workers,
         \A q \in Queries : job'[q] # job[q] => Claimable(q, at[w])
  PROVE  Fenced
<1>1. at[w] \in Nat /\ clock \in Nat /\ at[w] <= clock
  BY DEF TypeInv, TypeOK, BatchShape
<1>2. \A q \in Queries : job[q].until \in Nat
  BY DEF TypeInv, TypeOK, StoreTypeOK, JobRow
<1> QED  BY <1>1, <1>2 DEF Fenced, Claimable, Expired

LEMMA FencedHolder ==
  ASSUME TypeInv, NEW w \in Workers, InBatch(w), pc'[w] # pc[w],
         Holds(Current(w), OwnerOf[w]),
         \A q \in Queries : q # Current(w) => job'[q] = job[q]
  PROVE  Fenced
<1>1. todo[w] # <<>>
  BY DEF TypeInv, BatchShape
<1>2. w \in WorkerMoved
  BY DEF WorkerMoved
<1> QED  BY <1>1, <1>2 DEF Fenced, Holds

LEMMA FencedWorker ==
  ASSUME TypeInv, NEW w \in Workers, WorkerStep(w)
  PROVE  Fenced
<1>1. StoreTypeOK /\ pc \in [Workers -> WorkerPc]
  BY DEF TypeInv, TypeOK
<1>2. CASE AgeOut(w)
  BY <1>2, FencedTaken DEF AgeOut, AgeOutProfileJobs, Overdue
<1>3. CASE Claim(w)
  <2> DEFINE S == Selection(at[w], MaxJobs)
  <2>1. S \subseteq {q \in Queries : Claimable(q, at[w])}
    BY DEF Selection
  <2>2. \A q \in Queries : q \notin S => job'[q] = job[q]
    BY <1>3 DEF Claim, ClaimProfileJobs
  <2> HIDE DEF S
  <2> QED  BY <2>1, <2>2, FencedTaken
<1>4. CASE Renew(w) \/ Complete(w) \/ Fail(w)
  <2>1. InBatch(w) /\ Current(w) \in Queries
    BY <1>4, CurrentType DEF Renew, Complete, Fail, InBatch
  <2>2. Holds(Current(w), OwnerOf[w])
    BY <1>4 DEF Renew, RenewLease, Complete, CompleteProfileJob, MayComplete,
       Fail, FailProfileJob
  <2>3. \A q \in Queries : q # Current(w) => job'[q] = job[q]
    BY <1>1, <1>4 DEF StoreTypeOK, Renew, RenewLease, Complete,
       CompleteProfileJob, Fail, FailProfileJob
  <2>4. pc'[w] # pc[w]
    BY <1>1, <1>4 DEF Renew, Complete, Fail, NextJob, GoTo
  <2> QED  BY <2>1, <2>2, <2>3, <2>4, FencedHolder
<1>5. CASE WorkerFault(w)
  BY <1>5, FencedUnchanged
     DEF WorkerFault, AgeOutError, ClaimError, StoreError, Crash, tables
<1>6. CASE \/ StartRun(w) \/ RejectRow(w)
           \/ RenewLeaseLost(w) \/ CompleteLeaseLost(w) \/ FailLeaseLost(w)
           \/ \E print \in Prints : ProcessCompleted(w, print)
           \/ \E kind \in {"retry", "failed", "aged_out"} : ProcessFailed(w, kind)
  BY <1>6, FencedUnchanged DEF StartRun, RejectRow, RenewLeaseLost,
     CompleteLeaseLost, FailLeaseLost, ProcessCompleted, ProcessFailed, tables
<1>7. CASE StoreCache(w) \/ StoreArtifact(w)
  BY <1>7, FencedUnchanged DEF StoreCache, StoreArtifact, StoreAnalysisCache,
     StoreProfileArtifact
<1> QED
  BY <1>2, <1>3, <1>4, <1>5, <1>6, <1>7 DEF WorkerStep, RunStep

LEMMA FencedStep == TypeInv /\ [Next]_vars => [Fenced]_vars
<1> SUFFICES ASSUME TypeInv, Next PROVE Fenced
  OBVIOUS
<1>1. StoreTypeOK
  BY DEF TypeInv, TypeOK
<1>2. CASE \E w \in Workers : WorkerStep(w)
  BY <1>2, FencedWorker
<1>3. CASE Tick \/ PersistError \/ EnqueueError \/ \E S \in SUBSET Queries : Discover(S)
  BY <1>3, FencedUnchanged DEF Tick, PersistError, EnqueueError, Discover, tables
<1>4. CASE Persist
  BY <1>4, FencedUnchanged DEF Persist, UpsertSummaries
<1>5. CASE \E S \in SUBSET Queries : Enqueue(S)
  BY <1>5 DEF Enqueue, EnqueueProfileJobs, Fenced
<1>6. CASE \E S \in SUBSET Queries : Remediate(S)
  BY <1>6 DEF Remediate, RequeueFailedJobs, Failed, Fenced
<1> QED  BY <1>2, <1>3, <1>4, <1>5, <1>6 DEF Next, CollectorStep

(* A lease is changed by the worker that holds it, or by anyone once it    *)
(* has expired, and by nobody else.  Distinct labels are not needed: the   *)
(* statement names the holder by its label, as the table does.             *)
THEOREM LeaseFencing == Spec => OnlyHolderChangesLease
BY TypeInvariant, FencedStep, PTL DEF Spec, OnlyHolderChangesLease

-----------------------------------------------------------------------------
(* The workers implement ProfileLifecycle.                                 *)

Phase == [q \in Queries |-> job[q].status]
Holder == [q \in Queries |-> job[q].owner]
Lapsed == {q \in Queries : Expired(q, clock)}
Shown == {q \in Queries : Ready(q)}

LEMMA PhaseChange ==
  ASSUME NEW S \in SUBSET Queries, NEW p, NEW o,
         \A q \in S : job'[q].status = p /\ job'[q].owner = o,
         \A q \in Queries : q \notin S => job'[q] = job[q]
  PROVE  Lifecycle!SetPhase(S, p, o)
<1>1. Phase' = [q \in Queries |-> IF q \in S THEN p ELSE Phase[q]]
  BY DEF Phase
<1>2. Holder' = [q \in Queries |-> IF q \in S THEN o ELSE Holder[q]]
  BY DEF Holder
<1> QED  BY <1>1, <1>2 DEF Phase, Holder, Lifecycle!SetPhase

LEMMA SameShown ==
  ASSUME UNCHANGED <<cached, artifact>>
  PROVE  Shown' = Shown
BY DEF Shown, Ready

LEMMA SameLapsed ==
  ASSUME UNCHANGED clock,
         \A q \in Queries : job'[q] # job[q] =>
           job[q].status # "leased" /\ job'[q].status # "leased"
  PROVE  Lapsed' = Lapsed
BY DEF Lapsed, Expired

LEMMA EnqueueSubmits ==
  ASSUME StoreTypeOK, NEW S \in SUBSET Queries, EnqueueProfileJobs(S),
         UNCHANGED clock
  PROVE  \E T \in SUBSET Queries : Lifecycle!Submit(T)
<1>0. PICK T \in SUBSET Queries : T = {q \in S : job[q].status = "absent"}
  OBVIOUS
<1>1. /\ [NoJob EXCEPT !.status = "pending"].status = "pending"
      /\ [NoJob EXCEPT !.status = "pending"].owner = NoOwner
  BY DEF NoJob
<1>2. /\ \A q \in T : job'[q].status = "pending" /\ job'[q].owner = NoOwner
      /\ \A q \in Queries : q \notin T => job'[q] = job[q]
  BY <1>0, <1>1 DEF EnqueueProfileJobs
<1>3. Lifecycle!SetPhase(T, "pending", NoOwner)
  BY <1>2, PhaseChange
<1>4. Lapsed' = Lapsed
  BY <1>0, <1>2, SameLapsed
<1>5. Shown' = Shown
  BY SameShown DEF EnqueueProfileJobs
<1>6. \A q \in T : Phase[q] = "absent"
  BY <1>0 DEF Phase
<1>7. Lifecycle!Submit(T)
  BY <1>3, <1>4, <1>5, <1>6 DEF Lifecycle!Submit, Phase, Lapsed, Shown
<1> QED  BY <1>7

LEMMA RequeueReopens ==
  ASSUME StoreTypeOK, NEW S \in SUBSET Queries, RequeueFailedJobs(S),
         UNCHANGED clock
  PROVE  Lifecycle!Reopen(S)
<1>1. /\ [NoJob EXCEPT !.status = "pending"].status = "pending"
      /\ [NoJob EXCEPT !.status = "pending"].owner = NoOwner
  BY DEF NoJob
<1>2. /\ \A q \in S : job[q].status = "failed"
      /\ \A q \in S : job'[q].status = "pending" /\ job'[q].owner = NoOwner
      /\ \A q \in Queries : q \notin S => job'[q] = job[q]
  BY <1>1 DEF RequeueFailedJobs, Failed
<1>3. Lifecycle!SetPhase(S, "pending", NoOwner)
  BY <1>2, PhaseChange
<1>4. Lapsed' = Lapsed
  BY <1>2, SameLapsed
<1>5. Shown' = Shown
  BY SameShown DEF RequeueFailedJobs
<1> QED  BY <1>2, <1>3, <1>4, <1>5 DEF Lifecycle!Reopen, Lapsed, Shown

(* A row free by an earlier clock reading is free now.                     *)
LEMMA ClaimableIsFree ==
  ASSUME TypeInv, NEW now \in Nat, now <= clock,
         NEW q \in Queries, Claimable(q, now)
  PROVE  job[q].status = "pending" \/ q \in Lapsed
BY DEF TypeInv, TypeOK, StoreTypeOK, JobRow, Claimable, Expired, Lapsed

LEMMA ClaimGrants ==
  ASSUME TypeInv, NEW now \in Nat, now <= clock,
         NEW S \in SUBSET Queries, \A q \in S : Claimable(q, now),
         NEW owner, NEW expiry, ClaimProfileJobs(S, owner, expiry),
         UNCHANGED clock
  PROVE  Lifecycle!Grant(S, owner)
<1>1. \A q \in S : job[q].status = "pending" \/ q \in Lapsed
  BY ClaimableIsFree
<1>2. /\ \A q \in S : job'[q].status = "leased" /\ job'[q].owner = owner
      /\ \A q \in Queries : q \notin S => job'[q] = job[q]
  BY DEF ClaimProfileJobs
<1>3. Lifecycle!SetPhase(S, "leased", owner)
  BY <1>2, PhaseChange
<1> DEFINE late == {q \in S : Expired(q, clock)'}
<1>4. Lapsed' = (Lapsed \ S) \cup late
  BY <1>2 DEF Lapsed, Expired
<1>5. Shown' = Shown
  BY SameShown DEF ClaimProfileJobs
<1>6. late \in SUBSET S
  OBVIOUS
<1> HIDE DEF late
<1> QED
  BY <1>1, <1>3, <1>4, <1>5, <1>6
  DEF Lifecycle!Grant, Lifecycle!Free, Lapsed, Shown

LEMMA AgeOutExpires ==
  ASSUME TypeInv, NEW cutoff, NEW now \in Nat, now <= clock,
         AgeOutProfileJobs(cutoff, now), UNCHANGED clock
  PROVE  \E S \in SUBSET Queries : Lifecycle!Expire(S)
<1>1. PICK S \in SUBSET Queries : S = Overdue(cutoff, now)
  BY DEF Overdue
<1>2. \A q \in S : job[q].status = "pending" \/ q \in Lapsed
  BY <1>1, ClaimableIsFree DEF Overdue
<1>3. /\ \A q \in S : job'[q].status = "aged_out" /\ job'[q].owner = NoOwner
      /\ \A q \in Queries : q \notin S => job'[q] = job[q]
  BY <1>1 DEF AgeOutProfileJobs, Unleased
<1>4. Lifecycle!SetPhase(S, "aged_out", NoOwner)
  BY <1>3, PhaseChange
<1>5. Lapsed' = Lapsed \ S
  BY <1>3 DEF Lapsed, Expired
<1>6. Shown' = Shown
  BY SameShown DEF AgeOutProfileJobs
<1>7. Lifecycle!Expire(S)
  BY <1>2, <1>4, <1>5, <1>6
  DEF Lifecycle!Expire, Lifecycle!Free, Lapsed, Shown
<1> QED  BY <1>7

LEMMA RenewExtends ==
  ASSUME TypeInv, NEW q \in Queries, NEW owner, NEW expiry \in Nat,
         RenewLease(q, owner, expiry), UNCHANGED clock
  PROVE  Lifecycle!Extend(q) \/ Lifecycle!Lapse({q}) \/ UNCHANGED Lifecycle!vars
<1>1. /\ Holds(q, owner)
      /\ job' = [job EXCEPT ![q].until = expiry]
      /\ UNCHANGED <<cached, artifact>>
  BY DEF RenewLease
<1>2. /\ \A p \in Queries : /\ job'[p].status = job[p].status
                            /\ job'[p].owner = job[p].owner
      /\ \A p \in Queries : p # q => job'[p] = job[p]
      /\ job'[q].until = expiry
  BY <1>1 DEF TypeInv, TypeOK, StoreTypeOK, JobRow
<1>3. job[q].status = "leased"
  BY <1>1 DEF Holds
<1>4. Expired(q, clock)' <=> expiry <= clock
  BY <1>2, <1>3 DEF Expired
<1>5. Phase' = Phase /\ Holder' = Holder
  BY <1>2 DEF Phase, Holder
<1>6. Shown' = Shown
  BY <1>1, SameShown
<1>7. CASE expiry <= clock
  <2>1. Lapsed' = Lapsed \cup {q}
    BY <1>2, <1>4, <1>7 DEF Lapsed, Expired
  <2>2. Phase[q] = "leased"
    BY <1>3 DEF Phase
  <2> QED  BY <1>5, <1>6, <2>1, <2>2 DEF Lifecycle!Lapse, Phase, Holder, Lapsed, Shown
<1>8. CASE ~(expiry <= clock)
  <2>1. Lapsed' = Lapsed \ {q}
    BY <1>2, <1>4, <1>8 DEF Lapsed, Expired
  <2>2. CASE q \in Lapsed
    BY <1>5, <1>6, <2>1, <2>2 DEF Lifecycle!Extend, Phase, Holder, Lapsed, Shown
  <2>3. CASE q \notin Lapsed
    <3>1. Lapsed' = Lapsed
      BY <2>1, <2>3
    <3> QED  BY <1>5, <1>6, <3>1 DEF Lifecycle!vars, Phase, Holder, Lapsed, Shown
  <2> QED  BY <2>2, <2>3
<1> QED  BY <1>7, <1>8

LEMMA UnleasedSettles ==
  ASSUME TypeInv, NEW q \in Queries, job[q].status = "leased",
         NEW p \in JobStatus \ {"leased"}, NEW error,
         job' = [job EXCEPT ![q] = Unleased(job[q], p, error)],
         p = "completed" => Ready(q),
         UNCHANGED <<cached, artifact, clock>>
  PROVE  Lifecycle!Settle(q, p)
<1>1. /\ job'[q].status = p /\ job'[q].owner = NoOwner
      /\ \A r \in Queries : r # q => job'[r] = job[r]
  BY DEF TypeInv, TypeOK, StoreTypeOK, Unleased
<1>2. Lifecycle!SetPhase({q}, p, NoOwner)
  BY <1>1, PhaseChange
<1>3. Lapsed' = Lapsed \ {q}
  BY <1>1 DEF Lapsed, Expired
<1>4. Shown' = Shown
  BY SameShown
<1>5. p = "completed" => q \in Shown
  BY DEF Shown
<1> QED  BY <1>2, <1>3, <1>4, <1>5 DEF Lifecycle!Settle, Lapsed, Shown

LEMMA StoredShown ==
  ASSUME NEW q \in Queries, NEW print, UNCHANGED <<job, clock>>,
         StoreAnalysisCache(q, print) \/ StoreProfileArtifact(q, print)
  PROVE  Lifecycle!Store(q) \/ UNCHANGED Lifecycle!vars
<1>1. Shown' = Shown \cup {q} \/ Shown' = Shown
  <2>1. \A p \in Queries : Ready(p) => Ready(p)'
    BY DEF Ready, StoreAnalysisCache, StoreProfileArtifact
  <2>2. \A p \in Queries : p # q => (Ready(p)' => Ready(p))
    BY DEF Ready, StoreAnalysisCache, StoreProfileArtifact
  <2> QED  BY <2>1, <2>2 DEF Shown
<1>2. Phase' = Phase /\ Holder' = Holder /\ Lapsed' = Lapsed
  BY DEF Phase, Holder, Lapsed, Expired
<1> QED
  BY <1>1, <1>2 DEF Lifecycle!Store, Lifecycle!vars, Phase, Holder, Lapsed, Shown

LEMMA SameLifecycle ==
  ASSUME UNCHANGED <<job, clock, cached, artifact>>
  PROVE  UNCHANGED Lifecycle!vars
<1>1. Phase' = Phase /\ Holder' = Holder /\ Lapsed' = Lapsed
  BY DEF Phase, Holder, Lapsed, Expired
<1> QED
  BY <1>1, SameShown DEF Lifecycle!vars, Phase, Holder, Lapsed, Shown

LEMMA TickLapses ==
  ASSUME TypeInv, Tick, NEW S, S = Lapsed'
  PROVE  Lifecycle!Lapse(S)
<1>1. UNCHANGED <<job, cached, artifact>> /\ clock' = clock + 1
  BY DEF Tick, tables
<1>2. Lapsed \subseteq Lapsed'
  BY <1>1 DEF Lapsed, Expired, TypeInv, TypeOK, StoreTypeOK, JobRow
<1>3. \A q \in Lapsed' : q \in Queries /\ job[q].status = "leased"
  BY <1>1 DEF Lapsed, Expired
<1>4. Phase' = Phase /\ Holder' = Holder /\ Shown' = Shown
  BY <1>1, SameShown DEF Phase, Holder
<1>5. Lapsed' = Lapsed \cup Lapsed'
  BY <1>2
<1>6. Lapsed' = Lapsed \cup S
  BY <1>5
<1> QED  BY <1>3, <1>4, <1>6 DEF Lifecycle!Lapse, Phase, Holder, Lapsed, Shown

LEMMA LifecycleWorker ==
  ASSUME TypeInv, Materialised, NEW w \in Workers, WorkerStep(w)
  PROVE  Lifecycle!Next \/ UNCHANGED Lifecycle!vars
<1>1. /\ at[w] \in Nat /\ at[w] <= clock
      /\ StoreTypeOK
      /\ OwnerOf[w] \in Owners
  BY WorkerAssumption DEF TypeInv, TypeOK, BatchShape
<1>2. CASE AgeOut(w)
  <2>1. PICK now \in Nat : now = at[w] /\ now <= clock
    BY <1>1
  <2>2. AgeOutProfileJobs(now - MaxAge, now) /\ UNCHANGED clock
    BY <1>2, <2>1 DEF AgeOut
  <2>3. \E S \in SUBSET Queries : Lifecycle!Expire(S)
    BY <2>1, <2>2, AgeOutExpires
  <2> QED  BY <2>3 DEF Lifecycle!Next
<1>3. CASE Claim(w)
  <2>1. PICK now \in Nat : now = at[w] /\ now <= clock
    BY <1>1
  <2>2. PICK S \in SUBSET Queries : S = Selection(now, MaxJobs)
    BY DEF Selection
  <2>3. \A q \in S : Claimable(q, now)
    BY <2>2 DEF Selection
  <2>4. ClaimProfileJobs(S, OwnerOf[w], now + LeaseSeconds) /\ UNCHANGED clock
    BY <1>3, <2>1, <2>2 DEF Claim
  <2>5. Lifecycle!Grant(S, OwnerOf[w])
    BY <2>1, <2>3, <2>4, ClaimGrants
  <2> QED  BY <1>1, <2>5 DEF Lifecycle!Next
<1>4. CASE Renew(w)
  <2>1. Current(w) \in Queries
    BY <1>4, CurrentType DEF Renew, InBatch
  <2>2. PICK t \in at[w]..clock : RenewLease(Current(w), OwnerOf[w], t + LeaseSeconds)
    BY <1>4 DEF Renew
  <2>3. t + LeaseSeconds \in Nat /\ UNCHANGED clock
    BY <1>4, <2>2, WorkerAssumption DEF Renew, TypeInv, TypeOK
  <2>4. Lifecycle!Extend(Current(w)) \/ Lifecycle!Lapse({Current(w)}) \/ UNCHANGED Lifecycle!vars
    BY <2>1, <2>2, <2>3, RenewExtends
  <2> QED  BY <2>1, <2>4 DEF Lifecycle!Next
<1>5. CASE StoreCache(w) \/ StoreArtifact(w)
  <2>1. Current(w) \in Queries
    BY <1>5, CurrentType DEF StoreCache, StoreArtifact, InBatch
  <2>2. /\ StoreAnalysisCache(Current(w), out[w].print)
           \/ StoreProfileArtifact(Current(w), out[w].print)
        /\ UNCHANGED <<job, clock>>
    BY <1>5 DEF StoreCache, StoreArtifact, StoreAnalysisCache, StoreProfileArtifact
  <2>3. Lifecycle!Store(Current(w)) \/ UNCHANGED Lifecycle!vars
    BY <2>1, <2>2, StoredShown
  <2> QED  BY <2>1, <2>3 DEF Lifecycle!Next
<1>6. CASE Complete(w)
  <2>1. PICK q \in Queries : q = Current(w)
    BY <1>6, CurrentType DEF Complete, InBatch
  <2>2. Ready(q)
    BY <1>6, <2>1 DEF Complete, Materialised, StoredSoFar, Ready, TypeInv, BatchShape
  <2>3. /\ job[q].status = "leased"
        /\ job' = [job EXCEPT ![q] = Unleased(job[q], "completed", "none")]
        /\ UNCHANGED <<cached, artifact, clock>>
    BY <1>6, <2>1 DEF Complete, CompleteProfileJob, MayComplete, Holds
  <2>4. "completed" \in JobStatus \ {"leased"}
    BY DEF JobStatus
  <2>5. Lifecycle!Settle(q, "completed")
    BY <2>1, <2>2, <2>3, <2>4, UnleasedSettles
  <2> QED  BY <2>1, <2>5 DEF Lifecycle!Next
<1>7. CASE Fail(w)
  <2>1. PICK q \in Queries : q = Current(w)
    BY <1>7, CurrentType DEF Fail, InBatch
  <2>2. PICK p \in {"pending", "failed", "aged_out"} : p = NextJobStatus(FailureKind(w))
    BY DEF NextJobStatus
  <2>3. /\ job[q].status = "leased"
        /\ \E error : job' = [job EXCEPT ![q] = Unleased(job[q], p, error)]
        /\ UNCHANGED <<cached, artifact, clock>>
    BY <1>7, <2>1, <2>2 DEF Fail, FailProfileJob, Holds
  <2>4. p \in JobStatus \ {"leased"} /\ p # "completed"
    BY <2>2 DEF JobStatus
  <2>5. Lifecycle!Settle(q, p)
    BY <2>1, <2>3, <2>4, UnleasedSettles
  <2> QED  BY <2>1, <2>2, <2>5 DEF Lifecycle!Next
<1>8. CASE WorkerFault(w)
  BY <1>8, SameLifecycle
     DEF WorkerFault, AgeOutError, ClaimError, StoreError, Crash, tables
<1>9. CASE \/ StartRun(w) \/ RejectRow(w)
           \/ RenewLeaseLost(w) \/ CompleteLeaseLost(w) \/ FailLeaseLost(w)
           \/ \E print \in Prints : ProcessCompleted(w, print)
           \/ \E kind \in {"retry", "failed", "aged_out"} : ProcessFailed(w, kind)
  BY <1>9, SameLifecycle DEF StartRun, RejectRow, RenewLeaseLost,
     CompleteLeaseLost, FailLeaseLost, ProcessCompleted, ProcessFailed, tables
<1> QED
  BY <1>2, <1>3, <1>4, <1>5, <1>6, <1>7, <1>8, <1>9 DEF WorkerStep, RunStep

LEMMA LifecycleStep ==
  TypeInv /\ Materialised /\ [Next]_vars => [Lifecycle!Next]_(Lifecycle!vars)
<1> SUFFICES ASSUME TypeInv, Materialised, [Next]_vars
             PROVE  Lifecycle!Next \/ UNCHANGED Lifecycle!vars
  OBVIOUS
<1>1. StoreTypeOK
  BY DEF TypeInv, TypeOK
<1>2. CASE UNCHANGED vars
  BY <1>2, SameLifecycle DEF vars, tables
<1>3. CASE \E w \in Workers : WorkerStep(w)
  BY <1>3, LifecycleWorker
<1>4. CASE Tick
  <2>1. Lapsed' \in SUBSET Queries
    BY DEF Lapsed
  <2>2. PICK S \in SUBSET Queries : S = Lapsed'
    BY <2>1
  <2>3. Lifecycle!Lapse(S)
    BY <1>4, <2>2, TickLapses
  <2> QED  BY <2>3 DEF Lifecycle!Next
<1>5. CASE Persist \/ PersistError \/ EnqueueError \/ \E S \in SUBSET Queries : Discover(S)
  BY <1>5, SameLifecycle
     DEF Persist, UpsertSummaries, PersistError, EnqueueError, Discover, tables
<1>6. CASE \E S \in SUBSET Queries : Enqueue(S)
  <2>1. PICK S \in SUBSET Queries : Enqueue(S)
    BY <1>6
  <2>2. \E T \in SUBSET Queries : Lifecycle!Submit(T)
    BY <1>1, <2>1, EnqueueSubmits DEF Enqueue
  <2> QED  BY <2>2 DEF Lifecycle!Next
<1>7. CASE \E S \in SUBSET Queries : Remediate(S)
  BY <1>1, <1>7, RequeueReopens DEF Remediate, Lifecycle!Next
<1> QED  BY <1>2, <1>3, <1>4, <1>5, <1>6, <1>7 DEF Next, CollectorStep

LEMMA LifecycleInit == Init => Lifecycle!Init
<1> SUFFICES ASSUME Init PROVE Lifecycle!Init
  OBVIOUS
<1>1. Phase = [q \in Queries |-> "absent"] /\ Holder = [q \in Queries |-> NoOwner]
  BY DEF Init, StoreInit, NoJob, Phase, Holder
<1>2. Lapsed = {} /\ Shown = {}
  BY DEF Init, StoreInit, NoJob, Lapsed, Expired, Shown, Ready
<1> QED  BY <1>1, <1>2 DEF Lifecycle!Init, Phase, Holder, Lapsed, Shown

(* The workers, the collector, the remediation command and the clock keep  *)
(* the promise of ProfileLifecycle.                                        *)
THEOREM ImplementsLifecycle == Spec => LifecycleSpec
BY TypeInvariant, MaterialisedInit, MaterialisedStep, LifecycleInit,
   LifecycleStep, PTL DEF Spec, LifecycleSpec, Lifecycle!Spec
=============================================================================
