--------------------------- MODULE ProfileWorkers ---------------------------
(***************************************************************************)
(* The processes that share the Recent history store: worker Pods running  *)
(* query_doctor/recent/profile_worker.py, the collector                    *)
(* (cli/batch_recent.py with history_store.py), the operator's             *)
(* remediation command, and the clock their leases are compared with.      *)
(*                                                                         *)
(* A worker run is: age out old jobs, claim a batch, then for each claimed *)
(* job renew the lease, collect and analyse the profile, store the         *)
(* analysis-cache row, store the artifact row, complete the job.  Each     *)
(* store call is a transaction of its own, so another process, the clock,  *)
(* a crash or a storage error may come between any two of them.            *)
(***************************************************************************)
EXTENDS ProfileJobStore, Sequences

CONSTANTS
  Workers,       \* worker processes
  OwnerOf,       \* the lease owner each worker was started with
  NoPrint,       \* no profile fingerprint
  LeaseSeconds,  \* lease length
  MaxJobs,       \* jobs claimed per run
  MaxAttempts,   \* retry budget
  MaxAge,        \* recent_profile_job_max_age_hours; 0 disables aging out
  MaxTime,       \* bound: the clock stops here
  MaxFaults      \* bound: crashes and storage errors in a behaviour

ASSUME WorkerAssumption ==
  /\ OwnerOf \in [Workers -> Owners]
  /\ NoPrint \notin Prints
  /\ LeaseSeconds \in Nat \ {0}
  /\ MaxJobs \in Nat
  /\ MaxAttempts \in Nat \ {0}
  /\ MaxAge \in Nat
  /\ MaxTime \in Nat \ {0}
  /\ MaxFaults \in Nat

VARIABLES
  clock,   \* wall clock, read by every process
  faults,  \* crashes and storage errors left
  pc,      \* where each worker is
  at,      \* the clock reading each worker carries to a later statement
  todo,    \* jobs of the batch not finished yet, the current one first
  out,     \* what the processor returned for the current job
  col,     \* where the collector is
  listed   \* the queries the collector's current run discovered

procs == <<pc, at, todo, out>>
collector == <<col, listed>>
vars == <<tables, clock, faults, procs, collector>>

-----------------------------------------------------------------------------
WorkerPc == {"idle", "age_out", "claim", "renew", "process",
             "cache", "artifact", "complete", "fail"}

CollectorPc == {"idle", "persist", "enqueue"}

(* A claimed job, with the attempts its row had when it was claimed. *)
Claimed == [query : Queries, attempts : Nat]

OutcomeKind == {"none", "completed", "retry", "failed", "aged_out"}

Outcome == [kind : OutcomeKind, print : Prints \cup {NoPrint}]

NoOutcome == [kind |-> "none", print |-> NoPrint]

TypeOK ==
  /\ StoreTypeOK
  /\ clock \in Nat
  /\ faults \in Nat
  /\ pc \in [Workers -> WorkerPc]
  /\ at \in [Workers -> Nat]
  /\ todo \in [Workers -> Seq(Claimed)]
  /\ out \in [Workers -> Outcome]
  /\ col \in CollectorPc
  /\ listed \subseteq Queries

Init ==
  /\ StoreInit
  /\ clock = 1
  /\ faults = MaxFaults
  /\ pc = [w \in Workers |-> "idle"]
  /\ at = [w \in Workers |-> 0]
  /\ todo = [w \in Workers |-> <<>>]
  /\ out = [w \in Workers |-> NoOutcome]
  /\ col = "idle"
  /\ listed = {}

-----------------------------------------------------------------------------
(* Helpers. *)

Current(w) == Head(todo[w]).query

ClaimedAttempts(w) == Head(todo[w]).attempts

GoTo(w, place) == pc' = [pc EXCEPT ![w] = place]

(* Go on with the next job of the batch, or end the run.  A worker that   *)
(* turns to a job carries the time of that to the renewal of its lease.    *)
NextJob(w) ==
  /\ todo' = [todo EXCEPT ![w] = Tail(@)]
  /\ GoTo(w, IF Len(todo[w]) = 1 THEN "idle" ELSE "renew")
  /\ at' = [at EXCEPT ![w] = IF Len(todo[w]) = 1 THEN 0 ELSE clock]
  /\ out' = [out EXCEPT ![w] = NoOutcome]

Fault == faults > 0 /\ faults' = faults - 1

NoFault == UNCHANGED faults

(* A fault may strand a lease.  The bounded clock must have room for that  *)
(* lease to expire, or the model would stop where the program goes on.     *)
RoomForExpiry == clock + LeaseSeconds <= MaxTime

-----------------------------------------------------------------------------
(* A worker run. *)

StartRun(w) ==
  /\ pc[w] = "idle"
  /\ GoTo(w, IF MaxAge > 0 THEN "age_out" ELSE "claim")
  /\ at' = [at EXCEPT ![w] = clock]
  /\ NoFault
  /\ UNCHANGED <<tables, clock, todo, out, collector>>

AgeOut(w) ==
  /\ pc[w] = "age_out"
  /\ AgeOutProfileJobs(at[w] - MaxAge, at[w])
  /\ GoTo(w, "claim")
  /\ NoFault
  /\ UNCHANGED <<clock, at, todo, out, collector>>

AgeOutError(w) ==
  /\ pc[w] = "age_out"
  /\ Fault
  /\ GoTo(w, "claim")
  /\ UNCHANGED <<tables, clock, at, todo, out, collector>>

(* The records a claim returns, with the attempts it has just counted.      *)
Batch(s) ==
  [i \in DOMAIN s |-> [query |-> s[i], attempts |-> job[s[i]].attempts + 1]]

(* The rows are selected and leased with the clock reading of the start of *)
(* the run, however long aging out took.                                   *)
Claim(w) ==
  /\ pc[w] = "claim"
  /\ LET S == Selection(at[w], MaxJobs)
     IN  /\ ClaimProfileJobs(S, OwnerOf[w], at[w] + LeaseSeconds)
         /\ \E s \in Returned(S) : todo' = [todo EXCEPT ![w] = Batch(s)]
         /\ GoTo(w, IF S = {} THEN "idle" ELSE "renew")
         /\ at' = [at EXCEPT ![w] = IF S = {} THEN 0 ELSE clock]
  /\ NoFault
  /\ UNCHANGED <<clock, out, collector>>

ClaimError(w) ==
  /\ pc[w] = "claim"
  /\ Fault
  /\ GoTo(w, "idle")
  /\ at' = [at EXCEPT ![w] = 0]
  /\ UNCHANGED <<tables, clock, todo, out, collector>>

(* The clock is read before the statement runs: at any time since the      *)
(* worker turned to this job.  A lease may be renewed after it expired, or *)
(* renewed so late that it has expired again.                              *)
Renew(w) ==
  /\ pc[w] = "renew"
  /\ \E t \in at[w]..clock : RenewLease(Current(w), OwnerOf[w], t + LeaseSeconds)
  /\ GoTo(w, "process")
  /\ at' = [at EXCEPT ![w] = 0]
  /\ NoFault
  /\ UNCHANGED <<clock, todo, out, collector>>

RenewLeaseLost(w) ==
  /\ pc[w] = "renew"
  /\ ~Holds(Current(w), OwnerOf[w])
  /\ NextJob(w)
  /\ NoFault
  /\ UNCHANGED <<tables, clock, collector>>

(* Collection and analysis; the job's fate is the processor's.  A completed *)
(* outcome brings a fingerprint, and completed_at is read before its two   *)
(* rows are written.                                                       *)
ProcessCompleted(w, print) ==
  /\ pc[w] = "process"
  /\ out' = [out EXCEPT ![w] = [kind |-> "completed", print |-> print]]
  /\ at' = [at EXCEPT ![w] = clock]
  /\ GoTo(w, "cache")
  /\ NoFault
  /\ UNCHANGED <<tables, clock, todo, collector>>

(* Any other outcome: a raised exception is a retry, and a completed one   *)
(* without fingerprint, payload or storage key fails before it is stored.  *)
ProcessFailed(w, kind) ==
  /\ pc[w] = "process"
  /\ out' = [out EXCEPT ![w] = [kind |-> kind, print |-> NoPrint]]
  /\ GoTo(w, "fail")
  /\ NoFault
  /\ UNCHANGED <<tables, clock, at, todo, collector>>

StoreCache(w) ==
  /\ pc[w] = "cache"
  /\ StoreAnalysisCache(Current(w), out[w].print)
  /\ GoTo(w, "artifact")
  /\ NoFault
  /\ UNCHANGED <<clock, at, todo, out, collector>>

(* Mutant of StoreArtifact: the number of stored rows is not looked at. *)
StoreArtifactUnchecked(w) ==
  /\ pc[w] = "artifact"
  /\ GoTo(w, "complete")
  /\ NoFault
  /\ UNCHANGED <<tables, clock, at, todo, out, collector>>

StoreArtifact(w) ==
  /\ pc[w] = "artifact"
  /\ StoreProfileArtifact(Current(w), out[w].print)
  /\ GoTo(w, "complete")
  /\ NoFault
  /\ UNCHANGED <<clock, at, todo, out, collector>>

(* The store refuses an unsafe row: it reports that it wrote none. *)
RejectRow(w) ==
  /\ pc[w] \in {"cache", "artifact"}
  /\ out' = [out EXCEPT ![w] = [kind |-> "failed", print |-> NoPrint]]
  /\ GoTo(w, "fail")
  /\ at' = [at EXCEPT ![w] = 0]
  /\ NoFault
  /\ UNCHANGED <<tables, clock, todo, collector>>

Complete(w) ==
  /\ pc[w] = "complete"
  /\ CompleteProfileJob(Current(w), OwnerOf[w], StatementOf[out[w].print], at[w])
  /\ NextJob(w)
  /\ NoFault
  /\ UNCHANGED <<clock, collector>>

CompleteLeaseLost(w) ==
  /\ pc[w] = "complete"
  /\ ~MayComplete(Current(w), OwnerOf[w], StatementOf[out[w].print], at[w])
  /\ NextJob(w)
  /\ NoFault
  /\ UNCHANGED <<tables, clock, collector>>

(* Mutant of Exhausted: one attempt too many. *)
ExhaustedLate(w) == out[w].kind = "retry" /\ ClaimedAttempts(w) > MaxAttempts

(* The budget is compared with the attempts the claim returned. *)
Exhausted(w) == out[w].kind = "retry" /\ ClaimedAttempts(w) >= MaxAttempts

FailureKind(w) == IF Exhausted(w) THEN "failed" ELSE out[w].kind

FailureCode(w) ==
  CASE Exhausted(w)               -> "retry_exhausted"
    [] out[w].kind = "retry"      -> "retryable"
    [] out[w].kind = "aged_out"   -> "profile_not_found"
    [] OTHER                      -> "terminal"

Fail(w) ==
  /\ pc[w] = "fail"
  /\ FailProfileJob(Current(w), OwnerOf[w], FailureKind(w), FailureCode(w))
  /\ NextJob(w)
  /\ NoFault
  /\ UNCHANGED <<clock, collector>>

FailLeaseLost(w) ==
  /\ pc[w] = "fail"
  /\ ~Holds(Current(w), OwnerOf[w])
  /\ NextJob(w)
  /\ NoFault
  /\ UNCHANGED <<tables, clock, collector>>

(* A storage error while a job is being finished leaves the job leased. *)
StoreError(w) ==
  /\ pc[w] \in {"renew", "cache", "artifact", "complete", "fail"}
  /\ Fault
  /\ RoomForExpiry
  /\ NextJob(w)
  /\ UNCHANGED <<tables, clock, collector>>

(* The Pod dies; its replacement starts with nothing in memory. *)
Crash(w) ==
  /\ pc[w] # "idle"
  /\ Fault
  /\ RoomForExpiry
  /\ GoTo(w, "idle")
  /\ at' = [at EXCEPT ![w] = 0]
  /\ todo' = [todo EXCEPT ![w] = <<>>]
  /\ out' = [out EXCEPT ![w] = NoOutcome]
  /\ UNCHANGED <<tables, clock, collector>>

RunStep(w) ==
  \/ AgeOut(w) \/ Claim(w)
  \/ Renew(w) \/ RenewLeaseLost(w)
  \/ \E print \in Prints : ProcessCompleted(w, print)
  \/ \E kind \in {"retry", "failed", "aged_out"} : ProcessFailed(w, kind)
  \/ StoreCache(w) \/ StoreArtifact(w) \/ RejectRow(w)
  \/ Complete(w) \/ CompleteLeaseLost(w)
  \/ Fail(w) \/ FailLeaseLost(w)

WorkerFault(w) == AgeOutError(w) \/ ClaimError(w) \/ StoreError(w) \/ Crash(w)

WorkerStep(w) == StartRun(w) \/ RunStep(w) \/ WorkerFault(w)

-----------------------------------------------------------------------------
(* The collector: discover, persist the summaries, plan profile jobs.  A   *)
(* listing shows a query with an end time only once it has ended.  A       *)
(* failed persist is a warning, and the run still enqueues.                *)

Discover(S) ==
  /\ col = "idle"
  /\ S # {}
  /\ \A q \in S : EndTime[q] # NoEnd => EndTime[q] <= clock
  /\ col' = "persist"
  /\ listed' = S
  /\ NoFault
  /\ UNCHANGED <<tables, clock, procs>>

Persist ==
  /\ col = "persist"
  /\ UpsertSummaries(listed)
  /\ col' = "enqueue"
  /\ NoFault
  /\ UNCHANGED <<clock, procs, listed>>

PersistError ==
  /\ col = "persist"
  /\ Fault
  /\ col' = "enqueue"
  /\ UNCHANGED <<tables, clock, procs, listed>>

(* A discover-only run enqueues the part of the listing its budget policy  *)
(* ranks high enough; a full batch run plans no job.                       *)
Enqueue(S) ==
  /\ col = "enqueue"
  /\ S \subseteq listed
  /\ EnqueueProfileJobs(S)
  /\ col' = "idle"
  /\ listed' = {}
  /\ NoFault
  /\ UNCHANGED <<clock, procs>>

EnqueueError ==
  /\ col = "enqueue"
  /\ Fault
  /\ col' = "idle"
  /\ listed' = {}
  /\ UNCHANGED <<tables, clock, procs>>

CollectorStep ==
  \/ \E S \in SUBSET Queries : Discover(S) \/ Enqueue(S)
  \/ Persist \/ PersistError \/ EnqueueError

(* query-doctor-recent-profile-remediation --apply *)
Remediate(S) ==
  /\ RequeueFailedJobs(S)
  /\ NoFault
  /\ UNCHANGED <<clock, procs, collector>>

Tick ==
  /\ clock < MaxTime
  /\ clock' = clock + 1
  /\ NoFault
  /\ UNCHANGED <<tables, procs, collector>>

Next ==
  \/ Tick
  \/ \E w \in Workers : WorkerStep(w)
  \/ CollectorStep
  \/ \E S \in SUBSET Queries : Remediate(S)

Spec == Init /\ [][Next]_vars

(* Worker runs are scheduled again and again and a started run goes on;    *)
(* time passes.  Nothing obliges the collector, the operator or a fault.   *)
Fairness ==
  /\ WF_vars(Tick)
  /\ \A w \in Workers : WF_vars(StartRun(w)) /\ WF_vars(RunStep(w))

FairSpec == Spec /\ Fairness

-----------------------------------------------------------------------------
(* Safety. *)

Ready(q) == \E p \in Prints : <<q, p>> \in cached /\ <<q, p>> \in artifact

(* A job is completed, and its summary row analyzed, only after the cache  *)
(* row and the artifact row of one fingerprint were both stored, whatever  *)
(* other workers, expired leases, crashes or storage errors come between   *)
(* the three transactions (complete_worker_job).                           *)
CompletedIsMaterialised ==
  \A q \in Queries :
    job[q].status = "completed" \/ summary[q] = "analyzed" => Ready(q)

(* A job goes back to pending only while its attempts are below the retry  *)
(* budget.  The worker compares the attempts it read when it claimed, the  *)
(* row counts every claim: the two agree as long as the worker holds the   *)
(* lease, which a shared lease-owner label would break (fail_worker_job).  *)
RetryBudget ==
  \A q \in Queries :
    job[q].status = "pending" => job[q].attempts < MaxAttempts

(* The profile_status a reader of the summary sees agrees with the job's   *)
(* row, although six statements with different conditions update the two   *)
(* tables.  Only a summary that a storage error kept from being written    *)
(* before its job may lag behind: absent, not collected or pending.        *)
Lagging == IF MaxFaults = 0 THEN {} ELSE {"absent", "not_collected", "pending"}

Tracking(status) ==
  CASE status = "absent"    -> {"absent", "not_collected"}
    [] status = "pending"   -> {"pending", "retry_pending"}
    [] status = "leased"    -> {"processing"}
    [] status = "completed" -> {"analyzed"}
    [] OTHER                -> {"failed"}

SummaryTracksJob ==
  \A q \in Queries : summary[q] \in Tracking(job[q].status) \cup Lagging

(* A batch lists jobs of equal priority from freshest to oldest            *)
(* (claim_profile_jobs, docs/recent-history-store.md).                     *)
FreshestFirst ==
  \A w \in Workers : \A i, j \in DOMAIN todo[w] :
    LET p == todo[w][i].query
        q == todo[w][j].query
    IN  i < j /\ Priority[p] = Priority[q] => EndTime[p] >= EndTime[q]

(* A job that aged out leaves no summary row waiting for its profile       *)
(* (age_out_profile_jobs, docs/recent-history-store.md).                   *)
AgedOutNotWaiting ==
  \A q \in Queries : job[q].status = "aged_out" => summary[q] \notin Waiting

-----------------------------------------------------------------------------
(* What is true of a worker between two of its transactions: the invariants *)
(* of ProfileWorkers_proofs are inductive together with these.             *)

InBatch(w) == pc[w] \notin {"idle", "age_out", "claim"}

(* A worker has a current job exactly while it is working on a batch, has  *)
(* a fingerprint to store or a failure to report when it needs one, and no *)
(* reading it kept is ahead of the clock.                                  *)
BatchShape ==
  \A w \in Workers :
    /\ InBatch(w) <=> todo[w] # <<>>
    /\ pc[w] \in {"cache", "artifact", "complete"} => out[w].print \in Prints
    /\ pc[w] = "fail" => out[w].kind \in {"retry", "failed", "aged_out"}
    /\ at[w] <= clock

(* The rows a worker has stored for its current job are still there.       *)
StoredSoFar ==
  \A w \in Workers :
    /\ pc[w] \in {"artifact", "complete"} => <<Current(w), out[w].print>> \in cached
    /\ pc[w] = "complete" => <<Current(w), out[w].print>> \in artifact

(* The attempts a worker remembers are those of the row while it holds it. *)
AttemptsAgree ==
  \A w \in Workers : \A i \in DOMAIN todo[w] :
    LET q == todo[w][i].query
    IN  Holds(q, OwnerOf[w]) => todo[w][i].attempts = job[q].attempts

-----------------------------------------------------------------------------
(* What a step may never do. *)

WorkerMoved == {w \in Workers : todo'[w] # todo[w] \/ pc'[w] # pc[w]}

(* Fencing: the row of a leased job changes only by a step of the worker   *)
(* that holds it, or once its lease has expired.  A worker that went on    *)
(* with a job reclaimed from it renews, completes and fails nothing.       *)
Fenced ==
  \A q \in Queries :
    job[q].status = "leased" /\ job'[q] # job[q] =>
      \/ Expired(q, clock)
      \/ \E w \in WorkerMoved : /\ OwnerOf[w] = job[q].owner
                                /\ todo[w] # <<>>
                                /\ Current(w) = q

OnlyHolderChangesLease == [][Fenced]_vars

(* What is settled stays: a completed or aged-out job never runs again, an *)
(* analyzed summary stays analyzed, and a failed job only goes back to pending *)
(* with a fresh budget.                                                    *)
SettledStays ==
  [][\A q \in Queries :
       /\ job[q].status \in {"completed", "aged_out"} => job'[q] = job[q]
       /\ job[q].status = "failed" /\ job'[q] # job[q] =>
            job'[q] = [NoJob EXCEPT !.status = "pending"]
       /\ summary[q] = "analyzed" => summary'[q] = "analyzed"]_vars

-----------------------------------------------------------------------------
(* The workers, the store and their clock implement the promise of         *)
(* ProfileLifecycle: a claim made with an old clock reading, a batch of     *)
(* several leases, a crash or a late worker shows no other behaviour.      *)
Lifecycle == INSTANCE ProfileLifecycle WITH
  phase  <- [q \in Queries |-> job[q].status],
  holder <- [q \in Queries |-> job[q].owner],
  lapsed <- {q \in Queries : Expired(q, clock)},
  ready  <- {q \in Queries : Ready(q)}

LifecycleSpec == Lifecycle!Spec

-----------------------------------------------------------------------------
(* A planned job is settled: claimed, reclaimed after crashes and storage  *)
(* errors, retried within its budget, until it is completed, failed or     *)
(* aged out.                                                               *)
EveryJobSettles ==
  \A q \in Queries :
    job[q].status = "pending" ~> job[q].status \in Terminal
=============================================================================
