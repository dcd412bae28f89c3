--------------------------- MODULE ProfileJobStore ---------------------------
(***************************************************************************)
(* The tables of the Recent history store that background profile work     *)
(* reads and writes, and the transactions of the store's two back ends on  *)
(* them (query_doctor/recent/sqlite_history_store.py and                   *)
(* postgres_history_store.py).  Every operation is one database            *)
(* transaction, so it is one action here.  The store keeps no state of its *)
(* own: whatever protects one worker from another is in the guards of      *)
(* these statements.                                                       *)
(*                                                                         *)
(* A query stands for the key (engine, source_kind, source_key, query_id). *)
(* The columns no statement below compares (payloads, labels, timestamps   *)
(* kept for display and retention) are left out.                           *)
(***************************************************************************)
EXTENDS Integers, FiniteSets

CONSTANTS
  Queries,      \* retained queries, one row each in every table
  Owners,       \* normalised lease-owner labels
  NoOwner,      \* lease_owner IS NULL
  Prints,       \* profile fingerprints (sha256 of the profile digest)
  Statements,   \* normalised full-statement fingerprints
  NoStatement,  \* no verified statement fingerprint
  StatementOf,  \* the statement fingerprint a fetched profile proves, if any
  NoEnd,        \* summary_end_time IS NULL; sorts before every end time
  EndTime,      \* summary_end_time of the job row, fixed when it is inserted
  Priority,     \* priority_score of the job row
  KeyOrder,     \* rank of query_id in text order
  Backend       \* "sqlite" or "postgres"

ASSUME StoreAssumption ==
  /\ IsFiniteSet(Queries)
  /\ NoOwner \notin Owners
  /\ NoStatement \notin Statements
  /\ StatementOf \in [Prints -> Statements \cup {NoStatement}]
  /\ NoEnd \in Nat
  /\ EndTime \in [Queries -> Nat]
  /\ Priority \in [Queries -> Nat]
  /\ KeyOrder \in [Queries -> Nat]
  /\ Backend \in {"sqlite", "postgres"}

VARIABLES
  job,       \* recent_profile_job, by query
  summary,   \* profile_status of recent_query_summary, by query
  cached,    \* ready rows of recent_analysis_cache: <<query, fingerprint>>
  artifact,  \* available rows of recent_profile_artifact, likewise
  identity   \* verified statement_fingerprint of the summary row

tables == <<job, summary, cached, artifact, identity>>

-----------------------------------------------------------------------------
JobStatus == {"absent", "pending", "leased", "completed", "failed", "aged_out"}

Terminal == {"completed", "failed", "aged_out"}

SummaryStatus == {"absent", "not_collected", "pending", "processing",
                  "retry_pending", "analyzed", "failed"}

(* Summary rows that still wait for a profile. *)
Waiting == {"pending", "processing", "retry_pending"}

ErrorCode == {"none", "retryable", "terminal", "retry_exhausted",
              "profile_not_found", "profile_aged_out"}

JobRow == [status   : JobStatus,
           attempts : Nat,
           owner    : Owners \cup {NoOwner},
           until    : Nat,
           error    : ErrorCode]

NoJob == [status |-> "absent", attempts |-> 0, owner |-> NoOwner,
          until |-> 0, error |-> "none"]

StoreTypeOK ==
  /\ job \in [Queries -> JobRow]
  /\ summary \in [Queries -> SummaryStatus]
  /\ cached \subseteq Queries \X Prints
  /\ artifact \subseteq Queries \X Prints
  /\ identity \in [Queries -> Statements \cup {NoStatement}]

StoreInit ==
  /\ job = [q \in Queries |-> NoJob]
  /\ summary = [q \in Queries |-> "absent"]
  /\ cached = {}
  /\ artifact = {}
  /\ identity = [q \in Queries |-> NoStatement]

-----------------------------------------------------------------------------
(* Which rows a statement selects. *)

Holds(q, o) == job[q].status = "leased" /\ job[q].owner = o

Expired(q, now) == job[q].status = "leased" /\ job[q].until <= now

(* Mutant of Claimable: an expired lease is never taken over. *)
ClaimablePending(q, now) == job[q].status = "pending"

(* Mutant of Claimable: a lease is taken over before it expires. *)
ClaimableLeased(q, now) == job[q].status \in {"pending", "leased"}

Claimable(q, now) == job[q].status = "pending" \/ Expired(q, now)

(* Mutant of SelectedBefore: the oldest first. *)
SelectedOldest(p, q) ==
  \/ Priority[p] > Priority[q]
  \/ Priority[p] = Priority[q] /\ EndTime[p] < EndTime[q]

(* ORDER BY priority_score DESC, summary_end_time DESC NULLS LAST, query_id *)
SelectedBefore(p, q) ==
  \/ Priority[p] > Priority[q]
  \/ /\ Priority[p] = Priority[q]
     /\ \/ EndTime[p] > EndTime[q]
        \/ EndTime[p] = EndTime[q] /\ KeyOrder[p] < KeyOrder[q]

(* The order of the records a claim returns.  SQLite returns the rows as   *)
(* selected; PostgreSQL returns them in no order, and the adapter sorts    *)
(* them by (-priority_score, summary_end_time or "", query_id).            *)
ReturnedBefore(p, q) ==
  IF Backend = "sqlite"
  THEN SelectedBefore(p, q)
  ELSE \/ Priority[p] > Priority[q]
       \/ /\ Priority[p] = Priority[q]
          /\ \/ EndTime[p] < EndTime[q]
             \/ EndTime[p] = EndTime[q] /\ KeyOrder[p] < KeyOrder[q]

(* The first limit claimable rows. *)
Selection(now, limit) ==
  LET C == {q \in Queries : Claimable(q, now)}
  IN  {q \in C : Cardinality({p \in C : SelectedBefore(p, q)}) < limit}

(* The set S as the claim returns it: a set of at most one sequence. *)
Returned(S) ==
  {s \in [1..Cardinality(S) -> S] :
     \A i, j \in 1..Cardinality(S) : i < j => ReturnedBefore(s[i], s[j])}

(* Unfinished jobs whose query ended before the cutoff. *)
Overdue(cutoff, now) ==
  {q \in Queries : /\ EndTime[q] # NoEnd
                   /\ EndTime[q] < cutoff
                   /\ Claimable(q, now)}

Failed == {q \in Queries : job[q].status = "failed"}

-----------------------------------------------------------------------------
(* The profile_status update every transition shares: a new value never    *)
(* turns a progressed row back to pending, nor a settled one to processing. *)
Progress(old, new) ==
  IF \/ old = "absent"
     \/ new = "pending" /\ old # "not_collected"
     \/ new = "processing" /\ old \in {"analyzed", "failed"}
  THEN old
  ELSE new

SetStatus(S, new) ==
  summary' = [q \in Queries |-> IF q \in S THEN Progress(summary[q], new)
                                ELSE summary[q]]

(* A row that leaves the leased status drops its owner and expiry. *)
Unleased(row, status, error) ==
  [status |-> status, attempts |-> row.attempts, owner |-> NoOwner,
   until |-> 0, error |-> error]

UpsertSummaries(S) ==
  /\ summary' = [q \in Queries |-> IF q \in S /\ summary[q] = "absent"
                                   THEN "not_collected" ELSE summary[q]]
  /\ UNCHANGED <<job, cached, artifact, identity>>

(* Mutant of EnqueueProfileJobs: a conflicting row is replaced. *)
EnqueueReplacing(S) ==
  /\ job' = [q \in Queries |-> IF q \in S THEN [NoJob EXCEPT !.status = "pending"]
                               ELSE job[q]]
  /\ SetStatus(S, "pending")
  /\ UNCHANGED <<cached, artifact, identity>>

EnqueueProfileJobs(S) ==
  /\ job' = [q \in Queries |-> IF q \in S /\ job[q].status = "absent"
                               THEN [NoJob EXCEPT !.status = "pending"]
                               ELSE job[q]]
  /\ SetStatus(S, "pending")
  /\ UNCHANGED <<cached, artifact, identity>>

ClaimProfileJobs(S, owner, expiry) ==
  /\ job' = [q \in Queries |->
               IF q \in S
               THEN [status |-> "leased", attempts |-> job[q].attempts + 1,
                     owner |-> owner, until |-> expiry, error |-> job[q].error]
               ELSE job[q]]
  /\ SetStatus(S, "processing")
  /\ UNCHANGED <<cached, artifact, identity>>

RenewLease(q, owner, expiry) ==
  /\ Holds(q, owner)
  /\ job' = [job EXCEPT ![q].until = expiry]
  /\ UNCHANGED <<summary, cached, artifact, identity>>

(* Mutant of MayComplete: the owner is not compared. *)
MayCompleteAnyLease(q, owner, statement, completedAt) ==
  /\ job[q].status = "leased"
  /\ statement # NoStatement => job[q].until > completedAt

(* Promoting a statement identity also needs an unexpired lease. *)
MayComplete(q, owner, statement, completedAt) ==
  /\ Holds(q, owner)
  /\ statement # NoStatement => job[q].until > completedAt

(* A verified identity is replaced by no other. *)
Promoted(old, statement) ==
  IF statement = NoStatement \/ old \in Statements THEN old ELSE statement

CompleteProfileJob(q, owner, statement, completedAt) ==
  /\ MayComplete(q, owner, statement, completedAt)
  /\ job' = [job EXCEPT ![q] = Unleased(job[q], "completed", "none")]
  /\ identity' = IF summary[q] = "absent" THEN identity
                 ELSE [identity EXCEPT ![q] = Promoted(identity[q], statement)]
  /\ SetStatus({q}, "analyzed")
  /\ UNCHANGED <<cached, artifact>>

(* Mutant of NextJobStatus: the profile status in place of the job status. *)
NextProfileStatus(kind) == IF kind = "retry" THEN "retry_pending" ELSE "failed"

NextJobStatus(kind) ==
  CASE kind = "retry"    -> "pending"
    [] kind = "aged_out" -> "aged_out"
    [] OTHER             -> "failed"

(* Mutant of FailProfileJob: the summary is not updated with the job. *)
FailJobOnly(q, owner, kind, error) ==
  /\ Holds(q, owner)
  /\ job' = [job EXCEPT ![q] = Unleased(job[q], NextJobStatus(kind), error)]
  /\ UNCHANGED <<summary, cached, artifact, identity>>

FailProfileJob(q, owner, kind, error) ==
  /\ Holds(q, owner)
  /\ job' = [job EXCEPT ![q] = Unleased(job[q], NextJobStatus(kind), error)]
  /\ SetStatus({q}, IF kind = "retry" THEN "retry_pending" ELSE "failed")
  /\ UNCHANGED <<cached, artifact, identity>>

RequeueFailedJobs(S) ==
  /\ S # {} /\ S \subseteq Failed
  /\ job' = [q \in Queries |-> IF q \in S
                               THEN [NoJob EXCEPT !.status = "pending"]
                               ELSE job[q]]
  /\ summary' = [q \in Queries |-> IF q \in S /\ summary[q] = "failed"
                                   THEN "pending" ELSE summary[q]]
  /\ UNCHANGED <<cached, artifact, identity>>

AgeOutProfileJobs(cutoff, now) ==
  LET S == Overdue(cutoff, now)
  IN  /\ job' = [q \in Queries |->
                   IF q \in S
                   THEN Unleased(job[q], "aged_out", "profile_aged_out")
                   ELSE job[q]]
      /\ summary' = [q \in Queries |-> IF q \in S /\ summary[q] \in Waiting
                                       THEN "failed" ELSE summary[q]]
      /\ UNCHANGED <<cached, artifact, identity>>

(* The two materialisation writes carry no lease owner: a worker that lost *)
(* its lease stores its rows all the same.                                 *)
StoreAnalysisCache(q, print) ==
  /\ cached' = cached \cup {<<q, print>>}
  /\ UNCHANGED <<job, summary, artifact, identity>>

StoreProfileArtifact(q, print) ==
  /\ artifact' = artifact \cup {<<q, print>>}
  /\ UNCHANGED <<job, summary, cached, identity>>
=============================================================================
