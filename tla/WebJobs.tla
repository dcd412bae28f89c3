------------------------------- MODULE WebJobs -------------------------------
(***************************************************************************)
(* The job registry of one web server (query_doctor/web/jobs.py,           *)
(* WebJobStore): a dictionary in memory that request threads and job       *)
(* threads share.  Every method runs under one lock, so every method is    *)
(* one action here, and every method first prunes the jobs that have ended.*)
(*                                                                         *)
(* Stage labels, progress, messages and result pages are left out: no      *)
(* method decides anything by them.                                        *)
(***************************************************************************)
EXTENDS Integers, FiniteSets

CONSTANTS
  Job,           \* job ids; each is given out once (uuid4)
  Case,          \* cases whose pages start jobs, or forms that start scans
  Kind,          \* the kinds of job in play, of those below
  TerminalTtl,   \* how long a job that has ended is kept
  MaxTerminal    \* how many jobs that have ended are kept; 0 for any number

ReportKinds == {"batch_report", "batch_llm_report", "batch_case_actions"}
ScanKinds == {"batch", "running", "trino_recent"}

ASSUME WebJobsAssumption ==
  /\ IsFiniteSet(Job)
  /\ Kind \subseteq ReportKinds \cup ScanKinds
  /\ TerminalTtl \in Nat
  /\ MaxTerminal \in Nat

VARIABLES
  jobs,  \* WebJobStore._jobs: what is known of the jobs not pruned yet
  now    \* the registry's clock

registry == <<jobs, now>>

-----------------------------------------------------------------------------
TerminalStatus == {"ok", "failed", "cancelled"}

JobRecord == [kind : Kind, caseId : Case, cancelRequested : BOOLEAN,
              status : {"running"} \cup TerminalStatus, updatedAt : Nat]

IsRegistry(js) == DOMAIN js \subseteq Job /\ js \in [DOMAIN js -> JobRecord]

Ended(js) == {j \in DOMAIN js : js[j].status \in TerminalStatus}

Without(js, gone) == [j \in DOMAIN js \ gone |-> js[j]]

TooOld(js) == {j \in Ended(js) : now - js[j].updatedAt > TerminalTtl}

(* Mutant of Excess: one too many is kept. *)
ExcessOffByOne(js) ==
  IF MaxTerminal = 0 \/ Cardinality(Ended(js)) <= MaxTerminal + 1
    THEN 0
    ELSE Cardinality(Ended(js)) - MaxTerminal - 1

(* How many ended jobs are too many.                                       *)
Excess(js) ==
  IF MaxTerminal = 0 \/ Cardinality(Ended(js)) <= MaxTerminal
    THEN 0
    ELSE Cardinality(Ended(js)) - MaxTerminal

(* The jobs that ended first.  The code breaks ties by job id, which is     *)
(* random, so any choice among equals may happen.                          *)
Oldest(js) ==
  {R \in SUBSET Ended(js) :
     /\ Cardinality(R) = Excess(js)
     /\ \A r \in R, k \in Ended(js) \ R : js[r].updatedAt <= js[k].updatedAt}

(* What pruning may leave of js. *)
Pruned(js) ==
  LET recent == Without(js, TooOld(js))
  IN  {Without(recent, R) : R \in Oldest(recent)}

RunningReport(js, c) ==
  {j \in DOMAIN js : js[j].caseId = c /\ js[j].status = "running"}

CancelRequested(js, j) == j \in DOMAIN js /\ js[j].cancelRequested

-----------------------------------------------------------------------------
WebJobsInit ==
  /\ jobs = [j \in {} |-> 0]
  /\ now = 0

RegistryTypeOK == IsRegistry(jobs) /\ now \in Nat

(* Methods that only look: js is what they see. *)
Look(js) ==
  /\ js \in Pruned(jobs)
  /\ jobs' = js
  /\ UNCHANGED now

CreateBatchReport(j, c, kind) ==
  /\ \E js \in Pruned(jobs) :
       jobs' = [i \in DOMAIN js \cup {j} |->
                  IF i = j THEN [kind |-> kind, caseId |-> c, status |-> "running",
                                 cancelRequested |-> FALSE, updatedAt |-> now]
                           ELSE js[i]]
  /\ UNCHANGED now

(* A job that has ended keeps its status, but counts as just updated.  There *)
(* is no pruning afterwards.                                               *)
RequestCancel(j) ==
  /\ \E js \in Pruned(jobs) :
       jobs' = IF j \in DOMAIN js
                 THEN [js EXCEPT ![j].cancelRequested = TRUE,
                                 ![j].updatedAt = now,
                                 ![j].status = IF @ = "running" THEN "cancelled" ELSE @]
                 ELSE js
  /\ UNCHANGED now

(* Mutant of Settle: a job that was stopped meanwhile is settled again. *)
SettleStopped(j, status) ==
  /\ \E js \in Pruned(jobs) :
       IF j \in DOMAIN js
         THEN jobs' \in Pruned([js EXCEPT ![j].status = status, ![j].updatedAt = now])
         ELSE jobs' = js
  /\ UNCHANGED now

(* complete_html and fail: nothing happens to a job that no longer runs. *)
Settle(j, status) ==
  /\ \E js \in Pruned(jobs) :
       IF j \in DOMAIN js /\ js[j].status = "running"
         THEN jobs' \in Pruned([js EXCEPT ![j].status = status, ![j].updatedAt = now])
         ELSE jobs' = js
  /\ UNCHANGED now

=============================================================================
