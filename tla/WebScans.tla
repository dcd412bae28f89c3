------------------------------ MODULE WebScans ------------------------------
(***************************************************************************)
(* Scans started from the web server (web/batch_jobs.py with the registry  *)
(* of web/jobs.py): the request threads that start a scan or join one that *)
(* already runs with the same form, the job threads with the batch         *)
(* subprocess each of them runs and watches (web/subprocesses.py), and the *)
(* latest summaries every page of results and cases is made from.          *)
(*                                                                         *)
(* In the registry the caseId of a scan is the form it was asked with.     *)
(* Time stands still here: which of the jobs that have ended are forgotten *)
(* is decided by their number.                                             *)
(***************************************************************************)
EXTENDS WebJobs

CONSTANTS
  Request,      \* request threads
  Publishing,   \* forms that ask for the latest summary to be replaced
  NoJob,        \* no scan
  MaxCancels,   \* bound: times somebody stops a job
  MaxRestarts   \* bound: times the server restarts

ASSUME ScansAssumption ==
  /\ NoJob \notin Job
  /\ Kind \subseteq ScanKinds
  /\ Publishing \subseteq Case
  /\ {MaxCancels, MaxRestarts} \subseteq Nat

VARIABLES
  handler,   \* request threads between their checks and their job
  worker,    \* job threads, by job
  child,     \* batch subprocesses, by job
  summary,   \* batch_summary.json in the directory of a job
  latest,    \* the latest summaries, by the job whose directory they are in
  stopped,   \* for the properties: scans stopped while their subprocess ran
  cancels,   \* times somebody stopped a job
  restarts   \* times the server restarted

faults == <<cancels, restarts>>
vars == <<registry, handler, worker, child, summary, latest, stopped, faults>>

-----------------------------------------------------------------------------
Form == Case
Page == {"batch", "running"}

WorkerPc == {"none", "start", "scan", "poll", "stopping", "stopped", "returned",
             "check", "publish", "complete", "fail", "done", "down"}

ChildPc == {"none", "running", "exit0", "exit1", "killed"}

Alive(j) == child[j] = "running" /\ worker[j].pc \in {"poll", "stopping"}

WorkerTo(j, pc) == worker' = [worker EXCEPT ![j].pc = pc]

(* Running jobs of the same kind and form. *)
Same(js, form, kind) ==
  {j \in DOMAIN js : js[j].kind = kind /\ js[j].caseId = form /\ js[j].status = "running"}

(* Scans of running queries are never joined. *)
Joins(kind) == kind # "running"

-----------------------------------------------------------------------------
Init ==
  /\ WebJobsInit
  /\ handler = [r \in Request |-> [pc |-> "idle"]]
  /\ worker = [j \in Job |-> [pc |-> "none"]]
  /\ child = [j \in Job |-> "none"]
  /\ summary = [j \in Job |-> "none"]
  /\ latest = [p \in Page |-> NoJob]
  /\ stopped = {}
  /\ cancels = 0
  /\ restarts = 0

-----------------------------------------------------------------------------
(* Request threads.  A scan that already runs is answered with its page;   *)
(* otherwise the metadata source is tried, which takes its time.           *)

AskForScan(r, form, kind) ==
  /\ handler[r].pc = "idle"
  /\ handler' = [handler EXCEPT ![r] = [pc |-> "checked", form |-> form, kind |-> kind]]
  /\ IF Joins(kind)
       THEN \E js \in Pruned(jobs) : Look(js) /\ Same(js, form, kind) = {}
       ELSE UNCHANGED registry
  /\ UNCHANGED <<worker, child, summary, latest, stopped, faults>>

(* The preflight of the metadata source fails. *)
Refuse(r) ==
  /\ handler[r].pc = "checked"
  /\ handler[r].kind # "trino_recent"
  /\ handler' = [handler EXCEPT ![r] = [pc |-> "idle"]]
  /\ UNCHANGED <<registry, worker, child, summary, latest, stopped, faults>>

(* create_or_reuse looks again under the lock it creates the job under. *)
JoinScan(r) ==
  /\ handler[r].pc = "checked"
  /\ Joins(handler[r].kind)
  /\ \E js \in Pruned(jobs) : Look(js) /\ Same(js, handler[r].form, handler[r].kind) # {}
  /\ handler' = [handler EXCEPT ![r] = [pc |-> "idle"]]
  /\ UNCHANGED <<worker, child, summary, latest, stopped, faults>>

(* Mutant of MayCreate: the check of the request thread is relied on. *)
MayCreateAtOnce(js, form, kind) == kind \in Kind

MayCreate(js, form, kind) == Joins(kind) => Same(js, form, kind) = {}

StartScan(r, j) ==
  /\ handler[r].pc = "checked"
  /\ worker[j].pc = "none"
  /\ \E js \in Pruned(jobs) : MayCreate(js, handler[r].form, handler[r].kind)
  /\ CreateBatchReport(j, handler[r].form, handler[r].kind)
  /\ worker' = [worker EXCEPT ![j] = [pc |-> "start", form |-> handler[r].form,
                                      kind |-> handler[r].kind, page |-> "batch"]]
  /\ handler' = [handler EXCEPT ![r] = [pc |-> "idle"]]
  /\ UNCHANGED <<child, summary, latest, stopped, faults>>

(* Somebody stops a job. *)
Cancel(j) ==
  /\ cancels < MaxCancels
  /\ j \in DOMAIN jobs
  /\ RequestCancel(j)
  /\ cancels' = cancels + 1
  /\ stopped' = IF Alive(j) /\ j \in DOMAIN jobs' THEN stopped \cup {j} ELSE stopped
  /\ UNCHANGED <<handler, worker, child, summary, latest, restarts>>

(* A job page polls; anybody's look prunes. *)
LookAtJobs ==
  /\ \E js \in Pruned(jobs) : js # jobs /\ Look(js)
  /\ UNCHANGED <<handler, worker, child, summary, latest, stopped, faults>>

(* Jobs and latest summaries are in memory.  A subprocess goes on in its   *)
(* own directory, where nobody looks any more: it is not followed.         *)
Restart ==
  /\ restarts < MaxRestarts
  /\ restarts' = restarts + 1
  /\ jobs' = [j \in {} |-> 0]
  /\ latest' = [p \in Page |-> NoJob]
  /\ handler' = [r \in Request |-> [pc |-> "idle"]]
  /\ worker' = [j \in Job |-> IF worker[j].pc \in {"none", "done"} THEN worker[j]
                              ELSE [worker[j] EXCEPT !.pc = "down"]]
  /\ UNCHANGED <<now, child, summary, stopped, cancels>>

-----------------------------------------------------------------------------
(* The batch subprocess writes its summary last, in place.                 *)

ChildWrites(j) ==
  /\ Alive(j)
  /\ summary[j] = "none"
  /\ summary' = [summary EXCEPT ![j] = "torn"]
  /\ UNCHANGED <<registry, handler, worker, child, latest, stopped, faults>>

(* It ends well when its summary is written, or when it has none to write. *)
ChildEnds(j) ==
  /\ Alive(j)
  /\ child' = [child EXCEPT ![j] = "exit0"]
  /\ summary' = [summary EXCEPT ![j] = IF @ = "torn" THEN "whole" ELSE @]
  /\ UNCHANGED <<registry, handler, worker, latest, stopped, faults>>

ChildFails(j) ==
  /\ Alive(j)
  /\ child' = [child EXCEPT ![j] = "exit1"]
  /\ UNCHANGED <<registry, handler, worker, summary, latest, stopped, faults>>

ChildStep(j) == ChildWrites(j) \/ ChildEnds(j) \/ ChildFails(j)

-----------------------------------------------------------------------------
(* The job thread of an Impala scan (run_batch_job).                       *)

(* The command cannot be built or the process not started: a failed job.   *)
StartSubprocess(j) ==
  /\ worker[j].pc = "start"
  /\ worker[j].kind # "trino_recent"
  /\ \E js \in Pruned(jobs) : Look(js)
  /\ \/ WorkerTo(j, "poll") /\ child' = [child EXCEPT ![j] = "running"]
     \/ WorkerTo(j, "fail") /\ UNCHANGED child
  /\ UNCHANGED <<handler, summary, latest, stopped, faults>>

(* Mutant of Stops: a job that has ended needs no stop. *)
StopsWhileRunning(js, j) == CancelRequested(js, j) /\ js[j].status = "running"

Stops(js, j) == CancelRequested(js, j)

(* Each poll asks first whether the job was stopped, then whether the      *)
(* subprocess has ended, then whether its time is up.                      *)
PollCancelled(j) ==
  /\ worker[j].pc = "poll"
  /\ \E js \in Pruned(jobs) : Look(js) /\ Stops(js, j)
  /\ WorkerTo(j, "stopping")
  /\ UNCHANGED <<handler, child, summary, latest, stopped, faults>>

PollExited(j) ==
  /\ worker[j].pc = "poll"
  /\ \E js \in Pruned(jobs) : Look(js) /\ ~Stops(js, j)
  /\ ~Alive(j)
  /\ WorkerTo(j, "returned")
  /\ UNCHANGED <<handler, child, summary, latest, stopped, faults>>

(* A subprocess that ends after the poll and before SIGKILL has timed out  *)
(* all the same.                                                           *)
TimeOut(j) ==
  /\ worker[j].pc = "poll"
  /\ \E js \in Pruned(jobs) : Look(js) /\ ~Stops(js, j)
  /\ child' = IF Alive(j) THEN [child EXCEPT ![j] = "killed"] ELSE child
  /\ WorkerTo(j, "fail")
  /\ UNCHANGED <<handler, summary, latest, stopped, faults>>

(* Until it is killed the subprocess may go on, even to its end. *)
StopChild(j) ==
  /\ worker[j].pc = "stopping"
  /\ child' = IF Alive(j) THEN [child EXCEPT ![j] = "killed"] ELSE child
  /\ WorkerTo(j, "stopped")
  /\ UNCHANGED <<registry, handler, summary, latest, stopped, faults>>

(* Mutant of Succeeded: the exit code is not looked at. *)
EndedByItself(j) == worker[j].pc = "returned"

(* A subprocess that was stopped has an exit code of its own. *)
Succeeded(j) == worker[j].pc = "returned" /\ child[j] = "exit0"

Judge(j) ==
  /\ worker[j].pc \in {"returned", "stopped"}
  /\ \E js \in Pruned(jobs) :
       /\ Look(js)
       /\ WorkerTo(j, IF Stops(js, j) THEN "done"
                      ELSE IF Succeeded(j) THEN "check" ELSE "fail")
  /\ UNCHANGED <<handler, child, summary, latest, stopped, faults>>

(* Where a summary is published is told by the registry's record; a job    *)
(* that has been pruned counts as a scan of finished queries.              *)
PageOf(js, j) == IF j \in DOMAIN js /\ js[j].kind = "running" THEN "running" ELSE "batch"

Found(j, js) ==
  worker' = IF summary[j] = "none"
              THEN [worker EXCEPT ![j].pc = "fail"]
              ELSE [worker EXCEPT ![j].pc = "publish", ![j].page = PageOf(js, j)]

(* Mutant of FindSummary: the job is settled before it publishes.          *)
SettleAndFind(j) ==
  /\ worker[j].pc = "check"
  /\ Settle(j, "ok")
  /\ Found(j, jobs)
  /\ UNCHANGED <<handler, child, summary, latest, stopped, faults>>

FindSummary(j) ==
  /\ worker[j].pc = "check"
  /\ \E js \in Pruned(jobs) : Look(js) /\ Found(j, js)
  /\ UNCHANGED <<handler, child, summary, latest, stopped, faults>>

(* set_latest does not look at the job.  A summary that is published may   *)
(* still turn out not to render.                                           *)
Publish(j) ==
  LET publishes == worker[j].form \in Publishing IN
  /\ worker[j].pc = "publish"
  /\ latest' = IF publishes THEN [latest EXCEPT ![worker[j].page] = j] ELSE latest
  /\ \/ WorkerTo(j, "complete")
     \/ publishes /\ WorkerTo(j, "fail")
  /\ UNCHANGED <<registry, handler, child, summary, stopped, faults>>

(* The job thread of a Trino scan, which runs in the server and publishes  *)
(* nothing: it asks between its stages whether the job was stopped.        *)
TrinoScan(j) ==
  /\ worker[j].pc \in {"start", "scan"}
  /\ worker[j].kind = "trino_recent"
  /\ \E js \in Pruned(jobs) :
       /\ Look(js)
       /\ \E pc \in IF Stops(js, j) THEN {"done", "fail"}
                    ELSE IF worker[j].pc = "start" THEN {"scan", "fail"}
                    ELSE {"complete", "fail"} :
            WorkerTo(j, pc)
  /\ UNCHANGED <<handler, child, summary, latest, stopped, faults>>

(* Mutant of Finish: the job is given the name of the step as its status.  *)
FinishWithStep(j) ==
  /\ worker[j].pc \in {"complete", "fail"}
  /\ Settle(j, worker[j].pc)
  /\ WorkerTo(j, "done")
  /\ UNCHANGED <<handler, child, summary, latest, stopped, faults>>

Finish(j) ==
  /\ worker[j].pc \in {"complete", "fail"}
  /\ Settle(j, IF worker[j].pc = "complete" THEN "ok" ELSE "failed")
  /\ WorkerTo(j, "done")
  /\ UNCHANGED <<handler, child, summary, latest, stopped, faults>>

WorkerStep(j) ==
  \/ StartSubprocess(j) \/ PollCancelled(j) \/ PollExited(j) \/ TimeOut(j)
  \/ StopChild(j) \/ Judge(j) \/ FindSummary(j) \/ Publish(j)
  \/ TrinoScan(j) \/ Finish(j)

-----------------------------------------------------------------------------
Next ==
  \/ \E r \in Request, form \in Form, kind \in Kind : AskForScan(r, form, kind)
  \/ \E r \in Request : Refuse(r) \/ JoinScan(r)
  \/ \E r \in Request, j \in Job : StartScan(r, j)
  \/ \E j \in Job : Cancel(j)
  \/ LookAtJobs
  \/ Restart
  \/ \E j \in Job : ChildStep(j)
  \/ \E j \in Job : WorkerStep(j)

Spec == Init /\ [][Next]_vars

-----------------------------------------------------------------------------
HandlerState == [pc : {"idle"}] \cup [pc : {"checked"}, form : Form, kind : Kind]

WorkerState == [pc : {"none"}] \cup
               [pc : WorkerPc \ {"none"}, form : Form, kind : Kind, page : Page]

TypeOK ==
  /\ RegistryTypeOK
  /\ handler \in [Request -> HandlerState]
  /\ worker \in [Job -> WorkerState]
  /\ child \in [Job -> ChildPc]
  /\ summary \in [Job -> {"none", "torn", "whole"}]
  /\ latest \in [Page -> Job \cup {NoJob}]
  /\ stopped \subseteq Job
  /\ cancels \in Nat
  /\ restarts \in Nat

(* However many requests ask for it at once, a scan of finished queries or *)
(* of Trino runs once for a form: whoever comes second is sent to the      *)
(* first one's page, although the check and the creation are two calls.    *)
OneScanPerForm ==
  \A i, j \in DOMAIN jobs :
    /\ jobs[i].status = "running" /\ jobs[j].status = "running"
    /\ jobs[i].kind = jobs[j].kind /\ jobs[i].caseId = jobs[j].caseId
    /\ Joins(jobs[i].kind)
    => i = j

(* The pages are made from whole summaries: what a killed or failing       *)
(* subprocess left half written is never the latest.                       *)
LatestIsWhole == \A p \in Page : latest[p] # NoJob => summary[latest[p]] = "whole"

(* When a page says that a scan has ended, well or not, the latest summary *)
(* is in place: it does not change under the reader afterwards, so a later *)
(* scan that starts then is not undone by an earlier one that was slow.    *)
EndedPublishesNoMore ==
  [][\A p \in Page, j \in DOMAIN jobs :
       latest'[p] = j /\ latest[p] # j => jobs[j].status \in {"running", "cancelled"}]_vars

(* A stop wins: a scan that was stopped while its subprocess ran is never  *)
(* published, even if the subprocess goes on to its end, as long as the    *)
(* registry remembers the stop.                                            *)
StoppedNotPublished ==
  [][\A p \in Page :
       latest'[p] # latest[p] => latest'[p] \notin stopped \cap DOMAIN jobs]_vars

=============================================================================
