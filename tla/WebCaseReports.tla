--------------------------- MODULE WebCaseReports ---------------------------
(***************************************************************************)
(* Reports of a case, made and shown by the web server: the request        *)
(* threads that start a report job (web/batch_case_actions.py), the job    *)
(* threads (web/job_workers.py) with the subprocess each of them runs and  *)
(* watches (web/subprocesses.py, cli/report.py), the report file and the   *)
(* marker that makes it trusted (web/trusted_markers.py), and the readers  *)
(* who open a trusted report (web/trusted_artifacts.py).                   *)
(*                                                                         *)
(* The facts file of a case is written before any of this and never again, *)
(* so its hash in the marker always matches and is left out.  A hash is    *)
(* as good as the text it is taken of.                                     *)
(***************************************************************************)
EXTENDS WebJobs

CONSTANTS
  Request,      \* request threads
  Reader,       \* request threads that open a report
  Text,         \* reports the validator accepts
  NoJob,        \* no job yet
  MaxCancels,   \* bound: times somebody stops a job
  MaxRestarts,  \* bound: times the server restarts
  MaxTime       \* bound on the registry's clock

ASSUME ReportsAssumption ==
  /\ Kind \subseteq ReportKinds
  /\ NoJob \notin Job
  /\ {"none", "torn"} \cap Text = {}
  /\ {MaxCancels, MaxRestarts, MaxTime} \subseteq Nat

VARIABLES
  handler,   \* request threads between their check and their job
  worker,    \* job threads, by job
  child,     \* report subprocesses, by job
  report,    \* report files
  marker,    \* what each report's marker has the hash of
  reader,    \* threads opening a report
  cancels,   \* times somebody stopped a job
  restarts   \* times the server restarted

files == <<report, marker>>
faults == <<cancels, restarts>>
vars == <<registry, handler, worker, child, files, reader, faults>>

-----------------------------------------------------------------------------
(* One report file per case and variant.                                   *)
Variant == {"python", "llm"}
File == Case \X Variant

VariantOf(kind) == IF kind = "batch_llm_report" THEN "llm" ELSE "python"

(* "torn" is what a reader finds while a report is written over, or after  *)
(* its writer was killed.                                                  *)
Content == Text \cup {"none", "torn"}

WorkerPc == {"none", "start", "poll", "stopping", "stopped", "returned", "hash",
             "mark", "marking", "optimize", "complete", "fail", "done", "down"}

ChildPc == {"none", "generate", "write", "exit0", "exit1", "exit4", "killed"}

Alive(j) == child[j].pc \in {"generate", "write"}

FileOf(j) == <<worker[j].caseId, VariantOf(worker[j].kind)>>

Writing(f) == {j \in Job : child[j].pc = "write" /\ FileOf(j) = f}

Trusted(f) == marker[f] # "none" /\ marker[f] = report[f].text

WorkerTo(j, pc) == worker' = [worker EXCEPT ![j].pc = pc]

ChildTo(j, pc) == child' = [child EXCEPT ![j].pc = pc]

-----------------------------------------------------------------------------
Init ==
  /\ WebJobsInit
  /\ handler = [r \in Request |-> [pc |-> "idle"]]
  /\ worker = [j \in Job |-> [pc |-> "none"]]
  /\ child = [j \in Job |-> [pc |-> "none", text |-> "none"]]
  /\ report = [f \in File |-> [text |-> "none", by |-> NoJob, mixed |-> FALSE]]
  /\ marker = [f \in File |-> "none"]
  /\ reader = [r \in Reader |-> [pc |-> "idle"]]
  /\ cancels = 0
  /\ restarts = 0

-----------------------------------------------------------------------------
(* Request threads: a report job is started in two steps, a look whether    *)
(* one runs for the case and the creation of a new one.                    *)

AskForReport(r, c, kind) ==
  /\ handler[r].pc = "idle"
  /\ \E js \in Pruned(jobs) :
       /\ Look(js)
       /\ handler' = IF RunningReport(js, c) = {}
                       THEN [handler EXCEPT ![r] = [pc |-> "checked", caseId |-> c, kind |-> kind]]
                       ELSE handler
  /\ UNCHANGED <<worker, child, files, reader, faults>>

StartReportJob(r, j) ==
  /\ handler[r].pc = "checked"
  /\ worker[j].pc = "none"
  /\ CreateBatchReport(j, handler[r].caseId, handler[r].kind)
  /\ worker' = [worker EXCEPT ![j] = [pc |-> "start", caseId |-> handler[r].caseId,
                                      kind |-> handler[r].kind, hash |-> "none"]]
  /\ handler' = [handler EXCEPT ![r] = [pc |-> "idle"]]
  /\ UNCHANGED <<child, files, reader, faults>>

(* Somebody stops a job. *)
Cancel(j) ==
  /\ cancels < MaxCancels
  /\ j \in DOMAIN jobs
  /\ RequestCancel(j)
  /\ cancels' = cancels + 1
  /\ UNCHANGED <<handler, worker, child, files, reader, restarts>>

(* A job page polls; anybody's look prunes. *)
LookAtJobs ==
  /\ \E js \in Pruned(jobs) : js # jobs /\ Look(js)
  /\ UNCHANGED <<handler, worker, child, files, reader, faults>>

Tick ==
  /\ now < MaxTime
  /\ now' = now + 1
  /\ UNCHANGED <<jobs, handler, worker, child, files, reader, faults>>

(* The registry is in memory and the job threads die with the server, but  *)
(* a subprocess has a session of its own and goes on.                      *)
Restart ==
  /\ restarts < MaxRestarts
  /\ restarts' = restarts + 1
  /\ jobs' = [j \in {} |-> 0]
  /\ handler' = [r \in Request |-> [pc |-> "idle"]]
  /\ reader' = [r \in Reader |-> [pc |-> "idle"]]
  /\ worker' = [j \in Job |-> IF worker[j].pc \in {"none", "done"} THEN worker[j]
                              ELSE [worker[j] EXCEPT !.pc = "down"]]
  /\ UNCHANGED <<now, child, files, cancels>>

-----------------------------------------------------------------------------
(* The report subprocess (cli/report.py).  It writes its report only after *)
(* the validator has accepted it, over the old one and in place.           *)

ChildRejects(j) ==
  /\ child[j].pc = "generate"
  /\ ChildTo(j, "exit4")
  /\ UNCHANGED <<registry, handler, worker, files, reader, faults>>

(* The model or the disk fails. *)
ChildFails(j) ==
  /\ Alive(j)
  /\ ChildTo(j, "exit1")
  /\ UNCHANGED <<registry, handler, worker, files, reader, faults>>

ChildTruncates(j, text) ==
  /\ child[j].pc = "generate"
  /\ child' = [child EXCEPT ![j] = [pc |-> "write", text |-> text]]
  /\ report' = [report EXCEPT ![FileOf(j)] =
                  [text |-> "torn", by |-> j, mixed |-> Writing(FileOf(j)) # {}]]
  /\ reader' = [r \in Reader |->
                  IF reader[r].pc \in {"compare", "read"} /\ reader[r].file = FileOf(j)
                    THEN [reader[r] EXCEPT !.overtaken = TRUE]
                    ELSE reader[r]]
  /\ UNCHANGED <<registry, handler, worker, marker, faults>>

(* What two writers leave behind depends on how their writes interleave.   *)
ChildFinishes(j) ==
  LET f == FileOf(j) IN
  /\ child[j].pc = "write"
  /\ ChildTo(j, "exit0")
  /\ \E text \in {child[j].text} \cup (IF report[f].mixed THEN {"torn"} ELSE {}) :
       report' = [report EXCEPT ![f] =
                    [text |-> text, by |-> report[f].by,
                     mixed |-> report[f].mixed /\ Writing(f) # {j}]]
  /\ UNCHANGED <<registry, handler, worker, marker, reader, faults>>

ChildStep(j) ==
  \/ ChildRejects(j) \/ ChildFails(j) \/ ChildFinishes(j)
  \/ \E text \in Text : ChildTruncates(j, text)

-----------------------------------------------------------------------------
(* The job thread: run_batch_case_report_job, and for a "case actions" job *)
(* run_llm_actions_job.                                                    *)

StartSubprocess(j) ==
  /\ worker[j].pc = "start"
  /\ \E js \in Pruned(jobs) : Look(js)
  /\ WorkerTo(j, "poll")
  /\ ChildTo(j, "generate")
  /\ UNCHANGED <<handler, files, reader, faults>>

(* Each poll asks first whether the job was stopped, then whether the      *)
(* subprocess has ended, then whether its time is up.                      *)
PollCancelled(j) ==
  /\ worker[j].pc = "poll"
  /\ \E js \in Pruned(jobs) : Look(js) /\ CancelRequested(js, j)
  /\ WorkerTo(j, "stopping")
  /\ UNCHANGED <<handler, child, files, reader, faults>>

PollExited(j) ==
  /\ worker[j].pc = "poll"
  /\ \E js \in Pruned(jobs) : Look(js) /\ ~CancelRequested(js, j)
  /\ ~Alive(j)
  /\ WorkerTo(j, "returned")
  /\ UNCHANGED <<handler, child, files, reader, faults>>

(* Mutant of TimeOut: the exception is not turned into a failed job. *)
TimeOutUnreported(j) ==
  /\ worker[j].pc = "poll"
  /\ \E js \in Pruned(jobs) : Look(js) /\ ~CancelRequested(js, j)
  /\ child' = IF Alive(j) THEN [child EXCEPT ![j].pc = "killed"] ELSE child
  /\ WorkerTo(j, "done")
  /\ UNCHANGED <<handler, files, reader, faults>>

(* A subprocess that ends after the poll and before SIGKILL has timed out  *)
(* all the same.                                                           *)
TimeOut(j) ==
  /\ worker[j].pc = "poll"
  /\ \E js \in Pruned(jobs) : Look(js) /\ ~CancelRequested(js, j)
  /\ child' = IF Alive(j) THEN [child EXCEPT ![j].pc = "killed"] ELSE child
  /\ WorkerTo(j, "fail")
  /\ UNCHANGED <<handler, files, reader, faults>>

(* Mutant of StopChild: the signal is sent and nobody waits. *)
StopChildUnwaited(j) ==
  /\ worker[j].pc = "stopping"
  /\ WorkerTo(j, "stopped")
  /\ UNCHANGED <<registry, handler, child, files, reader, faults>>

(* SIGTERM, two seconds of grace, SIGKILL; until then the subprocess may   *)
(* go on, even to its end.                                                 *)
StopChild(j) ==
  /\ worker[j].pc = "stopping"
  /\ child' = IF Alive(j) THEN [child EXCEPT ![j].pc = "killed"] ELSE child
  /\ WorkerTo(j, "stopped")
  /\ UNCHANGED <<registry, handler, files, reader, faults>>

(* Mutant of Succeeded: the exit code is not looked at. *)
EndedByItself(j) == worker[j].pc = "returned"

(* Only a subprocess that ended by itself and well is believed. *)
Succeeded(j) == worker[j].pc = "returned" /\ child[j].pc = "exit0"

IsCaseActions(j) == worker[j].kind = "batch_case_actions"

(* A stopped report job ends here; case actions ask again in their next    *)
(* stage.                                                                  *)
Judge(j) ==
  /\ worker[j].pc \in {"returned", "stopped"}
  /\ \E js \in Pruned(jobs) :
       /\ Look(js)
       /\ WorkerTo(j, IF CancelRequested(js, j)
                        THEN IF IsCaseActions(j) THEN "optimize" ELSE "done"
                        ELSE IF Succeeded(j) THEN "hash" ELSE "fail")
  /\ UNCHANGED <<handler, child, files, reader, faults>>

HashReport(j) ==
  /\ worker[j].pc = "hash"
  /\ worker' = IF report[FileOf(j)].text = "none"
                 THEN [worker EXCEPT ![j].pc = "fail"]
                 ELSE [worker EXCEPT ![j].pc = "mark", ![j].hash = report[FileOf(j)].text]
  /\ UNCHANGED <<registry, handler, child, files, reader, faults>>

(* write_text empties the marker before it writes; an empty marker trusts  *)
(* nothing.                                                                *)
TruncateMarker(j) ==
  /\ worker[j].pc = "mark"
  /\ marker' = [marker EXCEPT ![FileOf(j)] = "none"]
  /\ WorkerTo(j, "marking")
  /\ UNCHANGED <<registry, handler, child, report, reader, faults>>

(* Mutant of WriteMarker: the variant is forgotten. *)
WriteDefaultMarker(j) ==
  /\ worker[j].pc = "marking"
  /\ marker' = [marker EXCEPT ![<<worker[j].caseId, "python">>] = worker[j].hash]
  /\ WorkerTo(j, IF IsCaseActions(j) THEN "optimize" ELSE "complete")
  /\ UNCHANGED <<registry, handler, child, report, reader, faults>>

WriteMarker(j) ==
  /\ worker[j].pc = "marking"
  /\ marker' = [marker EXCEPT ![FileOf(j)] = worker[j].hash]
  /\ WorkerTo(j, IF IsCaseActions(j) THEN "optimize" ELSE "complete")
  /\ UNCHANGED <<registry, handler, child, report, reader, faults>>

(* The second subprocess of case actions, of which only the outcome counts. *)
Optimize(j) ==
  /\ worker[j].pc = "optimize"
  /\ \E js \in Pruned(jobs) :
       /\ Look(js)
       /\ \E pc \in IF CancelRequested(js, j) THEN {"done"} ELSE {"complete", "fail"} :
            WorkerTo(j, pc)
  /\ UNCHANGED <<handler, child, files, reader, faults>>

(* Mutant of Finish: the stage is stored as the status. *)
FinishWithStage(j) ==
  /\ worker[j].pc \in {"complete", "fail"}
  /\ Settle(j, worker[j].pc)
  /\ WorkerTo(j, "done")
  /\ UNCHANGED <<handler, child, files, reader, faults>>

Finish(j) ==
  /\ worker[j].pc \in {"complete", "fail"}
  /\ Settle(j, IF worker[j].pc = "complete" THEN "ok" ELSE "failed")
  /\ WorkerTo(j, "done")
  /\ UNCHANGED <<handler, child, files, reader, faults>>

WorkerStep(j) ==
  \/ StartSubprocess(j) \/ PollCancelled(j) \/ PollExited(j) \/ TimeOut(j)
  \/ StopChild(j) \/ Judge(j) \/ HashReport(j) \/ TruncateMarker(j)
  \/ WriteMarker(j) \/ Optimize(j) \/ Finish(j)

-----------------------------------------------------------------------------
(* Opening a trusted report reads three times: the marker, the report to   *)
(* compare its hash, and the report again to show it.  overtaken notes a   *)
(* report subprocess that began to write in between; no step looks at it.  *)

ReadMarker(r, f) ==
  /\ reader[r].pc = "idle"
  /\ report[f].text # "none"
  /\ marker[f] # "none"
  /\ reader' = [reader EXCEPT ![r] = [pc |-> "compare", file |-> f,
                                      text |-> marker[f], overtaken |-> FALSE]]
  /\ UNCHANGED <<registry, handler, worker, child, files, faults>>

(* Mutant of Matches: a marker is enough. *)
MatchesAnything(r) == report[reader[r].file].text \in Content

Matches(r) == report[reader[r].file].text = reader[r].text

CompareHash(r) ==
  /\ reader[r].pc = "compare"
  /\ reader' = [reader EXCEPT ![r] = IF Matches(r) THEN [@ EXCEPT !.pc = "read"]
                                                   ELSE [pc |-> "idle"]]
  /\ UNCHANGED <<registry, handler, worker, child, files, faults>>

ShowReport(r) ==
  /\ reader[r].pc = "read"
  /\ reader' = [reader EXCEPT ![r].pc = "shown",
                              ![r].text = report[reader[r].file].text]
  /\ UNCHANGED <<registry, handler, worker, child, files, faults>>

CloseReport(r) ==
  /\ reader[r].pc = "shown"
  /\ reader' = [reader EXCEPT ![r] = [pc |-> "idle"]]
  /\ UNCHANGED <<registry, handler, worker, child, files, faults>>

-----------------------------------------------------------------------------
Next ==
  \/ \E r \in Request, c \in Case, kind \in Kind : AskForReport(r, c, kind)
  \/ \E r \in Request, j \in Job : StartReportJob(r, j)
  \/ \E j \in Job : Cancel(j)
  \/ LookAtJobs
  \/ Tick
  \/ Restart
  \/ \E j \in Job : ChildStep(j)
  \/ \E j \in Job : WorkerStep(j)
  \/ \E r \in Reader, f \in File : ReadMarker(r, f)
  \/ \E r \in Reader : CompareHash(r) \/ ShowReport(r) \/ CloseReport(r)

Spec == Init /\ [][Next]_vars

(* A started job thread goes on: its loop polls every 50 ms and its         *)
(* subprocess has a time limit.  Nothing is assumed of the subprocess.     *)
FairSpec == Spec /\ \A j \in Job : WF_vars(WorkerStep(j))

-----------------------------------------------------------------------------
HandlerState == [pc : {"idle"}] \cup [pc : {"checked"}, caseId : Case, kind : Kind]

WorkerState == [pc : {"none"}] \cup
               [pc : WorkerPc \ {"none"}, caseId : Case, kind : Kind, hash : Content]

ReaderState == [pc : {"idle"}] \cup
               [pc : {"compare", "read", "shown"}, file : File,
                text : Content, overtaken : BOOLEAN]

TypeOK ==
  /\ RegistryTypeOK
  /\ handler \in [Request -> HandlerState]
  /\ worker \in [Job -> WorkerState]
  /\ child \in [Job -> [pc : ChildPc, text : Text \cup {"none"}]]
  /\ report \in [File -> [text : Content, by : Job \cup {NoJob}, mixed : BOOLEAN]]
  /\ marker \in [File -> Content]
  /\ reader \in [Reader -> ReaderState]
  /\ cancels \in Nat
  /\ restarts \in Nat

(* A report that its marker trusts is one the validator accepted, whole:    *)
(* whatever was killed, rejected or timed out while it was written.        *)
(* docs/safety-contract.md: "Partial or invalid report output is untrusted *)
(* and must not be displayed as the final diagnosis."                      *)
TrustedIsWhole == \A f \in File : Trusted(f) => report[f].text \in Text

(* The page of a job that ended well offers a report that opens: as long as *)
(* no later job has begun to write, the report is trusted.                 *)
OkIsTrusted ==
  \A j \in DOMAIN jobs :
    jobs[j].status = "ok" /\ report[FileOf(j)].by = j => Trusted(FileOf(j))

(* A reader whom no writer overtakes is shown a whole, accepted report,     *)
(* although the report was checked in one read and shown from another.     *)
QuietReaderSeesWhole ==
  \A r \in Reader : reader[r].pc = "shown" /\ ~reader[r].overtaken => reader[r].text \in Text

(* A job thread that is past its subprocess leaves none behind: a stopped   *)
(* or timed-out report is not written any more.                            *)
NoStrayChild ==
  \A j \in Job : worker[j].pc \notin {"poll", "stopping", "down"} => ~Alive(j)

(* Ended jobs do not pile up: whatever changes the registry leaves no more *)
(* of them than are kept, but for a stop, which ends a job after the look   *)
(* that prunes.                                                            *)
EndedBounded ==
  [][MaxTerminal > 0 /\ jobs' # jobs /\ cancels' = cancels
     => Cardinality(Ended(jobs')) <= MaxTerminal]_vars

(* A job leaves the state it ended in only by being forgotten, and a running *)
(* job is forgotten by nothing but a restart, unless it ends in the same    *)
(* step: a late completion or failure does not overwrite a stop, nor a late *)
(* stop a completion, and no pruning loses a job that still runs.          *)
EndedForGood ==
  \A j \in DOMAIN jobs :
    IF jobs[j].status = "running"
      THEN j \in DOMAIN jobs' \/ worker'[j].pc = "done"
      ELSE j \in DOMAIN jobs' => jobs'[j].status = jobs[j].status

JobsOnlyEnd == [][restarts' # restarts \/ EndedForGood]_vars

Runs(j) == j \in DOMAIN jobs /\ jobs[j].status = "running"

(* Every job ends, whatever its subprocess does, unless it is forgotten. *)
EveryJobEnds == \A j \in Job : Runs(j) ~> ~Runs(j)

=============================================================================
