--------------------------- MODULE WebScans_proofs ---------------------------
(***************************************************************************)
(* Proofs about WebScans, for any number of jobs, forms and request        *)
(* threads, any retention of ended jobs, and any number of stops and       *)
(* restarts.                                                               *)
(***************************************************************************)
EXTENDS WebScans, WebJobs_proofs, TLAPS

-----------------------------------------------------------------------------
(* The inductive invariant.                                                *)

(* A job the registry knows has a job thread, so no id is given out twice; *)
(* and as long as its thread goes on nothing but a stop has ended it.      *)
KnownJobs ==
  \A j \in DOMAIN jobs :
    /\ worker[j].pc \notin {"none", "down"}
    /\ worker[j].pc # "done" => jobs[j].status \in {"running", "cancelled"}

(* A subprocess belongs to a thread that has started it, and so does a     *)
(* stop that was asked for in time.                                        *)
Started ==
  /\ \A j \in Job : worker[j].pc \in {"none", "start"} => child[j] = "none"
  /\ \A j \in stopped : j \in Job /\ worker[j].pc # "none"

(* One that ended well has left no half of a summary.                      *)
WellEnded == \A j \in Job : child[j] = "exit0" => summary[j] # "torn"

(* Only the summary of one that ended well is published.                   *)
Judged ==
  /\ \A j \in Job : worker[j].pc \in {"check", "publish"} => child[j] = "exit0"
  /\ \A j \in Job : worker[j].pc = "publish" => summary[j] # "none"
  /\ \A p \in Page : latest[p] # NoJob => child[latest[p]] = "exit0"

(* A stop that was asked for in time keeps the thread from publishing.     *)
StopsReach ==
  \A j \in stopped \cap DOMAIN jobs :
    /\ jobs[j].cancelRequested
    /\ worker[j].pc \in {"poll", "stopping", "stopped", "done"}

IInv ==
  /\ TypeOK /\ KnownJobs /\ Started /\ WellEnded /\ Judged /\ StopsReach
  /\ OneScanPerForm /\ LatestIsWhole

-----------------------------------------------------------------------------
(* Lemma: a job thread goes from one step to another and no other does. *)
LEMMA WorkerToType ==
  ASSUME worker \in [Job -> WorkerState],
         NEW j \in Job, worker[j].pc # "none",
         NEW pc \in WorkerPc \ {"none"}, WorkerTo(j, pc)
  PROVE  /\ worker' \in [Job -> WorkerState]
         /\ worker'[j].pc = pc
         /\ worker'[j].page = worker[j].page
         /\ \A i \in Job \ {j} : worker'[i] = worker[i]
<1>1. worker[j] \in [pc : WorkerPc \ {"none"}, form : Form, kind : Kind, page : Page]
  BY DEF WorkerState
<1>2. [worker[j] EXCEPT !.pc = pc] \in WorkerState
  BY <1>1 DEF WorkerState
<1>3. worker' = [worker EXCEPT ![j] = [worker[j] EXCEPT !.pc = pc]]
  BY DEF WorkerTo
<1>4. [worker[j] EXCEPT !.pc = pc].pc = pc /\ [worker[j] EXCEPT !.pc = pc].page = worker[j].page
  BY <1>1
<1> QED  BY <1>2, <1>3, <1>4

(* Lemma: looking at the registry disturbs nothing that is known of it.    *)
LEMMA LookQuiet ==
  ASSUME IInv, NEW js, Look(js)
  PROVE  /\ RegistryTypeOK'
         /\ js = jobs'
         /\ DOMAIN jobs' \subseteq DOMAIN jobs
         /\ \A j \in DOMAIN jobs' : jobs'[j] = jobs[j]
         /\ OneScanPerForm'
<1>1. /\ RegistryTypeOK' /\ DOMAIN jobs' \subseteq DOMAIN jobs
      /\ \A j \in DOMAIN jobs' : jobs'[j] = jobs[j]
  BY LookKeeps DEF IInv, TypeOK, Keeps
<1>2. js = jobs'
  BY DEF Look
<1> QED  BY <1>1, <1>2 DEF IInv, OneScanPerForm, Joins

(* Lemma: as long as jobs only go on, two scans of a form do not come to   *)
(* run together.                                                           *)
LEMMA ContinuesOne ==
  ASSUME OneScanPerForm, Continues(jobs, jobs'), DOMAIN jobs' \subseteq DOMAIN jobs
  PROVE  OneScanPerForm'
BY DEF OneScanPerForm, Continues, Joins

(* Lemma: the invariant holds in a server that has just started. *)
LEMMA InitIInv == Init => IInv
<1> SUFFICES ASSUME Init PROVE IInv
  OBVIOUS
<1>1. RegistryTypeOK /\ DOMAIN jobs = {}
  BY DEF Init, WebJobsInit, RegistryTypeOK, IsRegistry
<1>2. handler \in [Request -> HandlerState] /\ worker \in [Job -> WorkerState]
  BY DEF Init, HandlerState, WorkerState
<1>3. TypeOK
  BY <1>1, <1>2 DEF Init, TypeOK, ChildPc
<1>4. KnownJobs /\ StopsReach /\ OneScanPerForm
  BY <1>1 DEF KnownJobs, StopsReach, OneScanPerForm
<1>5. Started /\ WellEnded /\ Judged /\ LatestIsWhole
  BY DEF Init, Started, WellEnded, Judged, LatestIsWhole
<1> QED  BY <1>3, <1>4, <1>5 DEF IInv

(* Lemma: steps of nobody but a request thread that create no job.         *)
LEMMA HandlerStep ==
  ASSUME IInv, handler' \in [Request -> HandlerState],
         UNCHANGED registry \/ \E js : Look(js),
         UNCHANGED <<worker, child, summary, latest, stopped, faults>>
  PROVE  IInv'
<1> USE DEF faults
<1>1. /\ RegistryTypeOK' /\ OneScanPerForm' /\ DOMAIN jobs' \subseteq DOMAIN jobs
      /\ \A j \in DOMAIN jobs' : jobs'[j] = jobs[j]
  <2>1. CASE UNCHANGED registry
    BY <2>1 DEF registry, IInv, TypeOK, RegistryTypeOK, IsRegistry, OneScanPerForm
  <2>2. CASE \E js : Look(js)
    BY <2>2, LookQuiet
  <2> QED  BY <2>1, <2>2
<1>2. TypeOK'
  BY <1>1 DEF IInv, TypeOK
<1>3. KnownJobs' /\ StopsReach'
  BY <1>1 DEF IInv, KnownJobs, StopsReach
<1>4. Started' /\ WellEnded' /\ Judged' /\ LatestIsWhole'
  BY DEF IInv, Started, WellEnded, Judged, LatestIsWhole
<1> QED  BY <1>1, <1>2, <1>3, <1>4 DEF IInv

(* Lemma: a thread that goes on to pc, by itself or after a look at the    *)
(* registry, and publishes nothing.                                        *)
LEMMA ThreadStep ==
  ASSUME IInv, NEW j \in Job, worker[j].pc \notin {"none", "down"},
         NEW pc \in WorkerPc \ {"none", "start", "down"},
         worker' \in [Job -> WorkerState], worker'[j].pc = pc,
         \A i \in Job \ {j} : worker'[i] = worker[i],
         UNCHANGED registry \/ \E js : Look(js),
         child' \in [Job -> ChildPc],
         \A i \in Job \ {j} : child'[i] = child[i],
         child[j] = "exit0" <=> child'[j] = "exit0",
         pc \in {"check", "publish"} => child[j] = "exit0",
         pc = "publish" => summary[j] # "none",
         j \in stopped \cap DOMAIN jobs' => pc \in {"poll", "stopping", "stopped", "done"},
         worker[j].pc = "done" => pc = "done",
         UNCHANGED <<handler, summary, latest, stopped, faults>>
  PROVE  IInv'
<1> USE DEF faults
<1>1. /\ worker' \in [Job -> WorkerState]
      /\ worker'[j].pc = pc
      /\ \A i \in Job \ {j} : worker'[i] = worker[i]
  OBVIOUS
<1>2. /\ RegistryTypeOK' /\ OneScanPerForm' /\ DOMAIN jobs' \subseteq DOMAIN jobs
      /\ DOMAIN jobs \subseteq Job
      /\ \A i \in DOMAIN jobs' : jobs'[i] = jobs[i]
  <2>1. CASE UNCHANGED registry
    BY <2>1 DEF registry, IInv, TypeOK, RegistryTypeOK, IsRegistry, OneScanPerForm
  <2>2. CASE \E js : Look(js)
    BY <2>2, LookQuiet DEF IInv, TypeOK, RegistryTypeOK, IsRegistry
  <2> QED  BY <2>1, <2>2
<1>3. TypeOK'
  BY <1>1, <1>2 DEF IInv, TypeOK
<1>4. KnownJobs'
  BY <1>1, <1>2 DEF IInv, KnownJobs
<1>5. StopsReach'
  BY <1>1, <1>2 DEF IInv, StopsReach
<1>6. Started'
  BY <1>1 DEF IInv, Started
<1>7. \A i \in Job : child'[i] = "exit0" <=> child[i] = "exit0"
  OBVIOUS
<1>8. WellEnded'
  BY <1>7 DEF IInv, WellEnded
<1>9. Judged'
  BY <1>1, <1>7 DEF IInv, Judged, TypeOK
<1>10. LatestIsWhole'
  BY DEF IInv, LatestIsWhole
<1> QED  BY <1>2, <1>3, <1>4, <1>5, <1>6, <1>8, <1>9, <1>10 DEF IInv

(* Lemma: a stop that reached a job in time is seen by whoever looks.      *)
LEMMA StopSeen ==
  ASSUME IInv, NEW j \in Job, NEW js, Look(js), j \in stopped \cap DOMAIN jobs'
  PROVE  Stops(js, j)
<1>1. js = jobs' /\ j \in DOMAIN js /\ j \in DOMAIN jobs /\ js[j] = jobs[j]
  BY LookQuiet
<1>2. jobs[j].cancelRequested
  BY <1>1 DEF IInv, StopsReach
<1> QED  BY <1>1, <1>2 DEF Stops, CancelRequested

(* Lemma: the steps of a job thread that publish and settle nothing. *)
LEMMA ThreadKeepsIInv ==
  ASSUME IInv, NEW j \in Job,
         \/ StartSubprocess(j) \/ PollCancelled(j) \/ PollExited(j) \/ TimeOut(j)
         \/ StopChild(j) \/ Judge(j) \/ FindSummary(j) \/ TrinoScan(j)
  PROVE  IInv'
<1> DEFINE To(pc) == /\ worker' \in [Job -> WorkerState] /\ worker'[j].pc = pc
                     /\ \A i \in Job \ {j} : worker'[i] = worker[i]
<1> USE DEF faults
<1>0. worker \in [Job -> WorkerState] /\ child \in [Job -> ChildPc]
  BY DEF IInv, TypeOK
<1>a. \A pc \in WorkerPc \ {"none"} : WorkerTo(j, pc) /\ worker[j].pc # "none" => To(pc)
  BY <1>0, WorkerToType
<1>b. j \in stopped \cap DOMAIN jobs => worker[j].pc \in {"poll", "stopping", "stopped", "done"}
  BY DEF IInv, StopsReach
<1>c. ASSUME NEW js, Look(js)  PROVE DOMAIN jobs' \subseteq DOMAIN jobs
  BY <1>c, LookQuiet
<1>d. worker[j].pc \in {"check", "publish"} => child[j] = "exit0"
  BY DEF IInv, Judged
<1> HIDE DEF To
<1>1. CASE StartSubprocess(j)
  <2>1. /\ \E js : Look(js)
        /\ worker[j].pc = "start" /\ child[j] = "none"
        /\ UNCHANGED <<handler, summary, latest, stopped, faults>>
    BY <1>1 DEF StartSubprocess, IInv, Started
  <2>2. j \notin stopped \cap DOMAIN jobs'
    BY <1>b, <1>c, <2>1
  <2>3. CASE WorkerTo(j, "poll") /\ child' = [child EXCEPT ![j] = "running"]
    <3>1. To("poll")
      BY <1>a, <2>1, <2>3 DEF WorkerPc
    <3>2. /\ child' \in [Job -> ChildPc] /\ child'[j] = "running"
          /\ \A i \in Job \ {j} : child'[i] = child[i]
      BY <1>0, <2>3 DEF ChildPc
    <3> QED  BY <2>1, <2>2, <3>1, <3>2, ThreadStep DEF To, WorkerPc
  <2>4. CASE WorkerTo(j, "fail") /\ UNCHANGED child
    <3>1. To("fail")
      BY <1>a, <2>1, <2>4 DEF WorkerPc
    <3> QED  BY <1>0, <2>1, <2>2, <2>4, <3>1, ThreadStep DEF To, WorkerPc
  <2> QED  BY <1>1, <2>3, <2>4 DEF StartSubprocess
<1>2. CASE PollCancelled(j)
  <2>1. To("stopping")
    BY <1>2, <1>a DEF PollCancelled, WorkerPc
  <2> QED  BY <1>0, <1>2, <2>1, ThreadStep DEF PollCancelled, To, WorkerPc
<1>3. CASE PollExited(j)
  <2>1. To("returned")
    BY <1>3, <1>a DEF PollExited, WorkerPc
  <2>2. j \notin stopped \cap DOMAIN jobs'
    BY <1>3, StopSeen DEF PollExited
  <2> QED  BY <1>0, <1>3, <2>1, <2>2, ThreadStep DEF PollExited, To, WorkerPc
<1>4. CASE TimeOut(j)
  <2>1. To("fail")
    BY <1>4, <1>a DEF TimeOut, WorkerPc
  <2>2. j \notin stopped \cap DOMAIN jobs'
    BY <1>4, StopSeen DEF TimeOut
  <2>3. /\ child' \in [Job -> ChildPc] /\ (child[j] = "exit0" <=> child'[j] = "exit0")
        /\ \A i \in Job \ {j} : child'[i] = child[i]
    BY <1>0, <1>4 DEF TimeOut, ChildPc, Alive
  <2> QED  BY <1>4, <2>1, <2>2, <2>3, ThreadStep DEF TimeOut, To, WorkerPc
<1>5. CASE StopChild(j)
  <2>1. To("stopped")
    BY <1>5, <1>a DEF StopChild, WorkerPc
  <2>2. /\ child' \in [Job -> ChildPc] /\ (child[j] = "exit0" <=> child'[j] = "exit0")
        /\ \A i \in Job \ {j} : child'[i] = child[i]
    BY <1>0, <1>5 DEF StopChild, ChildPc, Alive
  <2> QED  BY <1>5, <2>1, <2>2, ThreadStep DEF StopChild, To, WorkerPc
<1>6. CASE Judge(j)
  <2>1. PICK js : Look(js) /\ WorkerTo(j, IF Stops(js, j) THEN "done"
                                          ELSE IF Succeeded(j) THEN "check" ELSE "fail")
    BY <1>6 DEF Judge
  <2>2. PICK pc \in {"done", "check", "fail"} :
          /\ WorkerTo(j, pc)
          /\ pc = "check" => Succeeded(j)
          /\ Stops(js, j) => pc = "done"
    BY <2>1
  <2>3. To(pc)
    BY <1>6, <1>a, <2>2 DEF Judge, WorkerPc
  <2>4. j \in stopped \cap DOMAIN jobs' => pc = "done"
    BY <2>1, <2>2, StopSeen
  <2> QED  BY <1>0, <1>6, <2>1, <2>2, <2>3, <2>4, ThreadStep DEF Judge, Succeeded, To, WorkerPc
<1>7. CASE FindSummary(j)
  <2>1. PICK js : Look(js) /\ Found(j, js)
    BY <1>7 DEF FindSummary
  <2>2. /\ worker[j].pc = "check" /\ child[j] = "exit0" /\ UNCHANGED child
        /\ UNCHANGED <<handler, summary, latest, stopped, faults>>
    BY <1>7, <1>d DEF FindSummary
  <2>3. j \notin stopped \cap DOMAIN jobs'
    BY <1>b, <1>c, <2>1, <2>2
  <2>4. CASE summary[j] = "none"
    <3>1. To("fail")
      BY <1>a, <2>1, <2>2, <2>4 DEF Found, WorkerTo, WorkerPc
    <3> QED  BY <1>0, <2>1, <2>2, <2>3, <3>1, ThreadStep DEF To, WorkerPc
  <2>5. CASE summary[j] # "none"
    <3> DEFINE new == [worker[j] EXCEPT !.pc = "publish", !.page = PageOf(js, j)]
    <3>1. worker[j] \in [pc : WorkerPc \ {"none"}, form : Form, kind : Kind, page : Page]
      BY <1>0, <2>2 DEF WorkerState
    <3>2. PageOf(js, j) \in Page
      BY DEF PageOf, Page
    <3>3. new \in WorkerState /\ new.pc = "publish"
      BY <3>1, <3>2 DEF WorkerState, WorkerPc
    <3>4. worker' = [worker EXCEPT ![j] = new]
      BY <1>0, <2>1, <2>5, <3>1 DEF Found
    <3> HIDE DEF new
    <3>5. To("publish")
      BY <1>0, <3>3, <3>4 DEF To
    <3> QED  BY <1>0, <2>1, <2>2, <2>3, <2>5, <3>5, ThreadStep DEF To, WorkerPc
  <2> QED  BY <2>4, <2>5
<1>8. CASE TrinoScan(j)
  <2>1. \E js : Look(js) /\ \E pc \in {"done", "fail", "scan", "complete"} : WorkerTo(j, pc)
    <3>1. PICK js :
            /\ Look(js)
            /\ \E pc \in IF Stops(js, j) THEN {"done", "fail"}
                         ELSE IF worker[j].pc = "start" THEN {"scan", "fail"}
                         ELSE {"complete", "fail"} : WorkerTo(j, pc)
      BY <1>8, Zenon DEF TrinoScan
    <3>2. \E pc \in {"done", "fail", "scan", "complete"} : WorkerTo(j, pc)
      <4>1. CASE Stops(js, j)
        BY <3>1, <4>1
      <4>2. CASE ~Stops(js, j) /\ worker[j].pc = "start"
        BY <3>1, <4>2
      <4>3. CASE ~Stops(js, j) /\ worker[j].pc # "start"
        BY <3>1, <4>3
      <4> QED  BY <4>1, <4>2, <4>3
    <3> QED  BY <3>1, <3>2
  <2>4. PICK pc \in {"done", "fail", "scan", "complete"} : (\E js : Look(js)) /\ WorkerTo(j, pc)
    BY <2>1
  <2>2. To(pc)
    BY <1>8, <1>a, <2>4 DEF TrinoScan, WorkerPc
  <2>3. j \notin stopped \cap DOMAIN jobs'
    BY <1>8, <1>b, <1>c, <2>4 DEF TrinoScan
  <2> QED  BY <1>0, <1>8, <2>4, <2>2, <2>3, ThreadStep DEF TrinoScan, To, WorkerPc
<1> QED  BY <1>1, <1>2, <1>3, <1>4, <1>5, <1>6, <1>7, <1>8

(* Lemma: publishing a summary publishes a whole one. *)
LEMMA PublishKeepsIInv ==
  ASSUME IInv, NEW j \in Job, Publish(j)
  PROVE  IInv'
<1> USE DEF faults
<1>1. /\ worker[j].pc = "publish"
      /\ latest' = IF worker[j].form \in Publishing
                     THEN [latest EXCEPT ![worker[j].page] = j] ELSE latest
      /\ UNCHANGED <<registry, handler, child, summary, stopped, faults>>
  BY DEF Publish
<1>2. PICK pc \in {"complete", "fail"} : WorkerTo(j, pc)
  BY DEF Publish
<1>3. /\ worker' \in [Job -> WorkerState] /\ worker'[j].pc = pc
      /\ \A i \in Job \ {j} : worker'[i] = worker[i]
  BY <1>1, <1>2, WorkerToType DEF IInv, TypeOK, WorkerPc
<1>4. child[j] = "exit0" /\ summary[j] \in {"none", "torn", "whole"}
      /\ summary[j] # "none" /\ summary[j] # "torn"
  BY <1>1 DEF IInv, Judged, WellEnded, TypeOK
<1>5. latest' \in [Page -> Job \cup {NoJob}]
  BY <1>1 DEF IInv, TypeOK
<1>6. \A p \in Page : latest'[p] = j \/ latest'[p] = latest[p]
  BY <1>1 DEF IInv, TypeOK
<1>7. UNCHANGED <<jobs, now>>
  BY <1>1 DEF registry
<1>8. TypeOK'
  BY <1>1, <1>3, <1>5, <1>7 DEF IInv, TypeOK, RegistryTypeOK, IsRegistry
<1>9. KnownJobs'
  BY <1>1, <1>3, <1>7 DEF IInv, KnownJobs, TypeOK, RegistryTypeOK, IsRegistry
<1>10. Started' /\ WellEnded'
  BY <1>1, <1>3 DEF IInv, Started, WellEnded
<1>11. Judged' /\ LatestIsWhole'
  BY <1>1, <1>3, <1>4, <1>6 DEF IInv, Judged, LatestIsWhole
<1>12. StopsReach'
  BY <1>1, <1>3, <1>7 DEF IInv, StopsReach, TypeOK
<1>13. OneScanPerForm'
  BY <1>7 DEF IInv, OneScanPerForm, Joins
<1> QED  BY <1>8, <1>9, <1>10, <1>11, <1>12, <1>13 DEF IInv

(* Lemma: settling a job ends its thread. *)
LEMMA FinishKeepsIInv ==
  ASSUME IInv, NEW j \in Job, Finish(j)
  PROVE  IInv'
<1> USE DEF faults
<1>1. PICK status \in TerminalStatus : Settle(j, status)
  BY DEF Finish, TerminalStatus
<1>2. /\ RegistryTypeOK' /\ DOMAIN jobs' \subseteq DOMAIN jobs /\ DOMAIN jobs \subseteq Job
      /\ Continues(jobs, jobs')
      /\ \A i \in DOMAIN jobs' : i # j => jobs'[i] = jobs[i]
  BY <1>1, SettleKeeps DEF IInv, TypeOK, RegistryTypeOK, IsRegistry
<1>3. /\ worker[j].pc \in {"complete", "fail"} /\ WorkerTo(j, "done")
      /\ UNCHANGED <<handler, child, summary, latest, stopped, faults>>
  BY DEF Finish
<1>4. /\ worker' \in [Job -> WorkerState] /\ worker'[j].pc = "done"
      /\ \A i \in Job \ {j} : worker'[i] = worker[i]
  BY <1>3, WorkerToType DEF IInv, TypeOK, WorkerPc
<1>5. TypeOK'
  BY <1>2, <1>3, <1>4 DEF IInv, TypeOK
<1>6. KnownJobs'
  BY <1>2, <1>4 DEF IInv, KnownJobs
<1>7. Started' /\ WellEnded' /\ Judged' /\ LatestIsWhole'
  BY <1>3, <1>4 DEF IInv, Started, WellEnded, Judged, LatestIsWhole
<1>8. StopsReach'
  <2>1. j \notin stopped \cap DOMAIN jobs
    BY <1>3 DEF IInv, StopsReach
  <2> QED  BY <1>2, <1>3, <1>4, <2>1 DEF IInv, StopsReach
<1>9. OneScanPerForm'
  BY <1>2, ContinuesOne DEF IInv
<1> QED  BY <1>5, <1>6, <1>7, <1>8, <1>9 DEF IInv

(* Lemma: a subprocess that runs may write and end. *)
LEMMA ChildKeepsIInv ==
  ASSUME IInv, NEW j \in Job, ChildStep(j)
  PROVE  IInv'
<1> USE DEF faults
<1>1. /\ child[j] = "running" /\ worker[j].pc \in {"poll", "stopping"}
      /\ UNCHANGED <<registry, handler, worker, latest, stopped, faults>>
  BY DEF ChildStep, ChildWrites, ChildEnds, ChildFails, Alive
<1>2. /\ child' \in [Job -> ChildPc] /\ summary' \in [Job -> {"none", "torn", "whole"}]
      /\ \A i \in Job \ {j} : child'[i] = child[i] /\ summary'[i] = summary[i]
      /\ child'[j] = "exit0" => summary'[j] # "torn"
  <2>1. child \in [Job -> ChildPc] /\ summary \in [Job -> {"none", "torn", "whole"}]
    BY DEF IInv, TypeOK
  <2>2. CASE ChildWrites(j)
    BY <1>1, <2>1, <2>2 DEF ChildWrites
  <2>3. CASE ChildEnds(j)
    BY <2>1, <2>3 DEF ChildEnds, ChildPc
  <2>4. CASE ChildFails(j)
    BY <2>1, <2>4 DEF ChildFails, ChildPc
  <2> QED  BY <2>2, <2>3, <2>4 DEF ChildStep
<1>3. UNCHANGED <<jobs, now>>
  BY <1>1 DEF registry
<1>4. TypeOK'
  BY <1>1, <1>2, <1>3 DEF IInv, TypeOK, RegistryTypeOK, IsRegistry
<1>5. KnownJobs' /\ StopsReach' /\ OneScanPerForm'
  BY <1>1, <1>3 DEF IInv, KnownJobs, StopsReach, OneScanPerForm, Joins
<1>6. Started' /\ WellEnded'
  BY <1>1, <1>2 DEF IInv, Started, WellEnded
<1>7. \A p \in Page : latest[p] # NoJob => latest[p] \in Job \ {j}
  BY <1>1 DEF IInv, TypeOK, Judged
<1>8. Judged' /\ LatestIsWhole'
  BY <1>1, <1>2, <1>7 DEF IInv, Judged, LatestIsWhole
<1> QED  BY <1>4, <1>5, <1>6, <1>8 DEF IInv

(* Lemma: the look under the lock the job is created under is what keeps   *)
(* one scan to a form, however long ago the request thread looked.         *)
LEMMA StartKeepsIInv ==
  ASSUME IInv, NEW r \in Request, NEW j \in Job, StartScan(r, j)
  PROVE  IInv'
<1> USE DEF faults
<1> DEFINE form == handler[r].form
<1> DEFINE kind == handler[r].kind
<1>1. /\ handler[r].pc = "checked" /\ worker[j].pc = "none"
      /\ CreateBatchReport(j, form, kind)
      /\ worker' = [worker EXCEPT ![j] = [pc |-> "start", form |-> form,
                                          kind |-> kind, page |-> "batch"]]
      /\ handler' = [handler EXCEPT ![r] = [pc |-> "idle"]]
      /\ UNCHANGED <<child, summary, latest, stopped, faults>>
  BY DEF StartScan
<1>2. form \in Case /\ kind \in Kind
  BY <1>1 DEF IInv, TypeOK, HandlerState, Form
<1>3. PICK js \in Pruned(jobs) : MayCreate(js, form, kind)
  BY DEF StartScan
<1> HIDE DEF form, kind
<1>4. j \notin DOMAIN jobs /\ DOMAIN jobs \subseteq Job /\ RegistryTypeOK
  BY <1>1 DEF IInv, KnownJobs, TypeOK, RegistryTypeOK, IsRegistry
<1>5. /\ RegistryTypeOK'
      /\ DOMAIN jobs' \subseteq DOMAIN jobs \cup {j}
      /\ \A i \in DOMAIN jobs : i \in DOMAIN jobs' => jobs'[i] = jobs[i]
      /\ jobs'[j].kind = kind /\ jobs'[j].caseId = form /\ jobs'[j].status = "running"
  BY <1>1, <1>2, <1>4, CreateKeeps
<1>6. /\ worker' \in [Job -> WorkerState] /\ worker'[j].pc = "start"
      /\ \A i \in Job \ {j} : worker'[i] = worker[i]
  BY <1>1, <1>2 DEF IInv, TypeOK, WorkerState, WorkerPc, Form, Page
<1>7. handler' \in [Request -> HandlerState]
  BY <1>1 DEF IInv, TypeOK, HandlerState
<1>8. TypeOK'
  BY <1>1, <1>5, <1>6, <1>7 DEF IInv, TypeOK
<1>9. KnownJobs'
  BY <1>4, <1>5, <1>6 DEF IInv, KnownJobs
<1>10. child[j] = "none"
  BY <1>1 DEF IInv, Started
<1>11. Started' /\ WellEnded'
  BY <1>1, <1>6, <1>10 DEF IInv, Started, WellEnded
<1>12. Judged' /\ LatestIsWhole'
  BY <1>1, <1>6 DEF IInv, Judged, LatestIsWhole
<1>13. StopsReach'
  <2>1. j \notin stopped
    BY <1>1 DEF IInv, Started
  <2> QED  BY <1>1, <1>4, <1>5, <1>6, <2>1 DEF IInv, StopsReach
<1>14. ASSUME Joins(kind), NEW i \in DOMAIN jobs, jobs[i].status = "running"
       PROVE  ~(jobs[i].kind = kind /\ jobs[i].caseId = form)
  <2>1. i \in DOMAIN js /\ js[i] = jobs[i]
    BY <1>3, <1>4, <1>14, PrunedKeeps DEF RegistryTypeOK
  <2> QED  BY <1>3, <1>14, <2>1 DEF MayCreate, Same
<1>15. OneScanPerForm'
  <2> SUFFICES ASSUME NEW i \in DOMAIN jobs', NEW k \in DOMAIN jobs',
                      jobs'[i].status = "running", jobs'[k].status = "running",
                      jobs'[i].kind = jobs'[k].kind, jobs'[i].caseId = jobs'[k].caseId,
                      Joins(jobs'[i].kind)
               PROVE  i = k
    BY DEF OneScanPerForm, Joins
  <2>1. CASE i = j /\ k # j
    BY <1>5, <1>14, <2>1
  <2>2. CASE i # j /\ k = j
    BY <1>5, <1>14, <2>2
  <2>3. CASE i # j /\ k # j
    BY <1>5, <2>3 DEF IInv, OneScanPerForm
  <2> QED  BY <2>1, <2>2, <2>3
<1> QED  BY <1>8, <1>9, <1>11, <1>12, <1>13, <1>15 DEF IInv

(* Lemma: a stop touches the registry, and is noted in time or not at all. *)
LEMMA CancelKeepsIInv ==
  ASSUME IInv, NEW j \in Job, Cancel(j)
  PROVE  IInv'
<1>1. /\ RequestCancel(j) /\ cancels' = cancels + 1
      /\ stopped' = IF Alive(j) /\ j \in DOMAIN jobs' THEN stopped \cup {j} ELSE stopped
      /\ UNCHANGED <<handler, worker, child, summary, latest, restarts>>
  BY DEF Cancel
<1>2. /\ RegistryTypeOK' /\ DOMAIN jobs' \subseteq DOMAIN jobs
      /\ Continues(jobs, jobs')
      /\ \A i \in DOMAIN jobs' :
           IF i = j THEN jobs'[i].cancelRequested ELSE jobs'[i] = jobs[i]
      /\ \A i \in DOMAIN jobs' : jobs'[i].status \in {jobs[i].status, "cancelled"}
  BY <1>1, CancelKeeps DEF IInv, TypeOK
<1>3. TypeOK'
  BY <1>1, <1>2 DEF IInv, TypeOK
<1>4. KnownJobs'
  BY <1>1, <1>2 DEF IInv, KnownJobs
<1>5. Started' /\ WellEnded' /\ Judged' /\ LatestIsWhole'
  BY <1>1 DEF IInv, Started, WellEnded, Judged, LatestIsWhole, Alive
<1>6. StopsReach'
  <2> SUFFICES ASSUME NEW i \in stopped' \cap DOMAIN jobs'
               PROVE  /\ jobs'[i].cancelRequested
                      /\ worker'[i].pc \in {"poll", "stopping", "stopped", "done"}
    BY DEF StopsReach
  <2>1. CASE i \in stopped
    BY <1>1, <1>2, <2>1 DEF IInv, StopsReach, Continues
  <2>2. CASE i \notin stopped
    BY <1>1, <1>2, <2>2 DEF Alive
  <2> QED  BY <2>1, <2>2
<1>7. OneScanPerForm'
  BY <1>2, ContinuesOne DEF IInv
<1> QED  BY <1>3, <1>4, <1>5, <1>6, <1>7 DEF IInv

(* Lemma: a restart forgets every job and every latest summary. *)
LEMMA RestartKeepsIInv ==
  ASSUME IInv, Restart
  PROVE  IInv'
<1>1. /\ DOMAIN jobs' = {} /\ jobs' = [j \in {} |-> 0]
      /\ latest' = [p \in Page |-> NoJob]
      /\ handler' = [r \in Request |-> [pc |-> "idle"]]
      /\ restarts' = restarts + 1
      /\ UNCHANGED <<now, child, summary, stopped, cancels>>
  BY DEF Restart
<1>2. worker' = [j \in Job |-> IF worker[j].pc \in {"none", "done"} THEN worker[j]
                               ELSE [worker[j] EXCEPT !.pc = "down"]]
  BY DEF Restart
<1>3. ASSUME NEW j \in Job
      PROVE  /\ worker'[j] \in WorkerState
             /\ worker'[j].pc \in {"none", "done", "down"}
             /\ worker'[j].pc = "none" => worker[j].pc = "none"
  <2>1. worker[j] \in WorkerState /\ worker'[j] = IF worker[j].pc \in {"none", "done"} THEN worker[j]
                               ELSE [worker[j] EXCEPT !.pc = "down"]
    BY <1>2 DEF IInv, TypeOK
  <2>2. CASE worker[j].pc \in {"none", "done"}
    BY <2>1, <2>2
  <2>3. CASE worker[j].pc \notin {"none", "done"}
    <3>1. worker[j] \in [pc : WorkerPc \ {"none"}, form : Form, kind : Kind, page : Page]
      BY <2>1, <2>3 DEF WorkerState
    <3>2. worker'[j] = [worker[j] EXCEPT !.pc = "down"]
      BY <2>1, <2>3
    <3> QED  BY <3>1, <3>2 DEF WorkerState, WorkerPc
  <2> QED  BY <2>2, <2>3
<1>4. worker' \in [Job -> WorkerState]
  BY <1>2, <1>3
<1>5. handler' \in [Request -> HandlerState] /\ latest' \in [Page -> Job \cup {NoJob}]
  BY <1>1 DEF HandlerState
<1>6. RegistryTypeOK'
  BY <1>1 DEF IInv, TypeOK, RegistryTypeOK, IsRegistry
<1>7. TypeOK'
  BY <1>1, <1>4, <1>5, <1>6 DEF IInv, TypeOK
<1>8. KnownJobs' /\ StopsReach' /\ OneScanPerForm'
  BY <1>1 DEF KnownJobs, StopsReach, OneScanPerForm
<1>9. Started' /\ WellEnded'
  BY <1>1, <1>3 DEF IInv, Started, WellEnded
<1>10. Judged' /\ LatestIsWhole'
  BY <1>1, <1>3 DEF Judged, LatestIsWhole
<1> QED  BY <1>7, <1>8, <1>9, <1>10 DEF IInv

(* Lemma: request threads that look, join, refuse, or anybody who looks.   *)
LEMMA HandlersKeepIInv ==
  ASSUME IInv,
         \/ \E r \in Request, form \in Form, kind \in Kind : AskForScan(r, form, kind)
         \/ \E r \in Request : Refuse(r) \/ JoinScan(r)
         \/ LookAtJobs
  PROVE  IInv'
<1>0. handler \in [Request -> HandlerState]
  BY DEF IInv, TypeOK
<1>1. CASE \E r \in Request, form \in Form, kind \in Kind : AskForScan(r, form, kind)
  <2>1. PICK r \in Request, form \in Form, kind \in Kind : AskForScan(r, form, kind)
    BY <1>1
  <2>2. handler' \in [Request -> HandlerState]
    BY <1>0, <2>1 DEF AskForScan, HandlerState
  <2>3. UNCHANGED registry \/ \E js : Look(js)
    BY <2>1 DEF AskForScan
  <2> QED  BY <2>1, <2>2, <2>3, HandlerStep DEF AskForScan
<1>2. CASE \E r \in Request : Refuse(r)
  BY <1>0, <1>2, HandlerStep DEF Refuse, HandlerState
<1>3. CASE \E r \in Request : JoinScan(r)
  <2>1. PICK r \in Request : JoinScan(r)
    BY <1>3
  <2>2. handler' \in [Request -> HandlerState]
    BY <1>0, <2>1 DEF JoinScan, HandlerState
  <2> QED  BY <2>1, <2>2, HandlerStep DEF JoinScan
<1>4. CASE LookAtJobs
  BY <1>0, <1>4, HandlerStep DEF LookAtJobs
<1> QED  BY <1>1, <1>2, <1>3, <1>4

(* Lemma: nothing happens. *)
LEMMA StutterKeepsIInv ==
  ASSUME IInv, UNCHANGED vars
  PROVE  IInv'
BY HandlerStep DEF vars, IInv, TypeOK

(* Lemma: the invariant always holds. *)
LEMMA Inductive == Spec => []IInv
<1>1. IInv /\ [Next]_vars => IInv'
  <2> SUFFICES ASSUME IInv, [Next]_vars PROVE IInv'
    OBVIOUS
  <2>1. ASSUME NEW j \in Job, WorkerStep(j) PROVE IInv'
    BY <2>1, ThreadKeepsIInv, PublishKeepsIInv, FinishKeepsIInv DEF WorkerStep
  <2> QED
    BY <2>1, HandlersKeepIInv, StartKeepsIInv, CancelKeepsIInv, RestartKeepsIInv,
       ChildKeepsIInv, StutterKeepsIInv DEF Next
<1> QED  BY InitIInv, <1>1, PTL DEF Spec

-----------------------------------------------------------------------------
(* Lemma: a step that makes a job the latest publishes that job. *)
LEMMA OnlyPublished ==
  ASSUME IInv, [Next]_vars, NEW p \in Page, latest'[p] # latest[p], latest'[p] \in Job
  PROVE  worker[latest'[p]].pc = "publish"
<1>1. ASSUME NEW j \in Job, Publish(j)  PROVE worker[latest'[p]].pc = "publish"
  <2>1. /\ worker[j].pc = "publish"
        /\ latest' = IF worker[j].form \in Publishing
                       THEN [latest EXCEPT ![worker[j].page] = j] ELSE latest
    BY <1>1 DEF Publish
  <2>2. latest'[p] = j
    BY <2>1 DEF IInv, TypeOK
  <2> QED  BY <2>1, <2>2
<1>2. ASSUME NEW j \in Job, WorkerStep(j), ~Publish(j)  PROVE UNCHANGED latest
  BY <1>2 DEF WorkerStep, StartSubprocess, PollCancelled, PollExited, TimeOut, StopChild,
     Judge, FindSummary, TrinoScan, Finish
<1>3. Restart => latest'[p] = NoJob
  BY DEF Restart
<1>4. NoJob \notin Job
  BY ScansAssumption
<1>5. ASSUME NEW r \in Request, NEW j \in Job
      PROVE  Refuse(r) \/ JoinScan(r) \/ StartScan(r, j) => UNCHANGED latest
  BY DEF Refuse, JoinScan, StartScan
<1>6. ASSUME NEW r \in Request, NEW form \in Form, NEW kind \in Kind
      PROVE  AskForScan(r, form, kind) => UNCHANGED latest
  BY DEF AskForScan
<1>7. ASSUME NEW j \in Job PROVE Cancel(j) \/ ChildStep(j) => UNCHANGED latest
  BY DEF Cancel, ChildStep, ChildWrites, ChildEnds, ChildFails
<1>8. LookAtJobs \/ UNCHANGED vars => UNCHANGED latest
  BY DEF LookAtJobs, vars
<1>9. ASSUME NEW r \in Request PROVE Refuse(r) \/ JoinScan(r) => UNCHANGED latest
  BY DEF Refuse, JoinScan
<1> QED
  BY <1>1, <1>2, <1>3, <1>4, <1>5, <1>6, <1>7, <1>8, <1>9 DEF Next

(* Theorem: the variables keep their types. *)
THEOREM ScansTypeCorrect == Spec => []TypeOK
BY Inductive, PTL DEF IInv

(* Theorem: however many requests ask for the same scan at once, one of    *)
(* them starts it and the others join it.                                  *)
THEOREM OneScanAtATime == Spec => []OneScanPerForm
BY Inductive, PTL DEF IInv

(* Theorem: the pages are made from whole summaries.                       *)
THEOREM LatestAlwaysWhole == Spec => []LatestIsWhole
BY Inductive, PTL DEF IInv

(* Theorem: a job that has ended, well or not, publishes nothing any more. *)
(* Publishing belongs to a thread that has not settled its job, and until  *)
(* then only a stop can have ended it.                                     *)
THEOREM EndedAreDone == Spec => EndedPublishesNoMore
<1>1. ASSUME IInv, [Next]_vars, NEW p \in Page, NEW j \in DOMAIN jobs,
             latest'[p] = j, latest[p] # j
      PROVE  jobs[j].status \in {"running", "cancelled"}
  <2>1. j \in Job
    BY <1>1 DEF IInv, TypeOK, RegistryTypeOK, IsRegistry
  <2>2. worker[j].pc = "publish"
    BY <1>1, <2>1, OnlyPublished
  <2> QED  BY <1>1, <2>2 DEF IInv, KnownJobs
<1>2. IInv /\ [Next]_vars =>
        [\A p \in Page, j \in DOMAIN jobs :
           latest'[p] = j /\ latest[p] # j => jobs[j].status \in {"running", "cancelled"}]_vars
  BY <1>1
<1> QED  BY <1>2, Inductive, PTL DEF Spec, EndedPublishesNoMore

(* Theorem: a scan that was stopped while its subprocess ran is not        *)
(* published as long as the registry remembers the stop.                   *)
THEOREM StopsWin == Spec => StoppedNotPublished
<1>1. ASSUME IInv, [Next]_vars, NEW p \in Page, latest'[p] # latest[p]
      PROVE  latest'[p] \notin stopped \cap DOMAIN jobs
  <2> SUFFICES ASSUME latest'[p] \in stopped \cap DOMAIN jobs PROVE FALSE
    OBVIOUS
  <2>1. latest'[p] \in Job
    BY <1>1 DEF IInv, TypeOK
  <2>2. worker[latest'[p]].pc = "publish"
    BY <1>1, <2>1, OnlyPublished
  <2> QED  BY <1>1, <2>2 DEF IInv, StopsReach
<1>2. IInv /\ [Next]_vars =>
        [\A p \in Page :
           latest'[p] # latest[p] => latest'[p] \notin stopped \cap DOMAIN jobs]_vars
  BY <1>1
<1> QED  BY <1>2, Inductive, PTL DEF Spec, StoppedNotPublished

=============================================================================
