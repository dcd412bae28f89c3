------------------------ MODULE WebCaseReports_proofs ------------------------
(***************************************************************************)
(* Proofs about WebCaseReports, for any number of jobs, cases, request     *)
(* threads and readers, any retention of ended jobs, and any number of     *)
(* stops and restarts.                                                     *)
(***************************************************************************)
EXTENDS WebCaseReports, WebJobs_proofs, TLAPS

-----------------------------------------------------------------------------
(* The inductive invariant: a job the registry knows has a job thread, so   *)
(* no id is given out twice; and a subprocess that still runs belongs to a  *)
(* thread that watches it, or died with the server.                        *)

KnownJobs == \A j \in DOMAIN jobs : worker[j].pc # "none"

IInv == TypeOK /\ KnownJobs /\ NoStrayChild

LEMMA WorkerToType ==
  ASSUME worker \in [Job -> WorkerState],
         NEW j \in Job, worker[j].pc # "none",
         NEW pc \in WorkerPc \ {"none"}, WorkerTo(j, pc)
  PROVE  /\ worker' \in [Job -> WorkerState]
         /\ worker'[j].pc = pc
         /\ \A i \in Job \ {j} : worker'[i] = worker[i]
<1>1. worker[j] \in [pc : WorkerPc \ {"none"}, caseId : Case, kind : Kind, hash : Content]
  BY DEF WorkerState
<1>2. [worker[j] EXCEPT !.pc = pc] \in WorkerState
  BY <1>1 DEF WorkerState
<1>3. worker' = [worker EXCEPT ![j] = [worker[j] EXCEPT !.pc = pc]]
  BY DEF WorkerTo
<1>4. [worker[j] EXCEPT !.pc = pc].pc = pc
  BY <1>1
<1> QED  BY <1>2, <1>3, <1>4

LEMMA FileOfType ==
  ASSUME worker \in [Job -> WorkerState], NEW j \in Job, worker[j].pc # "none"
  PROVE  FileOf(j) \in File
BY DEF WorkerState, FileOf, File, Variant, VariantOf

LEMMA ChildToType ==
  ASSUME child \in [Job -> [pc : ChildPc, text : Text \cup {"none"}]],
         NEW j \in Job, NEW pc \in ChildPc, ChildTo(j, pc)
  PROVE  /\ child' \in [Job -> [pc : ChildPc, text : Text \cup {"none"}]]
         /\ child'[j].pc = pc
         /\ \A i \in Job \ {j} : child'[i] = child[i]
BY DEF ChildTo

LEMMA InitIInv == Init => IInv
<1> SUFFICES ASSUME Init PROVE IInv
  OBVIOUS
<1>1. RegistryTypeOK
  BY DEF Init, WebJobsInit, RegistryTypeOK, IsRegistry
<1>2. handler \in [Request -> HandlerState] /\ reader \in [Reader -> ReaderState]
  BY DEF Init, HandlerState, ReaderState
<1>3. worker \in [Job -> WorkerState]
  BY DEF Init, WorkerState
<1>4. child \in [Job -> [pc : ChildPc, text : Text \cup {"none"}]]
  BY DEF Init, ChildPc
<1>5. /\ report \in [File -> [text : Content, by : Job \cup {NoJob}, mixed : BOOLEAN]]
      /\ marker \in [File -> Content]
  BY DEF Init, Content
<1>6. KnownJobs
  BY DEF Init, WebJobsInit, KnownJobs
<1>7. NoStrayChild
  BY DEF Init, NoStrayChild, Alive
<1> QED  BY <1>1, <1>2, <1>3, <1>4, <1>5, <1>6, <1>7 DEF IInv, TypeOK, Init

(* A step of a job thread that only looks at the registry, leaves the files *)
(* alone and goes to pc, with a subprocess that runs only while watched.   *)
LEMMA ThreadStep ==
  ASSUME IInv, NEW j \in Job, worker[j].pc # "none",
         NEW pc \in WorkerPc \ {"none"}, WorkerTo(j, pc),
         RegistryTypeOK', DOMAIN jobs' \subseteq DOMAIN jobs,
         child' \in [Job -> [pc : ChildPc, text : Text \cup {"none"}]],
         \A i \in Job \ {j} : child'[i] = child[i],
         pc \in {"poll", "stopping"} \/ ~Alive(j)',
         UNCHANGED <<handler, report, reader, faults>>,
         marker' \in [File -> Content]
  PROVE  IInv'
<1>1. /\ worker' \in [Job -> WorkerState]
      /\ worker'[j].pc = pc
      /\ \A i \in Job \ {j} : worker'[i] = worker[i]
  BY WorkerToType DEF IInv, TypeOK
<1>2. TypeOK'
  BY <1>1 DEF IInv, TypeOK, faults
<1>3. KnownJobs'
  BY <1>1 DEF IInv, TypeOK, RegistryTypeOK, IsRegistry, KnownJobs
<1>4. NoStrayChild'
  <2> SUFFICES ASSUME NEW i \in Job, worker'[i].pc \notin {"poll", "stopping", "down"}
               PROVE  ~Alive(i)'
    BY DEF NoStrayChild
  <2>1. CASE i = j
    BY <1>1, <2>1
  <2>2. CASE i # j
    BY <1>1, <2>2 DEF IInv, NoStrayChild, Alive
  <2> QED  BY <2>1, <2>2
<1> QED  BY <1>2, <1>3, <1>4 DEF IInv

LEMMA ThreadKeepsIInv ==
  ASSUME IInv, NEW j \in Job, WorkerStep(j)
  PROVE  IInv'
<1> USE DEF faults
<1>0. /\ worker \in [Job -> WorkerState] /\ RegistryTypeOK /\ marker \in [File -> Content]
      /\ child \in [Job -> [pc : ChildPc, text : Text \cup {"none"}]]
  BY DEF IInv, TypeOK
<1>a. ASSUME UNCHANGED registry  PROVE RegistryTypeOK' /\ DOMAIN jobs' \subseteq DOMAIN jobs
  BY <1>0, <1>a DEF registry, RegistryTypeOK, IsRegistry
<1>b. ASSUME NEW js, Look(js)  PROVE RegistryTypeOK' /\ DOMAIN jobs' \subseteq DOMAIN jobs
  BY <1>0, <1>b, LookKeeps DEF Keeps
<1>c. worker[j].pc \notin {"poll", "stopping", "down"} => ~Alive(j)
  BY DEF IInv, NoStrayChild
<1>1. CASE StartSubprocess(j)
  <2>1. /\ child' \in [Job -> [pc : ChildPc, text : Text \cup {"none"}]]
        /\ \A i \in Job \ {j} : child'[i] = child[i]
    BY <1>0, <1>1, ChildToType DEF StartSubprocess, ChildPc
  <2> QED  BY <1>0, <1>1, <1>b, <2>1, ThreadStep DEF StartSubprocess, WorkerPc, files
<1>2. CASE PollCancelled(j)
  BY <1>0, <1>2, <1>b, ThreadStep DEF PollCancelled, WorkerPc, files
<1>3. CASE PollExited(j)
  BY <1>0, <1>3, <1>b, ThreadStep DEF PollExited, WorkerPc, files, Alive
<1>4. CASE TimeOut(j)
  <2>1. /\ child' \in [Job -> [pc : ChildPc, text : Text \cup {"none"}]]
        /\ \A i \in Job \ {j} : child'[i] = child[i]
        /\ ~Alive(j)'
    BY <1>0, <1>4 DEF TimeOut, ChildPc, Alive
  <2> QED  BY <1>0, <1>4, <1>b, <2>1, ThreadStep DEF TimeOut, WorkerPc, files
<1>5. CASE StopChild(j)
  <2>1. /\ child' \in [Job -> [pc : ChildPc, text : Text \cup {"none"}]]
        /\ \A i \in Job \ {j} : child'[i] = child[i]
        /\ ~Alive(j)'
    BY <1>0, <1>5 DEF StopChild, ChildPc, Alive
  <2> QED  BY <1>0, <1>5, <1>a, <2>1, ThreadStep DEF StopChild, WorkerPc, files
<1>6. CASE Judge(j)
  <2>1. PICK js : /\ Look(js)
                  /\ WorkerTo(j, IF CancelRequested(js, j)
                                   THEN IF IsCaseActions(j) THEN "optimize" ELSE "done"
                                   ELSE IF Succeeded(j) THEN "hash" ELSE "fail")
    BY <1>6 DEF Judge
  <2>2. PICK pc \in {"optimize", "done", "hash", "fail"} : WorkerTo(j, pc)
    BY <2>1
  <2>3. ~Alive(j)' /\ worker[j].pc # "none"
    BY <1>6, <1>c DEF Judge, Alive
  <2> QED  BY <1>0, <1>6, <1>b, <2>1, <2>2, <2>3, ThreadStep DEF Judge, WorkerPc, files
<1>7. CASE HashReport(j)
  <2>1. CASE report[FileOf(j)].text = "none"
    <3>1. WorkerTo(j, "fail")
      BY <1>7, <2>1 DEF HashReport, WorkerTo
    <3> QED  BY <1>0, <1>7, <1>a, <1>c, <3>1, ThreadStep DEF HashReport, WorkerPc, files, Alive
  <2>2. CASE report[FileOf(j)].text # "none"
    <3>1. worker[j] \in [pc : WorkerPc \ {"none"}, caseId : Case, kind : Kind, hash : Content]
      BY <1>0, <1>7 DEF HashReport, WorkerState
    <3>2. report[FileOf(j)].text \in Content
      BY <1>0, <1>7, FileOfType DEF HashReport, IInv, TypeOK
    <3> DEFINE new == [worker[j] EXCEPT !.pc = "mark", !.hash = report[FileOf(j)].text]
    <3>3. new \in WorkerState /\ new.pc = "mark"
      BY <3>1, <3>2 DEF WorkerState, WorkerPc
    <3>4. worker' = [worker EXCEPT ![j] = new]
      BY <1>0, <1>7, <2>2, <3>1 DEF HashReport
    <3> HIDE DEF new
    <3>5. worker' \in [Job -> WorkerState] /\ worker'[j].pc = "mark"
      BY <1>0, <3>3, <3>4
    <3>6. TypeOK'
      BY <1>7, <1>a, <3>5 DEF HashReport, IInv, TypeOK, files
    <3>7. KnownJobs'
      BY <1>0, <1>7, <1>a, <3>4, <3>5 DEF HashReport, IInv, KnownJobs, RegistryTypeOK, IsRegistry, registry
    <3>8. NoStrayChild'
      BY <1>0, <1>7, <1>c, <3>4, <3>5 DEF HashReport, IInv, NoStrayChild, Alive
    <3> QED  BY <3>6, <3>7, <3>8 DEF IInv
  <2> QED  BY <2>1, <2>2
<1>8. CASE TruncateMarker(j)
  <2>1. marker' \in [File -> Content]
    BY <1>0, <1>8 DEF TruncateMarker, Content
  <2> QED  BY <1>0, <1>8, <1>a, <1>c, <2>1, ThreadStep DEF TruncateMarker, WorkerPc, Alive
<1>9. CASE WriteMarker(j)
  <2>1. worker[j].hash \in Content
    BY <1>0, <1>9 DEF WriteMarker, WorkerState
  <2>2. marker' \in [File -> Content]
    BY <1>0, <1>9, <2>1 DEF WriteMarker
  <2>3. PICK pc \in {"optimize", "complete"} : WorkerTo(j, pc)
    BY <1>9 DEF WriteMarker
  <2> QED  BY <1>0, <1>9, <1>a, <1>c, <2>2, <2>3, ThreadStep DEF WriteMarker, WorkerPc, Alive
<1>10. CASE Optimize(j)
  <2>1. PICK js : Look(js)
    BY <1>10 DEF Optimize
  <2>2. PICK pc \in {"done", "complete", "fail"} : WorkerTo(j, pc)
    BY <1>10 DEF Optimize
  <2> QED  BY <1>0, <1>10, <1>b, <1>c, <2>1, <2>2, ThreadStep DEF Optimize, WorkerPc, files, Alive
<1>11. CASE Finish(j)
  <2>1. RegistryTypeOK' /\ DOMAIN jobs' \subseteq DOMAIN jobs
    <3>1. PICK status \in TerminalStatus : Settle(j, status)
      BY <1>11 DEF Finish, TerminalStatus
    <3> QED  BY <1>0, <3>1, SettleKeeps
  <2> QED  BY <1>0, <1>11, <1>c, <2>1, ThreadStep DEF Finish, WorkerPc, files, Alive
<1> QED  BY <1>1, <1>2, <1>3, <1>4, <1>5, <1>6, <1>7, <1>8, <1>9, <1>10, <1>11 DEF WorkerStep


(* A step of a subprocess: it can only end or go on. *)
LEMMA ChildKeepsIInv ==
  ASSUME IInv, NEW j \in Job, ChildStep(j)
  PROVE  IInv'
<1>0. /\ worker \in [Job -> WorkerState] /\ RegistryTypeOK
      /\ child \in [Job -> [pc : ChildPc, text : Text \cup {"none"}]]
      /\ report \in [File -> [text : Content, by : Job \cup {NoJob}, mixed : BOOLEAN]]
      /\ reader \in [Reader -> ReaderState]
  BY DEF IInv, TypeOK
<1>1. UNCHANGED <<registry, handler, worker, marker, faults>> /\ Alive(j)
  BY DEF ChildStep, ChildRejects, ChildFails, ChildTruncates, ChildFinishes, Alive, files
<1>2. worker[j].pc # "none" /\ FileOf(j) \in File
  BY <1>0, <1>1, FileOfType DEF IInv, NoStrayChild
<1>3. /\ child' \in [Job -> [pc : ChildPc, text : Text \cup {"none"}]]
      /\ \A i \in Job \ {j} : child'[i] = child[i]
  <2>1. CASE ChildRejects(j) \/ ChildFails(j) \/ ChildFinishes(j)
    BY <1>0, <2>1, ChildToType DEF ChildRejects, ChildFails, ChildFinishes, ChildPc
  <2>2. ASSUME NEW text \in Text, ChildTruncates(j, text)
        PROVE  /\ child' \in [Job -> [pc : ChildPc, text : Text \cup {"none"}]]
               /\ \A i \in Job \ {j} : child'[i] = child[i]
    BY <1>0, <2>2 DEF ChildTruncates, ChildPc
  <2> QED  BY <2>1, <2>2 DEF ChildStep
<1>4. report' \in [File -> [text : Content, by : Job \cup {NoJob}, mixed : BOOLEAN]]
  <2>1. CASE ChildRejects(j) \/ ChildFails(j)
    BY <1>0, <2>1 DEF ChildRejects, ChildFails, files
  <2>2. ASSUME NEW text \in Text, ChildTruncates(j, text)
        PROVE  report' \in [File -> [text : Content, by : Job \cup {NoJob}, mixed : BOOLEAN]]
    <3> DEFINE mixed == Writing(FileOf(j)) # {}
    <3>1. mixed \in BOOLEAN  OBVIOUS
    <3>2. report' = [report EXCEPT ![FileOf(j)] = [text |-> "torn", by |-> j, mixed |-> mixed]]
      BY <2>2 DEF ChildTruncates
    <3> HIDE DEF mixed
    <3> QED  BY <1>0, <1>2, <3>1, <3>2 DEF Content
  <2>3. CASE ChildFinishes(j)
    <3> DEFINE mixed == report[FileOf(j)].mixed /\ Writing(FileOf(j)) # {j}
    <3>1. PICK text \in {child[j].text, "torn"} :
            report' = [report EXCEPT ![FileOf(j)] =
                         [text |-> text, by |-> report[FileOf(j)].by, mixed |-> mixed]]
      BY <2>3 DEF ChildFinishes
    <3>2. text \in Content
      BY <1>0 DEF Content
    <3>3. mixed \in BOOLEAN  OBVIOUS
    <3>4. report[FileOf(j)].by \in Job \cup {NoJob}
      BY <1>0, <1>2
    <3> HIDE DEF mixed
    <3> QED  BY <1>0, <1>2, <3>1, <3>2, <3>3, <3>4
  <2> QED  BY <2>1, <2>2, <2>3 DEF ChildStep
<1>5. reader' \in [Reader -> ReaderState]
  <2>1. CASE reader' = reader
    BY <1>0, <2>1
  <2>2. ASSUME NEW text \in Text, ChildTruncates(j, text)
        PROVE  reader' \in [Reader -> ReaderState]
    BY <1>0, <2>2 DEF ChildTruncates, ReaderState
  <2> QED  BY <2>1, <2>2 DEF ChildStep, ChildRejects, ChildFails, ChildFinishes
<1>6. TypeOK'
  BY <1>0, <1>1, <1>3, <1>4, <1>5
     DEF IInv, TypeOK, registry, faults, RegistryTypeOK, IsRegistry
<1>7. KnownJobs'
  BY <1>1 DEF IInv, KnownJobs, registry
<1>8. NoStrayChild'
  BY <1>1, <1>3 DEF IInv, NoStrayChild, Alive
<1> QED  BY <1>6, <1>7, <1>8 DEF IInv

LEMMA NextIInv == IInv /\ [Next]_vars => IInv'
<1> SUFFICES ASSUME IInv, [Next]_vars PROVE IInv'
  OBVIOUS
<1>0. TypeOK /\ KnownJobs /\ NoStrayChild /\ RegistryTypeOK
  BY DEF IInv, TypeOK
(* Steps that only look at the registry, or not even that, and touch neither *)
(* job threads nor subprocesses. *)
<1>a. ASSUME UNCHANGED <<worker, child, files>>, RegistryTypeOK', DOMAIN jobs' \subseteq DOMAIN jobs,
             handler' \in [Request -> HandlerState], reader' \in [Reader -> ReaderState],
             cancels' \in Nat, restarts' \in Nat
      PROVE  IInv'
  BY <1>0, <1>a DEF IInv, TypeOK, files, KnownJobs, NoStrayChild, Alive
<1>b. ASSUME UNCHANGED registry
      PROVE  RegistryTypeOK' /\ DOMAIN jobs' \subseteq DOMAIN jobs
  BY <1>0, <1>b DEF registry, RegistryTypeOK, IsRegistry
<1>1. ASSUME NEW r \in Request, NEW c \in Case, NEW kind \in Kind, AskForReport(r, c, kind)
      PROVE  IInv'
  <2>1. PICK js : /\ Look(js)
                  /\ handler' = IF RunningReport(js, c) = {}
                       THEN [handler EXCEPT ![r] = [pc |-> "checked", caseId |-> c, kind |-> kind]]
                       ELSE handler
    BY <1>1 DEF AskForReport
  <2>2. handler' \in [Request -> HandlerState]
    BY <1>0, <2>1 DEF TypeOK, HandlerState
  <2>3. RegistryTypeOK' /\ DOMAIN jobs' \subseteq DOMAIN jobs
    BY <1>0, <2>1, LookKeeps DEF Keeps
  <2> QED  BY <1>0, <1>1, <1>a, <2>2, <2>3 DEF AskForReport, TypeOK, faults
<1>2. ASSUME NEW r \in Request, NEW j \in Job, StartReportJob(r, j)
      PROVE  IInv'
  <2>1. handler[r].caseId \in Case /\ handler[r].kind \in Kind
    BY <1>0, <1>2 DEF StartReportJob, TypeOK, HandlerState
  <2>2. j \notin DOMAIN jobs
    BY <1>0, <1>2 DEF StartReportJob, KnownJobs
  <2>3. RegistryTypeOK' /\ DOMAIN jobs' \subseteq DOMAIN jobs \cup {j}
    BY <1>0, <1>2, <2>1, <2>2, CreateKeeps DEF StartReportJob
  <2> DEFINE new == [pc |-> "start", caseId |-> handler[r].caseId,
                     kind |-> handler[r].kind, hash |-> "none"]
  <2>4. new \in WorkerState /\ new.pc = "start"
    BY <2>1 DEF WorkerState, WorkerPc, Content
  <2>5. worker' = [worker EXCEPT ![j] = new]
    BY <1>2 DEF StartReportJob
  <2> HIDE DEF new
  <2>6. /\ worker' \in [Job -> WorkerState]
        /\ worker'[j].pc = "start"
        /\ \A i \in Job \ {j} : worker'[i] = worker[i]
    BY <1>0, <2>4, <2>5 DEF TypeOK
  <2>7. handler' \in [Request -> HandlerState]
    BY <1>0, <1>2 DEF StartReportJob, TypeOK, HandlerState
  <2>8. TypeOK'
    BY <1>0, <1>2, <2>3, <2>6, <2>7 DEF StartReportJob, TypeOK, files, faults
  <2>9. KnownJobs'
    BY <1>0, <2>3, <2>6 DEF KnownJobs, RegistryTypeOK, IsRegistry
  <2>10. NoStrayChild'
    BY <1>0, <1>2, <2>6 DEF StartReportJob, NoStrayChild, Alive
  <2> QED  BY <2>8, <2>9, <2>10 DEF IInv
<1>3. ASSUME NEW j \in Job, Cancel(j)
      PROVE  IInv'
  <2>1. RegistryTypeOK' /\ DOMAIN jobs' \subseteq DOMAIN jobs
    BY <1>0, <1>3, CancelKeeps DEF Cancel
  <2> QED  BY <1>0, <1>3, <1>a, <2>1 DEF Cancel, TypeOK
<1>4. CASE LookAtJobs
  <2>1. RegistryTypeOK' /\ DOMAIN jobs' \subseteq DOMAIN jobs
    BY <1>0, <1>4, LookKeeps DEF LookAtJobs, Keeps
  <2> QED  BY <1>0, <1>4, <1>a, <2>1 DEF LookAtJobs, TypeOK, faults
<1>5. CASE Tick
  <2>1. RegistryTypeOK' /\ DOMAIN jobs' \subseteq DOMAIN jobs
    BY <1>0, <1>5 DEF Tick, RegistryTypeOK, IsRegistry
  <2> QED  BY <1>0, <1>5, <1>a, <2>1 DEF Tick, TypeOK, faults
<1>6. CASE Restart
  <2>1. RegistryTypeOK' /\ DOMAIN jobs' = {}
    BY <1>0, <1>6 DEF Restart, RegistryTypeOK, IsRegistry
  <2>2. /\ worker' \in [Job -> WorkerState]
        /\ \A i \in Job : worker'[i] = worker[i] \/ worker'[i].pc = "down"
    <3> SUFFICES ASSUME NEW i \in Job
                 PROVE  /\ worker'[i] \in WorkerState
                        /\ worker'[i] = worker[i] \/ worker'[i].pc = "down"
      BY <1>6 DEF Restart
    <3>1. CASE worker[i].pc \in {"none", "done"}
      BY <1>0, <1>6, <3>1 DEF Restart, TypeOK
    <3>2. CASE worker[i].pc \notin {"none", "done"}
      <4>1. worker[i] \in [pc : WorkerPc \ {"none"}, caseId : Case, kind : Kind, hash : Content]
        BY <1>0, <3>2 DEF TypeOK, WorkerState
      <4>2. worker'[i] = [worker[i] EXCEPT !.pc = "down"]
        BY <1>6, <3>2 DEF Restart
      <4> QED  BY <4>1, <4>2 DEF WorkerState, WorkerPc
    <3> QED  BY <3>1, <3>2
  <2>3. handler' \in [Request -> HandlerState] /\ reader' \in [Reader -> ReaderState]
    BY <1>6 DEF Restart, HandlerState, ReaderState
  <2>4. TypeOK'
    BY <1>0, <1>6, <2>1, <2>2, <2>3 DEF Restart, TypeOK, files
  <2>5. KnownJobs'
    BY <2>1 DEF KnownJobs
  <2>6. NoStrayChild'
    BY <1>0, <1>6, <2>2 DEF Restart, NoStrayChild, Alive
  <2> QED  BY <2>4, <2>5, <2>6 DEF IInv
<1>7. ASSUME NEW r \in Reader, NEW f \in File, ReadMarker(r, f)
      PROVE  IInv'
  <2>1. reader' \in [Reader -> ReaderState]
    BY <1>0, <1>7 DEF ReadMarker, TypeOK, ReaderState
  <2> QED  BY <1>0, <1>7, <1>a, <1>b, <2>1 DEF ReadMarker, TypeOK, faults
<1>8. ASSUME NEW r \in Reader, CompareHash(r) \/ ShowReport(r) \/ CloseReport(r)
      PROVE  IInv'
  <2>1. CASE CompareHash(r)
    <3>1. PICK new \in {[reader[r] EXCEPT !.pc = "read"], [pc |-> "idle"]} :
            reader' = [reader EXCEPT ![r] = new]
      BY <1>0, <2>1 DEF CompareHash, TypeOK
    <3>2. new \in ReaderState
      <4>1. reader[r] \in [pc : {"compare", "read", "shown"}, file : File,
                           text : Content, overtaken : BOOLEAN]
        BY <1>0, <2>1 DEF CompareHash, TypeOK, ReaderState
      <4>2. [reader[r] EXCEPT !.pc = "read"] \in ReaderState
        BY <4>1 DEF ReaderState
      <4>3. [pc |-> "idle"] \in ReaderState
        BY DEF ReaderState
      <4> QED  BY <4>2, <4>3
    <3>3. reader' \in [Reader -> ReaderState]
      BY <1>0, <3>1, <3>2 DEF TypeOK
    <3> QED  BY <1>0, <2>1, <1>a, <1>b, <3>3 DEF CompareHash, TypeOK, faults
  <2>2. CASE ShowReport(r)
    <3>1. reader[r] \in [pc : {"compare", "read", "shown"}, file : File,
                         text : Content, overtaken : BOOLEAN]
      BY <1>0, <2>2 DEF ShowReport, TypeOK, ReaderState
    <3>2. report[reader[r].file].text \in Content
      BY <1>0, <3>1 DEF TypeOK
    <3>3. reader' \in [Reader -> ReaderState]
      BY <1>0, <2>2, <3>1, <3>2 DEF ShowReport, TypeOK, ReaderState
    <3> QED  BY <1>0, <2>2, <1>a, <1>b, <3>3 DEF ShowReport, TypeOK, faults
  <2>3. CASE CloseReport(r)
    <3>1. reader' \in [Reader -> ReaderState]
      BY <1>0, <2>3 DEF CloseReport, TypeOK, ReaderState
    <3> QED  BY <1>0, <2>3, <1>a, <1>b, <3>1 DEF CloseReport, TypeOK, faults
  <2> QED  BY <1>8, <2>1, <2>2, <2>3
<1>9. CASE UNCHANGED vars
  BY <1>0, <1>9, <1>a, <1>b DEF vars, TypeOK, faults
<1> QED
  BY <1>1, <1>2, <1>3, <1>4, <1>5, <1>6, <1>7, <1>8, <1>9,
     ChildKeepsIInv, ThreadKeepsIInv DEF Next


LEMMA Inductive == Spec => []IInv
<1>1. Init => IInv  BY InitIInv
<1>2. IInv /\ [Next]_vars => IInv'  BY NextIInv
<1> QED  BY <1>1, <1>2, PTL DEF Spec

-----------------------------------------------------------------------------
(* Type correctness: in particular every job the registry knows is a record *)
(* of one job, and every file a thread works on is a report of its case.   *)
THEOREM ReportsTypeCorrect == Spec => []TypeOK
<1>1. IInv => TypeOK  BY DEF IInv
<1> QED  BY <1>1, Inductive, PTL

(* A job thread that is past its subprocess leaves none behind             *)
(* (run_bounded_subprocess returns only after the process has ended).      *)
THEOREM NoChildLeftBehind == Spec => []NoStrayChild
<1>1. IInv => NoStrayChild  BY DEF IInv
<1> QED  BY <1>1, Inductive, PTL

-----------------------------------------------------------------------------
(* A job ends once.  What is needed of the invariant is that a new job's id *)
(* is not known yet, so that its creation overwrites no job.               *)

LEMMA KeepsEnds ==
  ASSUME Keeps(jobs, jobs')
  PROVE  EndedForGood
BY DEF Keeps, EndedForGood

LEMMA ThreadEnds ==
  ASSUME IInv, NEW j \in Job, WorkerStep(j)
  PROVE  EndedForGood
<1>0. RegistryTypeOK /\ worker \in [Job -> WorkerState]
  BY DEF IInv, TypeOK
<1>1. CASE Finish(j)
  <2>1. PICK status \in TerminalStatus : Settle(j, status)
    BY <1>1 DEF Finish, TerminalStatus
  <2>2. worker[j].pc # "none" /\ WorkerTo(j, "done")
    BY <1>1 DEF Finish
  <2>3. worker'[j].pc = "done"
    BY <1>0, <2>2, WorkerToType DEF WorkerPc
  <2> QED  BY <1>0, <2>1, <2>3, SettleKeeps DEF EndedForGood
<1>2. ASSUME NEW js, Look(js)  PROVE EndedForGood
  BY <1>0, <1>2, LookKeeps, KeepsEnds
<1>3. CASE jobs' = jobs
  BY <1>3 DEF EndedForGood
<1>4. CASE StartSubprocess(j) \/ PollCancelled(j) \/ PollExited(j) \/ TimeOut(j)
  BY <1>2, <1>4 DEF StartSubprocess, PollCancelled, PollExited, TimeOut
<1>5. CASE Judge(j) \/ Optimize(j)
  BY <1>2, <1>5 DEF Judge, Optimize
<1>6. CASE StopChild(j) \/ HashReport(j) \/ TruncateMarker(j) \/ WriteMarker(j)
  BY <1>3, <1>6 DEF StopChild, HashReport, TruncateMarker, WriteMarker, registry
<1> QED  BY <1>1, <1>4, <1>5, <1>6 DEF WorkerStep

(* A late completion or failure does not overwrite a stop, a late stop does *)
(* not overwrite a completion, and no pruning forgets a job that runs       *)
(* (the status guards of WebJobStore).                                     *)
THEOREM JobsEndOnce == Spec => JobsOnlyEnd
<1>1. IInv /\ [Next]_vars => [restarts' # restarts \/ EndedForGood]_vars
  <2> SUFFICES ASSUME IInv, Next  PROVE restarts' # restarts \/ EndedForGood
    OBVIOUS
  <2>0. RegistryTypeOK /\ KnownJobs /\ TypeOK
    BY DEF IInv, TypeOK
  <2>a. ASSUME NEW js, Look(js)  PROVE EndedForGood
    BY <2>0, <2>a, LookKeeps, KeepsEnds
  <2>b. ASSUME jobs' = jobs  PROVE EndedForGood
    BY <2>b DEF EndedForGood
  <2>1. ASSUME NEW r \in Request, NEW c \in Case, NEW kind \in Kind, AskForReport(r, c, kind)
        PROVE  EndedForGood
    BY <2>1, <2>a DEF AskForReport
  <2>2. ASSUME NEW r \in Request, NEW j \in Job, StartReportJob(r, j)
        PROVE  EndedForGood
    <3>1. handler[r].caseId \in Case /\ handler[r].kind \in Kind
      BY <2>0, <2>2 DEF StartReportJob, TypeOK, HandlerState
    <3>2. j \notin DOMAIN jobs
      BY <2>0, <2>2 DEF StartReportJob, KnownJobs
    <3> QED  BY <2>0, <2>2, <3>1, <3>2, CreateKeeps DEF StartReportJob, EndedForGood
  <2>3. ASSUME NEW j \in Job, Cancel(j)  PROVE EndedForGood
    BY <2>0, <2>3, CancelKeeps DEF Cancel, EndedForGood
  <2>4. CASE LookAtJobs
    BY <2>4, <2>a DEF LookAtJobs
  <2>5. CASE Tick
    <3>1. jobs' = jobs  BY <2>5 DEF Tick
    <3> QED  BY <3>1, <2>b
  <2>6. CASE Restart
    <3>1. restarts \in Nat  BY <2>0 DEF TypeOK
    <3>2. restarts' = restarts + 1  BY <2>6 DEF Restart
    <3> QED  BY <3>1, <3>2
  <2>7. ASSUME NEW j \in Job, ChildStep(j)  PROVE EndedForGood
    <3>1. jobs' = jobs
      BY <2>7 DEF ChildStep, ChildRejects, ChildFails, ChildTruncates, ChildFinishes, registry
    <3> QED  BY <3>1, <2>b
  <2>8. ASSUME NEW r \in Reader,
               (\E f \in File : ReadMarker(r, f)) \/ CompareHash(r) \/ ShowReport(r) \/ CloseReport(r)
        PROVE  EndedForGood
    <3>1. jobs' = jobs
      BY <2>8 DEF ReadMarker, CompareHash, ShowReport, CloseReport, registry
    <3> QED  BY <3>1, <2>b
  <2> QED
    BY <2>1, <2>2, <2>3, <2>4, <2>5, <2>6, <2>7, <2>8, ThreadEnds DEF Next
<1> QED  BY <1>1, Inductive, PTL DEF Spec, JobsOnlyEnd

-----------------------------------------------------------------------------
(* Ended jobs do not pile up.                                              *)

Few == Cardinality(Ended(jobs')) <= MaxTerminal

LEMMA ThreadLeavesFew ==
  ASSUME IInv, MaxTerminal > 0, NEW j \in Job, WorkerStep(j), jobs' # jobs
  PROVE  Few
<1>0. RegistryTypeOK
  BY DEF IInv, TypeOK
<1>1. ASSUME NEW js, Look(js)  PROVE Few
  BY <1>0, <1>1, LookBounded DEF Few
<1>2. CASE Finish(j)
  <2>1. PICK status \in TerminalStatus : Settle(j, status)
    BY <1>2 DEF Finish, TerminalStatus
  <2> QED  BY <1>0, <2>1, SettleBounded DEF Few
<1>3. CASE \/ StartSubprocess(j) \/ PollCancelled(j) \/ PollExited(j) \/ TimeOut(j)
           \/ Judge(j) \/ Optimize(j)
  BY <1>1, <1>3 DEF StartSubprocess, PollCancelled, PollExited, TimeOut, Judge, Optimize
<1>4. CASE StopChild(j) \/ HashReport(j) \/ TruncateMarker(j) \/ WriteMarker(j)
  BY <1>4 DEF StopChild, HashReport, TruncateMarker, WriteMarker, registry
<1> QED  BY <1>2, <1>3, <1>4 DEF WorkerStep

LEMMA FewStep ==
  ASSUME IInv, Next, MaxTerminal > 0, jobs' # jobs, cancels' = cancels
  PROVE  Few
<1>0. RegistryTypeOK /\ KnownJobs /\ TypeOK
  BY DEF IInv, TypeOK
<1>1. ASSUME NEW r \in Request, NEW c \in Case, NEW kind \in Kind, AskForReport(r, c, kind)
      PROVE  Few
  BY <1>0, <1>1, LookBounded DEF AskForReport, Few
<1>2. ASSUME NEW r \in Request, NEW j \in Job, StartReportJob(r, j)
      PROVE  Few
  <2>1. j \notin DOMAIN jobs
    BY <1>0, <1>2 DEF StartReportJob, KnownJobs
  <2> QED  BY <1>0, <1>2, <2>1, CreateBounded DEF StartReportJob, Few
<1>3. CASE LookAtJobs
  BY <1>0, <1>3, LookBounded DEF LookAtJobs, Few
<1>4. ASSUME NEW j \in Job, Cancel(j)
      PROVE  FALSE
  BY <1>0, <1>4 DEF Cancel, TypeOK
<1>5. CASE Restart
  <2>1. Ended(jobs') = {}
    BY <1>5 DEF Restart, Ended
  <2> QED  BY <2>1, FS_EmptySet, WebJobsAssumption DEF Few
<1>6. CASE Tick
  BY <1>6 DEF Tick
<1>7. ASSUME NEW j \in Job, ChildStep(j)
      PROVE  FALSE
  BY <1>7 DEF ChildStep, ChildRejects, ChildFails, ChildTruncates, ChildFinishes, registry
<1>8. ASSUME NEW r \in Reader,
             (\E f \in File : ReadMarker(r, f)) \/ CompareHash(r) \/ ShowReport(r) \/ CloseReport(r)
      PROVE  FALSE
  BY <1>8 DEF ReadMarker, CompareHash, ShowReport, CloseReport, registry
<1> QED
  BY <1>1, <1>2, <1>3, <1>4, <1>5, <1>6, <1>7, <1>8, ThreadLeavesFew DEF Next

(* Whatever changes the registry leaves no more ended jobs in it than are  *)
(* kept, for every limit and every number of jobs; only a stop, which ends *)
(* a job after the pruning, may leave one more                             *)
(* (WebJobStore._prune_locked and the methods that call it).                *)
THEOREM EndedStayFew == Spec => EndedBounded
<1>1. IInv /\ [Next]_vars =>
        [MaxTerminal > 0 /\ jobs' # jobs /\ cancels' = cancels
           => Cardinality(Ended(jobs')) <= MaxTerminal]_vars
  BY FewStep DEF Few
<1> QED  BY <1>1, Inductive, PTL DEF Spec, EndedBounded

(* A stop is not repeated without a pruning: at any time there is at most  *)
(* one ended job more than are kept, however many stops there are.         *)
THEOREM EndedOneOver ==
  ASSUME MaxTerminal > 0
  PROVE  Spec => [](Cardinality(Ended(jobs)) <= MaxTerminal + 1)
<1> DEFINE OneOver == Cardinality(Ended(jobs)) <= MaxTerminal + 1
<1>1. Init => OneOver
  <2> SUFFICES ASSUME Init PROVE OneOver
    OBVIOUS
  <2>1. Ended(jobs) = {}
    BY DEF Init, WebJobsInit, Ended
  <2> QED  BY <2>1, FS_EmptySet, WebJobsAssumption
<1>2. IInv /\ OneOver /\ [Next]_vars => OneOver'
  <2> SUFFICES ASSUME IInv, OneOver, [Next]_vars PROVE OneOver'
    OBVIOUS
  <2>1. RegistryTypeOK
    BY DEF IInv, TypeOK
  <2>2. CASE jobs' = jobs
    BY <2>2
  <2>3. CASE Next /\ jobs' # jobs /\ cancels' = cancels
    <3>1. RegistryTypeOK' /\ Few
      BY <2>3, FewStep, NextIInv DEF IInv, TypeOK
    <3>2. Cardinality(Ended(jobs')) \in Nat
      BY <3>1, EndedFinite DEF RegistryTypeOK
    <3> QED  BY <3>1, <3>2, WebJobsAssumption DEF Few
  <2>4. ASSUME NEW j \in Job, Cancel(j)
        PROVE  OneOver'
    BY <2>1, <2>4, CancelBounded DEF Cancel
  <2>5. ASSUME NEW j \in Job, WorkerStep(j)
        PROVE  cancels' = cancels
    BY <2>5 DEF WorkerStep, StartSubprocess, PollCancelled, PollExited, TimeOut,
       StopChild, Judge, HashReport, TruncateMarker, WriteMarker, Optimize, Finish, faults
  <2>6. ASSUME NEW j \in Job, ChildStep(j)
        PROVE  cancels' = cancels
    BY <2>6 DEF ChildStep, ChildRejects, ChildFails, ChildTruncates, ChildFinishes, faults
  <2>7. Next => cancels' = cancels \/ \E j \in Job : Cancel(j)
    BY <2>5, <2>6 DEF Next, AskForReport, StartReportJob, LookAtJobs, Tick, Restart,
       ReadMarker, CompareHash, ShowReport, CloseReport, faults
  <2> QED  BY <2>2, <2>3, <2>4, <2>7 DEF vars, registry
<1> QED  BY <1>1, <1>2, Inductive, PTL DEF Spec

-----------------------------------------------------------------------------
(* Reports made one after another.  First who may be at work: the registry, *)
(* the threads and the subprocesses agree that a case has one at most.     *)

(* One request after another, no stop and no restart: what it takes for a  *)
(* case to have one report job at a time.  A second request thread, a stop *)
(* (which ends a job in the registry while its thread still waits) or a    *)
(* restart (which a subprocess survives) would each let a second           *)
(* subprocess write the report.                                            *)
Serial ==
  /\ \A r, s \in Request : r = s
  /\ MaxCancels = 0
  /\ MaxRestarts = 0

Active(j) == worker[j].pc \notin {"none", "done"}

Undisturbed ==
  /\ cancels = 0 /\ restarts = 0
  /\ \A j \in DOMAIN jobs : ~jobs[j].cancelRequested
  /\ \A j \in Job : worker[j].pc \notin {"stopping", "stopped", "down"}

(* The registry knows of every thread that it runs, and for which case.    *)
Tracked ==
  \A j \in Job : Active(j) =>
    /\ j \in DOMAIN jobs
    /\ jobs[j].status = "running"
    /\ jobs[j].caseId = worker[j].caseId

OnePerCase ==
  \A i, j \in Job : Active(i) /\ Active(j) /\ worker[i].caseId = worker[j].caseId => i = j

(* A request that has found its case free still finds it free.             *)
StillFree ==
  \A r \in Request, j \in Job :
    handler[r].pc = "checked" /\ Active(j) => worker[j].caseId # handler[r].caseId

(* A subprocess is started once, by the thread that watches it.            *)
NoChildYet == \A j \in Job : worker[j].pc \in {"none", "start"} => child[j].pc = "none"

ControlInv == Undisturbed /\ Tracked /\ OnePerCase /\ StillFree /\ NoChildYet

LEMMA ControlInit == Init => ControlInv
BY DEF Init, WebJobsInit, ControlInv, Undisturbed, Tracked, OnePerCase, StillFree,
       NoChildYet, Active

LEMMA NotStopped ==
  ASSUME RegistryTypeOK, Undisturbed, NEW js, Look(js), NEW j
  PROVE  ~CancelRequested(js, j)
BY PrunedKeeps DEF Look, RegistryTypeOK, Undisturbed, CancelRequested

(* A thread that goes on, with the registry only looked at.                *)
LEMMA ThreadControl ==
  ASSUME IInv, ControlInv, NEW j \in Job, Active(j),
         Keeps(jobs, jobs'),
         worker'[j].pc \in {"poll", "returned", "hash", "mark", "marking",
                            "optimize", "complete", "fail"},
         worker'[j].caseId = worker[j].caseId,
         \A i \in Job \ {j} : worker'[i] = worker[i] /\ child'[i] = child[i],
         UNCHANGED <<handler, faults>>
  PROVE  ControlInv'
<1>1. Undisturbed'
  BY DEF ControlInv, Undisturbed, Keeps, faults
<1>2. Tracked'
  BY DEF ControlInv, Tracked, Keeps, Active
<1>3. OnePerCase'
  BY DEF ControlInv, OnePerCase, Active
<1>4. StillFree'
  BY DEF ControlInv, StillFree, Active
<1>5. NoChildYet'
  BY DEF ControlInv, NoChildYet
<1> QED  BY <1>1, <1>2, <1>3, <1>4, <1>5 DEF ControlInv

LEMMA WorkerToActive ==
  ASSUME worker \in [Job -> WorkerState], NEW j \in Job, Active(j),
         NEW pc \in WorkerPc \ {"none"}, WorkerTo(j, pc)
  PROVE  /\ worker'[j].pc = pc
         /\ worker'[j].caseId = worker[j].caseId
         /\ worker'[j].kind = worker[j].kind
         /\ worker'[j].hash = worker[j].hash
         /\ \A i \in Job \ {j} : worker'[i] = worker[i]
<1>1. worker[j] \in [pc : WorkerPc \ {"none"}, caseId : Case, kind : Kind, hash : Content]
  BY DEF WorkerState, Active
<1>2. worker' = [worker EXCEPT ![j] = [worker[j] EXCEPT !.pc = pc]]
  BY DEF WorkerTo
<1> QED  BY <1>1, <1>2

LEMMA ThreadKeepsControl ==
  ASSUME IInv, ControlInv, NEW j \in Job, WorkerStep(j)
  PROVE  ControlInv'
<1>0. /\ worker \in [Job -> WorkerState] /\ RegistryTypeOK /\ Undisturbed
      /\ child \in [Job -> [pc : ChildPc, text : Text \cup {"none"}]]
  BY DEF IInv, TypeOK, ControlInv
<1>1. Active(j)
  BY DEF WorkerStep, StartSubprocess, PollCancelled, PollExited, TimeOut, StopChild,
     Judge, HashReport, TruncateMarker, WriteMarker, Optimize, Finish, Active
<1>a. ASSUME NEW pc \in {"poll", "returned", "hash", "mark", "marking",
                         "optimize", "complete", "fail"}, WorkerTo(j, pc),
             Keeps(jobs, jobs'),
             \A i \in Job \ {j} : child'[i] = child[i],
             UNCHANGED <<handler, faults>>
      PROVE  ControlInv'
  <2>1. pc \in WorkerPc \ {"none"}
    BY DEF WorkerPc
  <2> QED  BY <1>0, <1>1, <1>a, <2>1, WorkerToActive, ThreadControl
<1>b. ASSUME NEW js, Look(js)  PROVE Keeps(jobs, jobs')
  BY <1>0, <1>b, LookKeeps
<1>c. ASSUME UNCHANGED registry  PROVE Keeps(jobs, jobs')
  BY <1>c DEF registry, Keeps
<1>2. CASE StartSubprocess(j)
  BY <1>0, <1>2, <1>a, <1>b DEF StartSubprocess, ChildTo
<1>3. CASE PollExited(j)
  BY <1>3, <1>a, <1>b DEF PollExited
<1>4. CASE TimeOut(j)
  BY <1>0, <1>4, <1>a, <1>b DEF TimeOut
<1>5. CASE Judge(j)
  <2>1. PICK js : Look(js) /\ ~CancelRequested(js, j)
                  /\ \E pc \in {"hash", "fail"} : WorkerTo(j, pc)
    BY <1>0, <1>5, NotStopped DEF Judge
  <2> QED  BY <1>5, <1>a, <1>b, <2>1 DEF Judge
<1>6. CASE HashReport(j)
  <2>1. /\ worker'[j].pc \in {"mark", "fail"}
        /\ worker'[j].caseId = worker[j].caseId
        /\ \A i \in Job \ {j} : worker'[i] = worker[i]
    BY <1>0, <1>6, <1>1 DEF HashReport, WorkerState, Active
  <2> QED  BY <1>1, <1>6, <1>c, <2>1, ThreadControl DEF HashReport
<1>7. CASE TruncateMarker(j)
  BY <1>7, <1>a, <1>c DEF TruncateMarker
<1>8. CASE WriteMarker(j)
  BY <1>8, <1>a, <1>c DEF WriteMarker
<1>9. CASE Optimize(j)
  <2>1. PICK js : Look(js) /\ \E pc \in {"complete", "fail"} : WorkerTo(j, pc)
    BY <1>0, <1>9, NotStopped DEF Optimize
  <2> QED  BY <1>9, <1>a, <1>b, <2>1 DEF Optimize
<1>10. CASE Finish(j)
  <2>1. PICK status \in TerminalStatus : Settle(j, status)
    BY <1>10 DEF Finish, TerminalStatus
  <2>2. /\ worker'[j].pc = "done"
        /\ \A i \in Job \ {j} : worker'[i] = worker[i]
        /\ UNCHANGED <<handler, child, cancels, restarts>>
    <3>1. WorkerTo(j, "done") /\ "done" \in WorkerPc \ {"none"}
      BY <1>10 DEF Finish, WorkerPc
    <3> QED  BY <1>0, <1>1, <1>10, <3>1, WorkerToActive DEF Finish, faults
  <2>3. /\ \A i \in DOMAIN jobs : jobs[i].status = "running" => i \in DOMAIN jobs' \/ i = j
        /\ \A i \in DOMAIN jobs' : i # j => jobs'[i] = jobs[i]
        /\ \A i \in DOMAIN jobs' : jobs'[i].cancelRequested = jobs[i].cancelRequested
        /\ DOMAIN jobs' \subseteq DOMAIN jobs
    BY <1>0, <2>1, SettleKeeps
  <2>4. Undisturbed'
    BY <1>0, <2>2, <2>3 DEF Undisturbed
  <2>5. Tracked'
    BY <2>2, <2>3 DEF ControlInv, Tracked, Active
  <2>6. OnePerCase' /\ StillFree' /\ NoChildYet'
    BY <2>2 DEF ControlInv, OnePerCase, StillFree, NoChildYet, Active
  <2> QED  BY <2>4, <2>5, <2>6 DEF ControlInv
<1>11. CASE PollCancelled(j) \/ StopChild(j)
  BY <1>0, <1>11, NotStopped DEF PollCancelled, StopChild, Undisturbed
<1> QED
  BY <1>2, <1>3, <1>4, <1>5, <1>6, <1>7, <1>8, <1>9, <1>10, <1>11 DEF WorkerStep

LEMMA ControlStep ==
  ASSUME Serial, IInv, ControlInv, [Next]_vars
  PROVE  ControlInv'
<1>0. /\ worker \in [Job -> WorkerState] /\ RegistryTypeOK /\ TypeOK /\ KnownJobs
      /\ Undisturbed /\ Tracked /\ OnePerCase /\ StillFree /\ NoChildYet
  BY DEF IInv, TypeOK, ControlInv
<1>a. ASSUME UNCHANGED <<handler, worker, child, faults>>, Keeps(jobs, jobs')
      PROVE  ControlInv'
  BY <1>0, <1>a DEF ControlInv, Undisturbed, Tracked, OnePerCase, StillFree,
     NoChildYet, Active, Keeps, faults
<1>b. ASSUME jobs' = jobs  PROVE Keeps(jobs, jobs')
  BY <1>b DEF Keeps
<1>1. ASSUME NEW r \in Request, NEW c \in Case, NEW kind \in Kind, AskForReport(r, c, kind)
      PROVE  ControlInv'
  <2>1. PICK js \in Pruned(jobs) :
          /\ Look(js)
          /\ handler' = IF RunningReport(js, c) = {}
               THEN [handler EXCEPT ![r] = [pc |-> "checked", caseId |-> c, kind |-> kind]]
               ELSE handler
    BY <1>1 DEF AskForReport
  <2>2. Keeps(jobs, jobs') /\ Keeps(jobs, js) /\ UNCHANGED <<worker, child, cancels, restarts>>
    BY <1>0, <1>1, <2>1, LookKeeps, PrunedKeeps DEF AskForReport, faults, Keeps, RegistryTypeOK
  <2>3. RunningReport(js, c) = {} => \A j \in Job : Active(j) => worker[j].caseId # c
    BY <1>0, <2>2 DEF RunningReport, Tracked, Keeps
  <2>4. StillFree'
    BY <1>0, <2>1, <2>2, <2>3 DEF StillFree, Active, TypeOK
  <2> QED
    BY <1>0, <2>2, <2>4 DEF ControlInv, Undisturbed, Tracked, OnePerCase,
       NoChildYet, Active, Keeps
<1>2. ASSUME NEW r \in Request, NEW j \in Job, StartReportJob(r, j)
      PROVE  ControlInv'
  <2> DEFINE new == [pc |-> "start", caseId |-> handler[r].caseId,
                     kind |-> handler[r].kind, hash |-> "none"]
  <2>1. handler[r].caseId \in Case /\ handler[r].kind \in Kind /\ handler[r].pc = "checked"
    BY <1>0, <1>2 DEF StartReportJob, TypeOK, HandlerState
  <2>2. j \notin DOMAIN jobs
    BY <1>0, <1>2 DEF StartReportJob, KnownJobs
  <2>3. /\ DOMAIN jobs' \subseteq DOMAIN jobs \cup {j}
        /\ \A i \in DOMAIN jobs : i \in DOMAIN jobs' => jobs'[i] = jobs[i]
        /\ \A i \in DOMAIN jobs : jobs[i].status = "running" => i \in DOMAIN jobs'
        /\ j \in DOMAIN jobs'
        /\ jobs'[j].caseId = handler[r].caseId /\ jobs'[j].status = "running"
        /\ ~jobs'[j].cancelRequested
    BY <1>0, <1>2, <2>1, <2>2, CreateKeeps DEF StartReportJob
  <2>4. worker' = [worker EXCEPT ![j] = new] /\ UNCHANGED <<child, cancels, restarts>>
    BY <1>2 DEF StartReportJob, faults
  <2>5. /\ worker'[j].pc = "start" /\ worker'[j].caseId = handler[r].caseId
        /\ \A i \in Job \ {j} : worker'[i] = worker[i]
        /\ worker[j].pc = "none"
    BY <1>0, <1>2, <2>4 DEF StartReportJob
  <2>6. /\ handler'[r].pc = "idle"
        /\ \A s \in Request : s = r
    BY <1>0, <1>2 DEF StartReportJob, TypeOK, Serial
  <2>7. Undisturbed'
    BY <1>0, <2>3, <2>4, <2>5 DEF Undisturbed
  <2>8. Tracked'
    BY <1>0, <2>2, <2>3, <2>5 DEF Tracked, Active
  <2>9. OnePerCase'
    BY <1>0, <2>1, <2>5 DEF OnePerCase, StillFree, Active
  <2>10. StillFree' /\ NoChildYet'
    BY <1>0, <2>4, <2>5, <2>6 DEF StillFree, NoChildYet
  <2> QED  BY <2>7, <2>8, <2>9, <2>10 DEF ControlInv
<1>3. ASSUME NEW j \in Job, Cancel(j)
      PROVE  FALSE
  BY <1>0, <1>3 DEF Cancel, Serial, Undisturbed
<1>4. CASE Restart
  BY <1>0, <1>4 DEF Restart, Serial, Undisturbed
<1>5. CASE LookAtJobs
  BY <1>0, <1>5, <1>a, LookKeeps DEF LookAtJobs
<1>6. CASE Tick
  BY <1>6, <1>a, <1>b DEF Tick
<1>7. ASSUME NEW j \in Job, ChildStep(j)
      PROVE  ControlInv'
  <2>1. UNCHANGED <<registry, handler, worker, faults>> /\ Alive(j)
    BY <1>7 DEF ChildStep, ChildRejects, ChildFails, ChildTruncates, ChildFinishes,
       Alive, files
  <2>2. \A i \in Job : i # j => child'[i] = child[i]
    BY <1>0, <1>7 DEF ChildStep, ChildRejects, ChildFails, ChildTruncates,
       ChildFinishes, ChildTo, TypeOK
  <2>3. worker[j].pc \notin {"none", "start"}
    BY <1>0, <2>1 DEF NoChildYet, Alive
  <2> QED
    BY <1>0, <2>1, <2>2, <2>3 DEF ControlInv, Undisturbed, Tracked, OnePerCase,
       StillFree, NoChildYet, Active, registry, faults
<1>8. ASSUME NEW r \in Reader,
             (\E f \in File : ReadMarker(r, f)) \/ CompareHash(r) \/ ShowReport(r) \/ CloseReport(r)
      PROVE  ControlInv'
  BY <1>8, <1>a, <1>b DEF ReadMarker, CompareHash, ShowReport, CloseReport, registry
<1>9. CASE UNCHANGED vars
  BY <1>9, <1>a, <1>b DEF vars, registry
<1> QED
  BY <1>1, <1>2, <1>3, <1>4, <1>5, <1>6, <1>7, <1>8, <1>9, ThreadKeepsControl DEF Next

LEMMA ControlInvariant ==
  ASSUME Serial
  PROVE  Spec => []ControlInv
BY ControlInit, ControlStep, Inductive, PTL DEF Spec

-----------------------------------------------------------------------------
(* Then what is in the files while the control is as above.                 *)

(* The one writer of a report has torn it; nothing else has written since. *)
WriterAlone ==
  \A j \in Job : child[j].pc = "write" =>
    /\ child[j].text \in Text
    /\ report[FileOf(j)].text = "torn"
    /\ report[FileOf(j)].by = j

(* A subprocess that ended well leaves its report as it wrote it, as long  *)
(* as its thread goes on.                                                  *)
WrittenWhole ==
  \A j \in Job : Active(j) /\ child[j].pc = "exit0" =>
    /\ child[j].text \in Text
    /\ report[FileOf(j)].text = child[j].text
    /\ report[FileOf(j)].by = j

NeverMixed == \A f \in File : ~report[f].mixed

(* What a thread hashes and marks is the report its subprocess wrote.      *)
OwnMark(j) ==
  /\ worker[j].pc \in {"hash", "mark", "marking", "optimize", "complete"} =>
       child[j].pc = "exit0"
  /\ worker[j].pc \in {"mark", "marking"} => worker[j].hash = child[j].text
  /\ worker[j].pc \in {"optimize", "complete"} => marker[FileOf(j)] = child[j].text

MarksItsOwn == \A j \in Job : OwnMark(j)

MarkersWhole == \A f \in File : marker[f] \in Text \cup {"none"}

(* What a reader holds was whole, and still is unless it was overtaken.    *)
ReadersWhole ==
  \A r \in Reader :
    /\ reader[r].pc = "compare" => reader[r].text \in Text
    /\ reader[r].pc = "read" /\ ~reader[r].overtaken => report[reader[r].file].text \in Text
    /\ reader[r].pc = "shown" /\ ~reader[r].overtaken => reader[r].text \in Text

FilesInv ==
  /\ WriterAlone /\ WrittenWhole /\ NeverMixed /\ MarksItsOwn /\ MarkersWhole
  /\ OkIsTrusted /\ ReadersWhole

LEMMA FilesInit == Init => FilesInv
BY DEF Init, WebJobsInit, FilesInv, WriterAlone, WrittenWhole, NeverMixed,
       MarksItsOwn, OwnMark, MarkersWhole, OkIsTrusted, ReadersWhole, Active

(* A file has one thread at work on it at most.                            *)
LEMMA Sole ==
  ASSUME ControlInv, NEW i \in Job, NEW j \in Job, Active(i), Active(j),
         FileOf(i) = FileOf(j)
  PROVE  i = j
BY DEF ControlInv, OnePerCase, FileOf

LEMMA AliveIsActive ==
  ASSUME IInv, ControlInv, NEW j \in Job, Alive(j)
  PROVE  worker[j].pc = "poll" /\ Active(j) /\ FileOf(j) \in File
<1>1. worker[j].pc = "poll"
  BY DEF IInv, NoStrayChild, ControlInv, Undisturbed
<1> QED  BY <1>1, FileOfType DEF Active, IInv, TypeOK

(* Nothing happens but to a reader, or to the registry's old jobs.         *)
LEMMA QuietFiles ==
  ASSUME FilesInv, UNCHANGED <<worker, child, files>>, Keeps(jobs, jobs'), ReadersWhole'
  PROVE  FilesInv'
BY DEF FilesInv, files, WriterAlone, WrittenWhole, NeverMixed, MarksItsOwn, OwnMark,
       MarkersWhole, OkIsTrusted, Trusted, FileOf, Active, Keeps

(* A thread that goes on touches no marker but that of the report its      *)
(* subprocess wrote.                                                       *)
LEMMA ThreadFiles ==
  ASSUME IInv, ControlInv, FilesInv, NEW j \in Job, Active(j),
         worker'[j].caseId = worker[j].caseId, worker'[j].kind = worker[j].kind,
         \A i \in Job \ {j} : worker'[i] = worker[i] /\ child'[i] = child[i],
         child'[j].text = child[j].text,
         child'[j].pc \in {child[j].pc, "generate", "killed"},
         UNCHANGED <<report, reader>>,
         \A f \in File :
           \/ marker'[f] = marker[f]
           \/ f = FileOf(j) /\ marker'[f] \in Text \cup {"none"} /\ child[j].pc = "exit0",
         OwnMark(j)',
         DOMAIN jobs' \subseteq DOMAIN jobs,
         \A i \in DOMAIN jobs' : i # j => jobs'[i] = jobs[i],
         j \in DOMAIN jobs' /\ jobs'[j].status = "ok" => Trusted(FileOf(j))'
  PROVE  FilesInv'
<1>1. \A i \in Job : FileOf(i)' = FileOf(i)
  BY DEF FileOf
<1>2. WriterAlone'
  BY <1>1 DEF FilesInv, WriterAlone
<1>3. WrittenWhole'
  BY <1>1 DEF FilesInv, WrittenWhole, Active
<1>4. NeverMixed' /\ MarkersWhole' /\ ReadersWhole'
  BY DEF FilesInv, NeverMixed, MarkersWhole, ReadersWhole
<1>5. \A i \in Job : worker[i].pc # "none" => FileOf(i) \in File
  BY FileOfType DEF IInv, TypeOK
<1>6. MarksItsOwn'
  <2> SUFFICES ASSUME NEW i \in Job, i # j PROVE OwnMark(i)'
    BY DEF MarksItsOwn
  <2>1. OwnMark(i)
    BY DEF FilesInv, MarksItsOwn
  <2>2. worker[i].pc \in {"optimize", "complete"} => marker'[FileOf(i)] = marker[FileOf(i)]
    <3> SUFFICES ASSUME worker[i].pc \in {"optimize", "complete"}
                 PROVE  marker'[FileOf(i)] = marker[FileOf(i)]
      OBVIOUS
    <3>1. Active(i) /\ FileOf(i) \in File
      BY <1>5 DEF Active
    <3>2. FileOf(i) # FileOf(j)
      BY <3>1, Sole
    <3> QED  BY <3>1, <3>2
  <2> QED  BY <1>1, <2>1, <2>2 DEF OwnMark
<1>7. OkIsTrusted'
  <2> SUFFICES ASSUME NEW i \in DOMAIN jobs', i # j, jobs'[i].status = "ok",
                      report'[FileOf(i)'].by = i
               PROVE  Trusted(FileOf(i))'
    BY DEF OkIsTrusted
  <2>1. /\ i \in DOMAIN jobs /\ jobs[i].status = "ok" /\ i \in Job
        /\ FileOf(i) \in File /\ FileOf(i)' = FileOf(i)
    BY <1>1, <1>5 DEF IInv, TypeOK, RegistryTypeOK, IsRegistry, KnownJobs
  <2>2. Trusted(FileOf(i))
    BY <2>1 DEF FilesInv, OkIsTrusted
  <2>3. ~(FileOf(i) = FileOf(j) /\ child[j].pc = "exit0")
    BY <2>1 DEF FilesInv, WrittenWhole
  <2>4. marker'[FileOf(i)] = marker[FileOf(i)]
    BY <2>1, <2>3
  <2> QED  BY <2>1, <2>2, <2>4 DEF Trusted
<1> QED  BY <1>2, <1>3, <1>4, <1>6, <1>7 DEF FilesInv

LEMMA ThreadKeepsFiles ==
  ASSUME IInv, ControlInv, FilesInv, NEW j \in Job, WorkerStep(j)
  PROVE  FilesInv'
<1>0. /\ worker \in [Job -> WorkerState] /\ RegistryTypeOK /\ Undisturbed
      /\ child \in [Job -> [pc : ChildPc, text : Text \cup {"none"}]]
      /\ marker \in [File -> Content]
      /\ OwnMark(j) /\ "none" \notin Text
  BY ReportsAssumption DEF IInv, TypeOK, ControlInv, FilesInv, MarksItsOwn
<1>1. Active(j)
  BY DEF WorkerStep, StartSubprocess, PollCancelled, PollExited, TimeOut, StopChild,
     Judge, HashReport, TruncateMarker, WriteMarker, Optimize, Finish, Active
<1>2. /\ FileOf(j) \in File
      /\ j \in DOMAIN jobs /\ jobs[j].status = "running"
  BY <1>0, <1>1, FileOfType DEF Active, ControlInv, Tracked
<1>3. child[j].pc = "exit0" =>
        child[j].text \in Text /\ report[FileOf(j)].text = child[j].text
  BY <1>1 DEF FilesInv, WrittenWhole
(* A thread that goes to pc and writes no marker. *)
<1>a. ASSUME NEW pc \in {"poll", "returned", "hash", "optimize", "complete", "fail"},
             WorkerTo(j, pc), Keeps(jobs, jobs'),
             child'[j].text = child[j].text,
             child'[j].pc \in {child[j].pc, "generate", "killed"},
             \A i \in Job \ {j} : child'[i] = child[i],
             UNCHANGED <<files, reader>>,
             pc \in {"hash", "optimize", "complete"} => child'[j].pc = "exit0",
             pc \in {"optimize", "complete"} => marker[FileOf(j)] = child[j].text
      PROVE  FilesInv'
  <2>1. /\ worker'[j].pc = pc
        /\ worker'[j].caseId = worker[j].caseId
        /\ worker'[j].kind = worker[j].kind
        /\ \A i \in Job \ {j} : worker'[i] = worker[i]
    <3>1. pc \in WorkerPc \ {"none"}
      BY DEF WorkerPc
    <3> QED  BY <1>0, <1>1, <1>a, <3>1, WorkerToActive
  <2>2. OwnMark(j)'
    BY <1>a, <2>1 DEF OwnMark, FileOf, files
  <2>3. /\ DOMAIN jobs' \subseteq DOMAIN jobs
        /\ \A i \in DOMAIN jobs' : jobs'[i] = jobs[i]
        /\ ~(j \in DOMAIN jobs' /\ jobs'[j].status = "ok")
    BY <1>2, <1>a DEF Keeps
  <2> QED  BY <1>1, <1>a, <2>1, <2>2, <2>3, ThreadFiles DEF files
<1>b. ASSUME NEW js, Look(js)  PROVE Keeps(jobs, jobs')
  BY <1>0, <1>b, LookKeeps
<1>c. ASSUME UNCHANGED registry
      PROVE  /\ DOMAIN jobs' \subseteq DOMAIN jobs
             /\ \A i \in DOMAIN jobs' : jobs'[i] = jobs[i]
             /\ ~(j \in DOMAIN jobs' /\ jobs'[j].status = "ok")
  BY <1>2, <1>c DEF registry
<1>4. CASE StartSubprocess(j)
  <2>1. /\ child'[j].pc = "generate" /\ child'[j].text = child[j].text
        /\ \A i \in Job \ {j} : child'[i] = child[i]
    BY <1>0, <1>4 DEF StartSubprocess, ChildTo
  <2> QED  BY <1>4, <1>a, <1>b, <2>1 DEF StartSubprocess
<1>5. CASE PollExited(j)
  BY <1>5, <1>a, <1>b DEF PollExited
<1>6. CASE TimeOut(j)
  <2>1. /\ child'[j].pc \in {child[j].pc, "killed"} /\ child'[j].text = child[j].text
        /\ \A i \in Job \ {j} : child'[i] = child[i]
    BY <1>0, <1>6 DEF TimeOut
  <2> QED  BY <1>6, <1>a, <1>b, <2>1 DEF TimeOut
<1>7. CASE Judge(j)
  <2>1. PICK js : /\ Look(js) /\ ~CancelRequested(js, j)
                  /\ WorkerTo(j, IF Succeeded(j) THEN "hash" ELSE "fail")
    BY <1>0, <1>7, NotStopped DEF Judge
  <2>2. PICK pc \in {"hash", "fail"} : WorkerTo(j, pc) /\ (pc = "hash" => child[j].pc = "exit0")
    BY <2>1 DEF Succeeded
  <2> QED  BY <1>7, <1>a, <1>b, <2>1, <2>2 DEF Judge
<1>8. CASE HashReport(j)
  <2>1. child[j].pc = "exit0" /\ report[FileOf(j)].text = child[j].text /\ child[j].text # "none"
    BY <1>0, <1>3, <1>8 DEF HashReport, OwnMark
  <2>2. worker' = [worker EXCEPT ![j].pc = "mark", ![j].hash = report[FileOf(j)].text]
    BY <1>8, <2>1 DEF HashReport
  <2>3. worker[j] \in [pc : WorkerPc \ {"none"}, caseId : Case, kind : Kind, hash : Content]
    BY <1>0, <1>1 DEF WorkerState, Active
  <2>4. /\ worker'[j].pc = "mark" /\ worker'[j].hash = child[j].text
        /\ worker'[j].caseId = worker[j].caseId
        /\ worker'[j].kind = worker[j].kind
        /\ \A i \in Job \ {j} : worker'[i] = worker[i]
    BY <1>0, <2>1, <2>2, <2>3
  <2>5. OwnMark(j)'
    BY <1>8, <2>1, <2>4 DEF OwnMark, HashReport
  <2> QED  BY <1>1, <1>8, <1>c, <2>4, <2>5, ThreadFiles DEF HashReport, files
<1>9. CASE TruncateMarker(j)
  <2>1. "marking" \in WorkerPc \ {"none"} /\ WorkerTo(j, "marking")
    BY <1>9 DEF WorkerPc, TruncateMarker
  <2>2. /\ worker'[j].pc = "marking" /\ worker'[j].hash = worker[j].hash
        /\ worker'[j].caseId = worker[j].caseId
        /\ worker'[j].kind = worker[j].kind
        /\ \A i \in Job \ {j} : worker'[i] = worker[i]
    BY <1>0, <1>1, <2>1, WorkerToActive
  <2>3. child[j].pc = "exit0" /\ OwnMark(j)'
    BY <1>0, <1>9, <2>2 DEF OwnMark, TruncateMarker
  <2>4. \A f \in File : \/ marker'[f] = marker[f]
                        \/ f = FileOf(j) /\ marker'[f] = "none"
    BY <1>0, <1>9 DEF TruncateMarker
  <2> QED  BY <1>1, <1>9, <1>c, <2>2, <2>3, <2>4, ThreadFiles DEF TruncateMarker
<1>10. CASE WriteMarker(j)
  <2>1. PICK pc \in {"optimize", "complete"} : WorkerTo(j, pc)
    BY <1>10 DEF WriteMarker
  <2>2. pc \in WorkerPc \ {"none"}
    BY DEF WorkerPc
  <2>3. /\ worker'[j].pc = pc
        /\ worker'[j].caseId = worker[j].caseId
        /\ worker'[j].kind = worker[j].kind
        /\ \A i \in Job \ {j} : worker'[i] = worker[i]
    BY <1>0, <1>1, <2>1, <2>2, WorkerToActive
  <2>4. child[j].pc = "exit0" /\ worker[j].hash = child[j].text /\ child[j].text \in Text
    BY <1>0, <1>3, <1>10 DEF OwnMark, WriteMarker
  <2>5. /\ marker'[FileOf(j)] = child[j].text
        /\ \A f \in File : f # FileOf(j) => marker'[f] = marker[f]
    BY <1>0, <1>2, <1>10, <2>4 DEF WriteMarker
  <2>6. OwnMark(j)'
    BY <1>10, <2>3, <2>4, <2>5 DEF OwnMark, FileOf, WriteMarker
  <2> QED  BY <1>1, <1>10, <1>c, <2>3, <2>4, <2>5, <2>6, ThreadFiles DEF WriteMarker
<1>11. CASE Optimize(j)
  <2>1. PICK js : Look(js) /\ \E pc \in {"complete", "fail"} : WorkerTo(j, pc)
    BY <1>0, <1>11, NotStopped DEF Optimize
  <2>2. child[j].pc = "exit0" /\ marker[FileOf(j)] = child[j].text
    BY <1>0, <1>11 DEF OwnMark, Optimize
  <2> QED  BY <1>11, <1>a, <1>b, <2>1, <2>2 DEF Optimize
<1>12. CASE Finish(j)
  <2>1. PICK status \in TerminalStatus :
          Settle(j, status) /\ (status = "ok" => worker[j].pc = "complete")
    BY <1>12 DEF Finish, TerminalStatus
  <2>2. /\ worker'[j].pc = "done"
        /\ worker'[j].caseId = worker[j].caseId
        /\ worker'[j].kind = worker[j].kind
        /\ \A i \in Job \ {j} : worker'[i] = worker[i]
    <3>1. WorkerTo(j, "done") /\ "done" \in WorkerPc \ {"none"}
      BY <1>12 DEF Finish, WorkerPc
    <3> QED  BY <1>0, <1>1, <3>1, WorkerToActive
  <2>3. /\ DOMAIN jobs' \subseteq DOMAIN jobs
        /\ \A i \in DOMAIN jobs' : i # j => jobs'[i] = jobs[i]
        /\ \A i \in DOMAIN jobs' : jobs'[i].status \in {jobs[i].status, status}
    BY <1>0, <2>1, SettleKeeps
  <2>4. OwnMark(j)'
    BY <2>2 DEF OwnMark
  <2>5. j \in DOMAIN jobs' /\ jobs'[j].status = "ok" => Trusted(FileOf(j))'
    <3> SUFFICES ASSUME j \in DOMAIN jobs', jobs'[j].status = "ok"
                 PROVE  Trusted(FileOf(j))'
      OBVIOUS
    <3>1. worker[j].pc = "complete"
      BY <1>2, <2>1, <2>3
    <3>2. /\ marker[FileOf(j)] = report[FileOf(j)].text
          /\ marker[FileOf(j)] # "none"
      BY <1>0, <1>3, <3>1 DEF OwnMark
    <3> QED  BY <1>12, <2>2, <3>2 DEF Trusted, FileOf, Finish, files
  <2> QED  BY <1>1, <1>12, <2>2, <2>3, <2>4, <2>5, ThreadFiles DEF Finish, files
<1>13. CASE PollCancelled(j) \/ StopChild(j)
  BY <1>0, <1>13, NotStopped DEF PollCancelled, StopChild, Undisturbed
<1> QED
  BY <1>4, <1>5, <1>6, <1>7, <1>8, <1>9, <1>10, <1>11, <1>12, <1>13 DEF WorkerStep

(* A subprocess writes to a report that no other thread is at work on, and *)
(* its own thread has not yet marked.                                      *)
LEMMA ChildKeepsFiles ==
  ASSUME IInv, ControlInv, FilesInv, NEW j \in Job, ChildStep(j)
  PROVE  FilesInv'
<1>0. /\ worker \in [Job -> WorkerState]
      /\ child \in [Job -> [pc : ChildPc, text : Text \cup {"none"}]]
      /\ report \in [File -> [text : Content, by : Job \cup {NoJob}, mixed : BOOLEAN]]
      /\ reader \in [Reader -> ReaderState]
      /\ Tracked
      /\ WriterAlone /\ WrittenWhole /\ NeverMixed /\ MarksItsOwn /\ MarkersWhole
      /\ OkIsTrusted /\ ReadersWhole
  BY DEF IInv, TypeOK, FilesInv, ControlInv
<1>1. UNCHANGED <<registry, handler, worker, marker, faults>> /\ Alive(j)
  BY DEF ChildStep, ChildRejects, ChildFails, ChildTruncates, ChildFinishes, Alive, files
<1>2. worker[j].pc = "poll" /\ Active(j) /\ FileOf(j) \in File
  BY <1>1, AliveIsActive
<1>3. /\ \A i \in Job : FileOf(i)' = FileOf(i) /\ (Active(i)' <=> Active(i))
      /\ \A i \in Job : i # j /\ Active(i) => FileOf(i) # FileOf(j)
      /\ \A i \in Job : child[i].pc = "write" => Active(i)
      /\ jobs' = jobs
  BY <1>1, <1>2, Sole, AliveIsActive DEF FileOf, Active, Alive, registry
<1>4. \A i \in Job \ {j} : child'[i] = child[i]
  BY <1>0 DEF ChildStep, ChildRejects, ChildFails, ChildTruncates, ChildFinishes, ChildTo
<1>5. MarksItsOwn' /\ MarkersWhole'
  <2>1. MarkersWhole'
    BY <1>0, <1>1 DEF MarkersWhole
  <2>2. OwnMark(j)'
    BY <1>1, <1>2 DEF OwnMark
  <2>3. ASSUME NEW i \in Job, i # j  PROVE OwnMark(i)'
    BY <1>0, <1>1, <1>3, <1>4, <2>3 DEF MarksItsOwn, OwnMark
  <2> QED  BY <2>1, <2>2, <2>3 DEF MarksItsOwn
<1>6. \A i \in DOMAIN jobs : jobs[i].status = "ok" => i # j /\ i \in Job /\ FileOf(i) \in File
  BY <1>0, <1>2, FileOfType DEF Tracked, IInv, KnownJobs, TypeOK, RegistryTypeOK, IsRegistry
<1>7. CASE ChildRejects(j) \/ ChildFails(j)
  <2>1. child'[j].pc \in {"exit1", "exit4"} /\ UNCHANGED <<report, reader>>
    BY <1>0, <1>7 DEF ChildRejects, ChildFails, ChildTo, files
  <2>2. WriterAlone' /\ WrittenWhole'
    BY <1>0, <1>3, <1>4, <2>1 DEF WriterAlone, WrittenWhole
  <2>3. NeverMixed' /\ OkIsTrusted' /\ ReadersWhole'
    BY <1>0, <1>1, <1>3, <1>6, <2>1 DEF NeverMixed, OkIsTrusted, ReadersWhole, Trusted
  <2> QED  BY <1>5, <2>2, <2>3 DEF FilesInv
<1>8. ASSUME NEW text \in Text, ChildTruncates(j, text)
      PROVE  FilesInv'
  <2>1. child[j].pc = "generate" /\ child'[j] = [pc |-> "write", text |-> text]
    BY <1>0, <1>8 DEF ChildTruncates
  <2>2. Writing(FileOf(j)) = {}
    BY <1>3, <2>1 DEF Writing
  <2>3. report' = [report EXCEPT ![FileOf(j)] = [text |-> "torn", by |-> j, mixed |-> FALSE]]
    BY <1>8, <2>2 DEF ChildTruncates
  <2>4. /\ report'[FileOf(j)] = [text |-> "torn", by |-> j, mixed |-> FALSE]
        /\ \A f \in File : f # FileOf(j) => report'[f] = report[f]
    BY <1>0, <1>2, <2>3
  <2>5. \A i \in Job : i # j /\ Active(i) => report'[FileOf(i)] = report[FileOf(i)]
    BY <1>0, <1>3, <2>4, FileOfType DEF Active
  <2>6. WriterAlone' /\ WrittenWhole'
    BY <1>0, <1>3, <1>4, <2>1, <2>4, <2>5 DEF WriterAlone, WrittenWhole
  <2>7. NeverMixed'
    BY <1>0, <2>4 DEF NeverMixed
  <2>8. OkIsTrusted'
    BY <1>0, <1>1, <1>3, <1>6, <2>4 DEF OkIsTrusted, Trusted
  <2>9. ReadersWhole'
    <3> SUFFICES ASSUME NEW r \in Reader
                 PROVE  /\ reader'[r].pc = "compare" => reader'[r].text \in Text
                        /\ reader'[r].pc = "read" /\ ~reader'[r].overtaken
                             => report'[reader'[r].file].text \in Text
                        /\ reader'[r].pc = "shown" /\ ~reader'[r].overtaken
                             => reader'[r].text \in Text
      BY DEF ReadersWhole
    <3>1. reader'[r] = IF reader[r].pc \in {"compare", "read"} /\ reader[r].file = FileOf(j)
                         THEN [reader[r] EXCEPT !.overtaken = TRUE]
                         ELSE reader[r]
      BY <1>8 DEF ChildTruncates
    <3>2. reader[r].pc \in {"compare", "read"} =>
            reader[r] \in [pc : {"compare", "read", "shown"}, file : File,
                           text : Content, overtaken : BOOLEAN]
      BY <1>0 DEF ReaderState
    <3> QED  BY <1>0, <2>4, <3>1, <3>2 DEF ReadersWhole
  <2> QED  BY <1>5, <2>6, <2>7, <2>8, <2>9 DEF FilesInv
<1>9. CASE ChildFinishes(j)
  <2>1. /\ child[j].pc = "write" /\ child'[j].pc = "exit0" /\ child'[j].text = child[j].text
        /\ UNCHANGED reader
    BY <1>0, <1>9 DEF ChildFinishes, ChildTo
  <2>2. child[j].text \in Text /\ report[FileOf(j)].by = j /\ ~report[FileOf(j)].mixed
    BY <1>0, <1>2, <2>1 DEF WriterAlone, NeverMixed
  <2>3. report' = [report EXCEPT ![FileOf(j)] =
                     [text |-> child[j].text, by |-> j, mixed |-> FALSE]]
    BY <1>9, <2>2 DEF ChildFinishes
  <2>4. /\ report'[FileOf(j)] = [text |-> child[j].text, by |-> j, mixed |-> FALSE]
        /\ \A f \in File : f # FileOf(j) => report'[f] = report[f]
    BY <1>0, <1>2, <2>3
  <2>5. \A i \in Job : i # j /\ Active(i) => report'[FileOf(i)] = report[FileOf(i)]
    BY <1>0, <1>3, <2>4, FileOfType DEF Active
  <2>6. WriterAlone' /\ WrittenWhole'
    BY <1>0, <1>3, <1>4, <2>1, <2>2, <2>4, <2>5 DEF WriterAlone, WrittenWhole
  <2>7. NeverMixed'
    BY <1>0, <2>4 DEF NeverMixed
  <2>8. OkIsTrusted'
    BY <1>0, <1>1, <1>3, <1>6, <2>4 DEF OkIsTrusted, Trusted
  <2>9. ReadersWhole'
    BY <1>0, <2>1, <2>2, <2>4 DEF ReadersWhole, ReaderState
  <2> QED  BY <1>5, <2>6, <2>7, <2>8, <2>9 DEF FilesInv
<1> QED  BY <1>7, <1>8, <1>9 DEF ChildStep

LEMMA FilesStep ==
  ASSUME Serial, IInv, ControlInv, FilesInv, [Next]_vars
  PROVE  FilesInv'
<1>0. /\ worker \in [Job -> WorkerState] /\ RegistryTypeOK /\ TypeOK /\ KnownJobs
      /\ Undisturbed /\ MarkersWhole /\ ReadersWhole
      /\ reader \in [Reader -> ReaderState]
  BY DEF IInv, TypeOK, ControlInv, FilesInv
<1>a. ASSUME reader' = reader, report' = report  PROVE ReadersWhole'
  BY <1>0, <1>a DEF ReadersWhole
<1>b. ASSUME jobs' = jobs  PROVE Keeps(jobs, jobs')
  BY <1>b DEF Keeps
<1>1. ASSUME NEW r \in Request, NEW c \in Case, NEW kind \in Kind, AskForReport(r, c, kind)
      PROVE  FilesInv'
  BY <1>0, <1>1, <1>a, LookKeeps, QuietFiles DEF AskForReport, files
<1>2. ASSUME NEW r \in Request, NEW j \in Job, StartReportJob(r, j)
      PROVE  FilesInv'
  <2> DEFINE new == [pc |-> "start", caseId |-> handler[r].caseId,
                     kind |-> handler[r].kind, hash |-> "none"]
  <2>1. handler[r].caseId \in Case /\ handler[r].kind \in Kind
    BY <1>0, <1>2 DEF StartReportJob, TypeOK, HandlerState
  <2>2. j \notin DOMAIN jobs /\ child[j].pc = "none"
    BY <1>0, <1>2 DEF StartReportJob, KnownJobs, ControlInv, NoChildYet
  <2>3. /\ DOMAIN jobs' \subseteq DOMAIN jobs \cup {j}
        /\ \A i \in DOMAIN jobs : i \in DOMAIN jobs' => jobs'[i] = jobs[i]
        /\ jobs'[j].status = "running"
    BY <1>0, <1>2, <2>1, <2>2, CreateKeeps DEF StartReportJob
  <2>4. worker' = [worker EXCEPT ![j] = new] /\ UNCHANGED <<child, report, marker, reader>>
    BY <1>2 DEF StartReportJob, files
  <2>5. /\ worker'[j].pc = "start"
        /\ \A i \in Job \ {j} : worker'[i] = worker[i] /\ FileOf(i)' = FileOf(i)
    BY <1>0, <2>4 DEF FileOf
  <2>6. WriterAlone' /\ WrittenWhole'
    BY <2>2, <2>4, <2>5 DEF FilesInv, WriterAlone, WrittenWhole, Active
  <2>7. MarksItsOwn'
    BY <2>4, <2>5 DEF FilesInv, MarksItsOwn, OwnMark
  <2>8. NeverMixed' /\ MarkersWhole' /\ ReadersWhole'
    BY <2>4, <1>0, <1>a DEF FilesInv, NeverMixed, MarkersWhole
  <2>9. OkIsTrusted'
    BY <1>0, <2>3, <2>4, <2>5
       DEF FilesInv, OkIsTrusted, Trusted, RegistryTypeOK, IsRegistry
  <2> QED  BY <2>6, <2>7, <2>8, <2>9 DEF FilesInv
<1>3. ASSUME NEW j \in Job, Cancel(j)
      PROVE  FALSE
  BY <1>0, <1>3 DEF Cancel, Serial, Undisturbed
<1>4. CASE Restart
  BY <1>0, <1>4 DEF Restart, Serial, Undisturbed
<1>5. CASE LookAtJobs
  BY <1>0, <1>5, <1>a, LookKeeps, QuietFiles DEF LookAtJobs, files
<1>6. CASE Tick
  BY <1>6, <1>a, <1>b, QuietFiles DEF Tick, files
<1>7. ASSUME NEW r \in Reader, NEW f \in File, ReadMarker(r, f)
      PROVE  FilesInv'
  <2>1. /\ reader' = [reader EXCEPT ![r] = [pc |-> "compare", file |-> f,
                                            text |-> marker[f], overtaken |-> FALSE]]
        /\ marker[f] \in Text
        /\ UNCHANGED <<jobs, worker, child, files, report>>
    BY <1>0, <1>7 DEF ReadMarker, MarkersWhole, registry, files
  <2>2. ReadersWhole'
    BY <1>0, <2>1 DEF ReadersWhole
  <2> QED  BY <2>1, <2>2, <1>b, QuietFiles
<1>8. ASSUME NEW r \in Reader, CompareHash(r)
      PROVE  FilesInv'
  <2>1. /\ reader[r].pc = "compare" /\ reader[r].text \in Text
        /\ reader' = [reader EXCEPT ![r] = IF Matches(r) THEN [reader[r] EXCEPT !.pc = "read"]
                                                         ELSE [pc |-> "idle"]]
        /\ UNCHANGED <<jobs, worker, child, files, report>>
    BY <1>0, <1>8 DEF CompareHash, ReadersWhole, registry, files
  <2>2. reader[r] \in [pc : {"compare", "read", "shown"}, file : File,
                       text : Content, overtaken : BOOLEAN]
    BY <1>0, <2>1 DEF ReaderState
  <2>3. /\ reader'[r].pc \in {"read", "idle"}
        /\ reader'[r].pc = "read" => report'[reader'[r].file].text \in Text
        /\ \A s \in Reader : s # r => reader'[s] = reader[s]
    BY <1>0, <2>1, <2>2 DEF Matches
  <2>4. ReadersWhole'
    BY <1>0, <2>1, <2>3 DEF ReadersWhole
  <2> QED  BY <2>1, <2>4, <1>b, QuietFiles
<1>9. ASSUME NEW r \in Reader, ShowReport(r)
      PROVE  FilesInv'
  <2>1. /\ reader[r].pc = "read"
        /\ reader' = [reader EXCEPT ![r].pc = "shown",
                                    ![r].text = report[reader[r].file].text]
        /\ UNCHANGED <<jobs, worker, child, files, report>>
    BY <1>9 DEF ShowReport, registry, files
  <2>2. reader[r] \in [pc : {"compare", "read", "shown"}, file : File,
                       text : Content, overtaken : BOOLEAN]
    BY <1>0, <2>1 DEF ReaderState
  <2>3. /\ reader'[r].pc = "shown" /\ reader'[r].overtaken = reader[r].overtaken
        /\ reader'[r].text = report[reader[r].file].text
        /\ \A s \in Reader : s # r => reader'[s] = reader[s]
    BY <1>0, <2>1, <2>2
  <2>4. ReadersWhole'
    BY <1>0, <2>1, <2>3 DEF ReadersWhole
  <2> QED  BY <2>1, <2>4, <1>b, QuietFiles
<1>10. ASSUME NEW r \in Reader, CloseReport(r)
      PROVE  FilesInv'
  <2>1. /\ reader' = [reader EXCEPT ![r] = [pc |-> "idle"]]
        /\ UNCHANGED <<jobs, worker, child, files, report>>
    BY <1>10 DEF CloseReport, registry, files
  <2>2. ReadersWhole'
    BY <1>0, <2>1 DEF ReadersWhole
  <2> QED  BY <2>1, <2>2, <1>b, QuietFiles
<1>11. CASE UNCHANGED vars
  BY <1>11, <1>a, <1>b, QuietFiles DEF vars, registry, files
<1> QED
  BY <1>1, <1>2, <1>3, <1>4, <1>5, <1>6, <1>7, <1>8, <1>9, <1>10, <1>11,
     ThreadKeepsFiles, ChildKeepsFiles DEF Next

LEMMA FilesInvariant ==
  ASSUME Serial
  PROVE  Spec => []FilesInv
BY FilesInit, FilesStep, ControlInvariant, Inductive, PTL DEF Spec

(* Reports made one after another: a report its marker trusts is one the   *)
(* validator accepted, and whole, whatever became of the subprocess that   *)
(* wrote it or of another one (run_batch_case_report_job in job_workers.py, *)
(* validated_report_exists in trusted_markers.py).                         *)
THEOREM SerialReportsWhole ==
  ASSUME Serial
  PROVE  Spec => []TrustedIsWhole
<1>1. FilesInv => TrustedIsWhole
  BY DEF FilesInv, MarkersWhole, TrustedIsWhole, Trusted
<1> QED  BY <1>1, FilesInvariant, PTL

(* Reports made one after another: a report job that the registry calls ok *)
(* offers a report that opens, until a later job writes                     *)
(* (run_batch_case_report_job, job_workers.py).                            *)
THEOREM SerialOkOpens ==
  ASSUME Serial
  PROVE  Spec => []OkIsTrusted
<1>1. FilesInv => OkIsTrusted
  BY DEF FilesInv
<1> QED  BY <1>1, FilesInvariant, PTL

(* Reports made one after another: a reader whom no writer overtakes       *)
(* between its reads of the marker and the report is shown a whole,        *)
(* accepted report (load_validated_batch_case_report).                     *)
THEOREM SerialReadersSeeWhole ==
  ASSUME Serial
  PROVE  Spec => []QuietReaderSeesWhole
<1>1. FilesInv => QuietReaderSeesWhole
  BY DEF FilesInv, ReadersWhole, QuietReaderSeesWhole
<1> QED  BY <1>1, FilesInvariant, PTL

=============================================================================
