--------------------------- MODULE WebJobs_proofs ---------------------------
(***************************************************************************)
(* Lemmas about the methods of the job registry, for any number of jobs    *)
(* and any retention of those that have ended.                             *)
(***************************************************************************)
EXTENDS WebJobs, FiniteSetTheorems, TLAPS

-----------------------------------------------------------------------------
(* Pruning forgets jobs that have ended and changes no other.              *)
LEMMA PrunedKeeps ==
  ASSUME NEW js, IsRegistry(js), NEW ks \in Pruned(js)
  PROVE  /\ IsRegistry(ks)
         /\ DOMAIN ks \subseteq DOMAIN js
         /\ \A j \in DOMAIN ks : ks[j] = js[j]
         /\ \A j \in DOMAIN js : js[j].status = "running" => j \in DOMAIN ks
<1> DEFINE recent == Without(js, TooOld(js))
<1>1. PICK R \in SUBSET Ended(recent) : ks = Without(recent, R)
  BY DEF Pruned, Oldest
<1>2. /\ recent = [j \in DOMAIN js \ TooOld(js) |-> js[j]]
      /\ \A j \in TooOld(js) : js[j].status # "running"
  BY DEF Without, TooOld, Ended, TerminalStatus
<1>3. \A j \in R : j \in DOMAIN recent /\ recent[j].status # "running"
  BY DEF Ended, TerminalStatus
<1>4. ks = [j \in DOMAIN recent \ R |-> recent[j]]
  BY <1>1 DEF Without
<1> HIDE DEF recent
<1>5. /\ DOMAIN ks = (DOMAIN js \ TooOld(js)) \ R
      /\ \A j \in DOMAIN ks : ks[j] = js[j]
      /\ ks = [j \in DOMAIN ks |-> ks[j]]
  BY <1>2, <1>4
<1>6. IsRegistry(ks)
  BY <1>5 DEF IsRegistry
<1>7. \A j \in DOMAIN js : js[j].status = "running" => j \in DOMAIN ks
  BY <1>2, <1>3, <1>5
<1> QED  BY <1>5, <1>6, <1>7

LEMMA EndedFinite ==
  ASSUME NEW js, IsRegistry(js)
  PROVE  IsFiniteSet(Ended(js)) /\ Cardinality(Ended(js)) \in Nat
<1>1. Ended(js) \in SUBSET Job
  BY DEF Ended, IsRegistry
<1> QED  BY <1>1, WebJobsAssumption, FS_Subset, FS_CardinalityType

(* Pruning leaves no more ended jobs than are kept: the excess that it     *)
(* counts is what it removes.                                              *)
LEMMA PrunedBounded ==
  ASSUME NEW js, IsRegistry(js), NEW ks \in Pruned(js), MaxTerminal > 0
  PROVE  Cardinality(Ended(ks)) <= MaxTerminal
<1> DEFINE recent == Without(js, TooOld(js))
<1>1. PICK R \in Oldest(recent) : ks = Without(recent, R)
  BY DEF Pruned
<1>2. IsRegistry(recent)
  BY DEF Without, IsRegistry
<1>3. /\ R \in SUBSET Ended(recent)
      /\ Cardinality(R) = Excess(recent)
  BY DEF Oldest
<1>4. IsFiniteSet(Ended(recent)) /\ Cardinality(Ended(recent)) \in Nat
  BY <1>2, EndedFinite
<1> HIDE DEF recent
<1>5. Ended(ks) = Ended(recent) \ R
  BY <1>1 DEF Ended, Without
<1>6. /\ Cardinality(Ended(recent) \ R)
           = Cardinality(Ended(recent)) - Cardinality(Ended(recent) \cap R)
      /\ Ended(recent) \cap R = R
  BY <1>3, <1>4, FS_Difference
<1>7. Cardinality(Ended(ks)) = Cardinality(Ended(recent)) - Excess(recent)
  BY <1>3, <1>5, <1>6
<1> QED  BY <1>4, <1>7, WebJobsAssumption DEF Excess

-----------------------------------------------------------------------------
(* What each method of the registry does to the jobs it knows.             *)

(* Jobs that are not touched: still there unless they had ended, and the   *)
(* same.                                                                   *)
Keeps(js, ks) ==
  /\ DOMAIN ks \subseteq DOMAIN js
  /\ \A j \in DOMAIN ks : ks[j] = js[j]
  /\ \A j \in DOMAIN js : js[j].status = "running" => j \in DOMAIN ks

(* Jobs that go on: their kind and form stay, none runs again, and a stop   *)
(* is not taken back.                                                      *)
Continues(js, ks) ==
  \A i \in DOMAIN ks \cap DOMAIN js :
    /\ ks[i].kind = js[i].kind /\ ks[i].caseId = js[i].caseId
    /\ ks[i].status = "running" => js[i].status = "running"
    /\ js[i].cancelRequested => ks[i].cancelRequested

(* Lemma: whoever looks at the registry keeps its jobs. *)
LEMMA LookKeeps ==
  ASSUME RegistryTypeOK, NEW js, Look(js)
  PROVE  RegistryTypeOK' /\ Keeps(jobs, jobs')
<1>1. js \in Pruned(jobs) /\ jobs' = js /\ now' = now  BY DEF Look
<1> QED  BY <1>1, PrunedKeeps DEF RegistryTypeOK, Keeps, IsRegistry

(* A new job runs, and nothing happens to those that run already. *)
LEMMA CreateKeeps ==
  ASSUME RegistryTypeOK, NEW j \in Job, j \notin DOMAIN jobs,
         NEW c \in Case, NEW kind \in Kind, CreateBatchReport(j, c, kind)
  PROVE  /\ RegistryTypeOK'
         /\ DOMAIN jobs' \subseteq DOMAIN jobs \cup {j}
         /\ \A i \in DOMAIN jobs : i \in DOMAIN jobs' => jobs'[i] = jobs[i]
         /\ \A i \in DOMAIN jobs : jobs[i].status = "running" => i \in DOMAIN jobs'
         /\ j \in DOMAIN jobs'
         /\ jobs'[j].kind = kind /\ jobs'[j].caseId = c /\ jobs'[j].status = "running"
         /\ ~jobs'[j].cancelRequested
<1> DEFINE new == [kind |-> kind, caseId |-> c, status |-> "running",
                   cancelRequested |-> FALSE, updatedAt |-> now]
<1>1. PICK js \in Pruned(jobs) :
        jobs' = [i \in DOMAIN js \cup {j} |-> IF i = j THEN new ELSE js[i]]
  BY DEF CreateBatchReport
<1>2. Keeps(jobs, js) /\ IsRegistry(js)
  BY PrunedKeeps DEF RegistryTypeOK, Keeps
<1>3. /\ new \in JobRecord
      /\ new.kind = kind /\ new.caseId = c /\ new.status = "running" /\ ~new.cancelRequested
  BY DEF RegistryTypeOK, JobRecord
<1> HIDE DEF new
<1>4. /\ DOMAIN jobs' = DOMAIN js \cup {j}
      /\ \A i \in DOMAIN js : i # j => jobs'[i] = js[i]
      /\ jobs'[j] = new
  BY <1>1
<1>5. IsRegistry(jobs')
  BY <1>1, <1>2, <1>3 DEF IsRegistry
<1>6. now' = now  BY DEF CreateBatchReport
<1> QED  BY <1>2, <1>3, <1>4, <1>5, <1>6 DEF Keeps, RegistryTypeOK, IsRegistry

(* A stop ends at most the job that is stopped. *)
LEMMA CancelKeeps ==
  ASSUME RegistryTypeOK, NEW j \in Job, RequestCancel(j)
  PROVE  /\ RegistryTypeOK'
         /\ DOMAIN jobs' \subseteq DOMAIN jobs
         /\ \A i \in DOMAIN jobs :
              IF jobs[i].status = "running"
                THEN i \in DOMAIN jobs'
                ELSE i \in DOMAIN jobs' => jobs'[i].status = jobs[i].status
         /\ Continues(jobs, jobs')
         /\ \A i \in DOMAIN jobs' :
              IF i = j THEN jobs'[i].cancelRequested ELSE jobs'[i] = jobs[i]
         /\ \A i \in DOMAIN jobs' : jobs'[i].status \in {jobs[i].status, "cancelled"}
<1> DEFINE Stopped(js) == [js EXCEPT ![j].cancelRequested = TRUE,
                                     ![j].updatedAt = now,
                                     ![j].status = IF @ = "running" THEN "cancelled" ELSE @]
<1>1. PICK js \in Pruned(jobs) : jobs' = IF j \in DOMAIN js THEN Stopped(js) ELSE js
  BY DEF RequestCancel
<1>2. Keeps(jobs, js) /\ IsRegistry(js) /\ now' = now /\ now \in Nat
  BY PrunedKeeps DEF RegistryTypeOK, Keeps, RequestCancel
<1>3. CASE j \notin DOMAIN js
  BY <1>1, <1>2, <1>3 DEF Keeps, Continues, RegistryTypeOK, IsRegistry
<1>4. CASE j \in DOMAIN js
  <2> DEFINE new == [js[j] EXCEPT !.cancelRequested = TRUE, !.updatedAt = now,
                       !.status = IF @ = "running" THEN "cancelled" ELSE @]
  <2>1. js[j] \in JobRecord
    BY <1>2, <1>4 DEF IsRegistry
  <2>2. /\ new \in JobRecord /\ (js[j].status # "running" => new.status = js[j].status)
        /\ new.kind = js[j].kind /\ new.caseId = js[j].caseId /\ new.cancelRequested
        /\ new.status \in {js[j].status, "cancelled"} /\ new.status # "running"
    BY <1>2, <2>1 DEF JobRecord, TerminalStatus
  <2>3. jobs' = [js EXCEPT ![j] = new]
    BY <1>1, <1>2, <1>4, <2>1 DEF IsRegistry, JobRecord
  <2> HIDE DEF new
  <2>4. /\ DOMAIN jobs' = DOMAIN js
        /\ jobs'[j] = new
        /\ \A i \in DOMAIN js : i # j => jobs'[i] = js[i]
    BY <1>2, <1>4, <2>3 DEF IsRegistry
  <2>5. IsRegistry(jobs')
    BY <1>2, <2>2, <2>3 DEF IsRegistry
  <2> QED  BY <1>2, <2>2, <2>4, <2>5 DEF Keeps, Continues, RegistryTypeOK, IsRegistry
<1> QED  BY <1>3, <1>4

(* A settlement changes no job but the one it settles, and that only while *)
(* it runs.                                                                *)
LEMMA SettleKeeps ==
  ASSUME RegistryTypeOK, NEW j \in Job, NEW status \in TerminalStatus,
         Settle(j, status)
  PROVE  /\ RegistryTypeOK'
         /\ DOMAIN jobs' \subseteq DOMAIN jobs
         /\ \A i \in DOMAIN jobs :
              IF jobs[i].status = "running"
                THEN i \in DOMAIN jobs' \/ i = j
                ELSE i \in DOMAIN jobs' => jobs'[i].status = jobs[i].status
         /\ Continues(jobs, jobs')
         /\ \A i \in DOMAIN jobs' : i # j => jobs'[i] = jobs[i]
         /\ \A i \in DOMAIN jobs' : /\ jobs'[i].cancelRequested = jobs[i].cancelRequested
                                    /\ jobs'[i].status \in {jobs[i].status, status}
<1> DEFINE Settled(js) == [js EXCEPT ![j].status = status, ![j].updatedAt = now]
<1>1. PICK js \in Pruned(jobs) :
        IF j \in DOMAIN js /\ js[j].status = "running"
          THEN jobs' \in Pruned(Settled(js))
          ELSE jobs' = js
  BY DEF Settle
<1>2. Keeps(jobs, js) /\ IsRegistry(js) /\ now' = now /\ now \in Nat
  BY PrunedKeeps DEF RegistryTypeOK, Keeps, Settle
<1>3. CASE ~(j \in DOMAIN js /\ js[j].status = "running")
  BY <1>1, <1>2, <1>3 DEF Keeps, Continues, RegistryTypeOK, IsRegistry
<1>4. CASE j \in DOMAIN js /\ js[j].status = "running"
  <2> DEFINE new == [js[j] EXCEPT !.status = status, !.updatedAt = now]
  <2>1. js[j] \in JobRecord
    BY <1>2, <1>4 DEF IsRegistry
  <2>2. /\ new \in JobRecord /\ new.kind = js[j].kind /\ new.caseId = js[j].caseId
        /\ new.cancelRequested = js[j].cancelRequested /\ new.status = status
    BY <1>2, <2>1 DEF JobRecord
  <2>9. status # "running"
    BY DEF TerminalStatus
  <2>3. Settled(js) = [js EXCEPT ![j] = new]
    BY <1>2, <1>4, <2>1 DEF IsRegistry, JobRecord
  <2> HIDE DEF new
  <2>4. /\ DOMAIN Settled(js) = DOMAIN js
        /\ \A i \in DOMAIN js : i # j => Settled(js)[i] = js[i]
        /\ Settled(js)[j] = new
        /\ IsRegistry(Settled(js))
    BY <1>2, <1>4, <2>2, <2>3 DEF IsRegistry
  <2> HIDE DEF Settled
  <2>5. jobs' \in Pruned(Settled(js))
    BY <1>1, <1>4
  <2>6. Keeps(Settled(js), jobs') /\ IsRegistry(jobs')
    BY <2>4, <2>5, PrunedKeeps DEF Keeps
  <2>7. /\ \A i \in DOMAIN jobs' : i \in DOMAIN js /\ i \in DOMAIN jobs /\ js[i] = jobs[i]
        /\ \A i \in DOMAIN jobs' : jobs'[i] = IF i = j THEN new ELSE jobs[i]
    BY <1>2, <2>4, <2>6 DEF Keeps
  <2>8. Continues(jobs, jobs')
    BY <1>4, <2>2, <2>9, <2>7 DEF Continues
  <2>10. \A i \in DOMAIN jobs' : /\ jobs'[i].cancelRequested = jobs[i].cancelRequested
                                 /\ jobs'[i].status \in {jobs[i].status, status}
    BY <2>2, <2>7
  <2>11. /\ RegistryTypeOK' /\ DOMAIN jobs' \subseteq DOMAIN jobs
         /\ \A i \in DOMAIN jobs :
              IF jobs[i].status = "running"
                THEN i \in DOMAIN jobs' \/ i = j
                ELSE i \in DOMAIN jobs' => jobs'[i].status = jobs[i].status
         /\ \A i \in DOMAIN jobs' : i # j => jobs'[i] = jobs[i]
    BY <1>2, <1>4, <2>4, <2>6, <2>7 DEF Keeps, RegistryTypeOK, IsRegistry
  <2> QED  BY <2>8, <2>10, <2>11
<1> QED  BY <1>3, <1>4

-----------------------------------------------------------------------------
(* How many ended jobs each method leaves.  A stop is not among them: it    *)
(* ends a job after the pruning.                                           *)
LEMMA LookBounded ==
  ASSUME RegistryTypeOK, MaxTerminal > 0, NEW js, Look(js)
  PROVE  Cardinality(Ended(jobs')) <= MaxTerminal
BY PrunedBounded DEF Look, RegistryTypeOK

LEMMA CreateBounded ==
  ASSUME RegistryTypeOK, MaxTerminal > 0, NEW j, j \notin DOMAIN jobs,
         NEW c, NEW kind, CreateBatchReport(j, c, kind)
  PROVE  Cardinality(Ended(jobs')) <= MaxTerminal
<1> DEFINE new == [kind |-> kind, caseId |-> c, status |-> "running",
                   cancelRequested |-> FALSE, updatedAt |-> now]
<1>1. PICK js \in Pruned(jobs) :
        jobs' = [i \in DOMAIN js \cup {j} |-> IF i = j THEN new ELSE js[i]]
  BY DEF CreateBatchReport
<1>2. j \notin DOMAIN js
  BY PrunedKeeps DEF RegistryTypeOK
<1>3. new.status \notin TerminalStatus
  BY DEF TerminalStatus
<1> HIDE DEF new
<1>4. Ended(jobs') = Ended(js)
  BY <1>1, <1>2, <1>3 DEF Ended
<1> QED  BY <1>4, PrunedBounded DEF RegistryTypeOK

LEMMA SettleBounded ==
  ASSUME RegistryTypeOK, MaxTerminal > 0, NEW j \in Job,
         NEW status \in TerminalStatus, Settle(j, status)
  PROVE  Cardinality(Ended(jobs')) <= MaxTerminal
<1>1. PICK js \in Pruned(jobs) :
        IF j \in DOMAIN js /\ js[j].status = "running"
          THEN jobs' \in Pruned([js EXCEPT ![j].status = status, ![j].updatedAt = now])
          ELSE jobs' = js
  BY DEF Settle
<1>2. IsRegistry(js) /\ now \in Nat
  BY PrunedKeeps DEF RegistryTypeOK
<1>3. CASE ~(j \in DOMAIN js /\ js[j].status = "running")
  BY <1>1, <1>3, PrunedBounded DEF RegistryTypeOK
<1>4. CASE j \in DOMAIN js /\ js[j].status = "running"
  <2> DEFINE settled == [js EXCEPT ![j].status = status, ![j].updatedAt = now]
  <2>1. js[j] \in JobRecord
    BY <1>2, <1>4 DEF IsRegistry
  <2>2. [js[j] EXCEPT !.status = status, !.updatedAt = now] \in JobRecord
    BY <1>2, <2>1 DEF JobRecord
  <2>3. settled = [js EXCEPT ![j] = [js[j] EXCEPT !.status = status, !.updatedAt = now]]
    BY <1>2, <1>4, <2>1 DEF IsRegistry, JobRecord
  <2>4. IsRegistry(settled)
    BY <1>2, <2>2, <2>3 DEF IsRegistry
  <2>5. jobs' \in Pruned(settled)
    BY <1>1, <1>4
  <2> HIDE DEF settled
  <2> QED  BY <2>4, <2>5, PrunedBounded
<1> QED  BY <1>3, <1>4

(* A stop ends one job more than the pruning before it left.               *)
LEMMA CancelBounded ==
  ASSUME RegistryTypeOK, MaxTerminal > 0, NEW j \in Job, RequestCancel(j)
  PROVE  Cardinality(Ended(jobs')) <= MaxTerminal + 1
<1>1. PICK js \in Pruned(jobs) :
        jobs' = IF j \in DOMAIN js
                  THEN [js EXCEPT ![j].cancelRequested = TRUE, ![j].updatedAt = now,
                                  ![j].status = IF @ = "running" THEN "cancelled" ELSE @]
                  ELSE js
  BY DEF RequestCancel
<1>2. IsRegistry(js) /\ Cardinality(Ended(js)) <= MaxTerminal
  BY PrunedKeeps, PrunedBounded DEF RegistryTypeOK
<1>3. /\ DOMAIN jobs' = DOMAIN js
      /\ \A i \in DOMAIN js : i # j => jobs'[i] = js[i]
  BY <1>1, <1>2 DEF IsRegistry
<1>4. Ended(jobs') \in SUBSET (Ended(js) \cup {j})
  BY <1>3 DEF Ended
<1>5. /\ IsFiniteSet(Ended(js) \cup {j})
      /\ Cardinality(Ended(js) \cup {j}) <= Cardinality(Ended(js)) + 1
  <2>1. IsFiniteSet(Ended(js)) /\ Cardinality(Ended(js)) \in Nat
    BY <1>2, EndedFinite
  <2> QED  BY <2>1, FS_AddElement
<1>6. /\ Cardinality(Ended(jobs')) <= Cardinality(Ended(js) \cup {j})
      /\ Cardinality(Ended(jobs')) \in Nat
      /\ Cardinality(Ended(js) \cup {j}) \in Nat
      /\ Cardinality(Ended(js)) \in Nat
  BY <1>2, <1>4, <1>5, EndedFinite, FS_Subset, FS_CardinalityType
<1> QED  BY <1>2, <1>5, <1>6, WebJobsAssumption

=============================================================================
