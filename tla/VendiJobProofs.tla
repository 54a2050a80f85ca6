--------------------------- MODULE VendiJobProofs ---------------------------
(***************************************************************************)
(* Proofs about the jobs of Vendi: somebody has a job until it is settled;  *)
(* what its first run may rely on and a later one may disturb; together the *)
(* runs keep to JobLifecycle; and what a dashboard shows of jobs fits the   *)
(* datasets it lists.                                                       *)
(***************************************************************************)
EXTENDS VendiProofs, Dashboard, CountingProofs

(* Who has a job.                                                           *)

(* A step that is about no task: nobody takes or gives one, and no job is   *)
(* inserted or updated.                                                     *)
HandOver == {"enqueue", "sync"}

HandOversStay ==
    \A h \in Handlers :
        req'[h].pc \in HandOver \/ req[h].pc \in HandOver => req'[h] = req[h]

JobsStay == \A j \in DOMAIN jobs' : j \in DOMAIN jobs /\ jobs'[j] = jobs[j]

FaultsStay ==
    /\ casualties \subseteq casualties'
    /\ faults'["lease"] = faults["lease"] /\ faults'["io"] = faults["io"]
    /\ UNCHANGED succeededOnce

Aside ==
    /\ UNCHANGED <<runs, queue, leases, tries, held, lastJob>>
    /\ HandOversStay /\ JobsStay /\ FaultsStay

(* Serving a request at another place is aside.                             *)
LEMMA ServeAside ==
    ASSUME TypeInv, NEW h \in Handlers, NEW x, Serve(h, x), x.pc \notin HandOver,
           req[h].pc \notin HandOver
    PROVE  HandOversStay
  BY Served DEF HandOversStay

(* So are an answer and going on.                                           *)
LEMMA RespondAside ==
    ASSUME TypeInv, NEW h \in Handlers, req[h].pc \notin HandOver, NEW pc,
           Respond(h) \/ (Proceed(h, pc) /\ pc \notin HandOver)
    PROVE  HandOversStay
<1>1. IdleRequest.pc \notin HandOver
  BY DEF IdleRequest, HandOver
<1>2. [req[h] EXCEPT !.pc = pc].pc = pc
  BY RequestFacts DEF Request
<1> DEFINE x == [req[h] EXCEPT !.pc = pc]
<1>3. Respond(h) \/ (Serve(h, x) /\ x.pc \notin HandOver)
  BY <1>2 DEF Proceed
<1> HIDE DEF x
<1> QED
  BY <1>1, <1>3, ServeAside DEF Respond

(* Spending a fault of another kind.                                        *)
LEMMA SpendFacts ==
    ASSUME TypeInv, NEW k \in {"request", "worker"}, Spend(k)
    PROVE  faults'["lease"] = faults["lease"] /\ faults'["io"] = faults["io"]
  BY DEF Spend, TypeInv, FaultTypeOK, FaultKinds

(* All steps of the datasets endpoints are.                                 *)
LEMMA DatasetAside ==
    ASSUME TypeInv, NEW h \in Handlers, UNCHANGED <<runs, arqVars>>,
           DatasetRequest(h) \/ DatasetStep(h) \/ DatasetRequestDies(h)
    PROVE  Aside
<1>1. CASE DatasetRequest(h)
  <2>1. JobsStay /\ FaultsStay /\ UNCHANGED lastJob
    BY <1>1 DEF DatasetRequest, UploadDataset, DeleteDataset, GetRows, storeVars, faultVars,
                JobsStay, FaultsStay
  <2>2. HandOversStay
    <3>1. ASSUME NEW org, NEW data, NEW n,
                 Serve(h, [IdleRequest EXCEPT !.pc = "put_raw", !.org = org, !.ds = n,
                                              !.data = data]), Idle(h)
          PROVE  HandOversStay
      <4> DEFINE x == [IdleRequest EXCEPT !.pc = "put_raw", !.org = org, !.ds = n, !.data = data]
      <4>1. x.pc \notin HandOver
        BY DEF IdleRequest, HandOver
      <4>2. Serve(h, x) /\ req[h].pc \notin HandOver
        BY <3>1 DEF Idle, HandOver
      <4> HIDE DEF x
      <4> QED
        BY <4>1, <4>2, ServeAside
    <3>2. ASSUME NEW org, NEW d, NEW paths, NEW pc \in {"remove", "delete_row", "read_rows"},
                 Serve(h, [IdleRequest EXCEPT !.pc = pc, !.org = org, !.ds = d,
                                              !.paths = paths]), Idle(h)
          PROVE  HandOversStay
      <4> DEFINE x == [IdleRequest EXCEPT !.pc = pc, !.org = org, !.ds = d, !.paths = paths]
      <4>1. x.pc \notin HandOver
        BY DEF IdleRequest, HandOver
      <4>2. Serve(h, x) /\ req[h].pc \notin HandOver
        BY <3>2 DEF Idle, HandOver
      <4> HIDE DEF x
      <4> QED
        BY <4>1, <4>2, ServeAside
    <3> QED
      BY <1>1, <3>1, <3>2 DEF DatasetRequest, UploadDataset, DeleteDataset, GetRows
  <2> QED
    BY <2>1, <2>2 DEF Aside, arqVars
<1>2. CASE DatasetStep(h)
  <2>1. JobsStay /\ FaultsStay /\ UNCHANGED lastJob
    BY <1>2 DEF DatasetStep, PutRaw, MarkInvalid, PutParquet, MarkReady, Settle, RemoveObjects,
                DeleteRow, delete_dataset, Without, ReadRows, storeVars, faultVars,
                JobsStay, FaultsStay
  <2>2. HandOversStay
    <3>1. CASE PutRaw(h) \/ PutParquet(h) \/ RemoveObjects(h)
      BY <3>1, RespondAside DEF PutRaw, PutParquet, RemoveObjects, AfterRaw, At, HandOver
    <3>2. CASE MarkInvalid(h) \/ MarkReady(h) \/ DeleteRow(h) \/ ReadRows(h)
      BY <3>2, RespondAside DEF MarkInvalid, MarkReady, Settle, DeleteRow, ReadRows, At, HandOver
    <3> QED
      BY <1>2, <3>1, <3>2 DEF DatasetStep
  <2> QED
    BY <2>1, <2>2 DEF Aside, arqVars
<1>3. CASE DatasetRequestDies(h)
  <2>1. HandOversStay
    BY <1>3, RespondAside DEF DatasetRequestDies, UploadPC, DeletePC, RowsPC, HandOver
  <2>2. FaultsStay /\ JobsStay /\ UNCHANGED lastJob
    BY <1>3, SpendFacts DEF DatasetRequestDies, storeVars, FaultsStay, JobsStay
  <2> QED
    BY <2>1, <2>2 DEF Aside, arqVars
<1> QED
  BY <1>1, <1>2, <1>3

(* And those run requests that look for a job and find none or one.         *)
LEMMA LookupAside ==
    ASSUME TypeInv, NEW h \in Handlers,
           RunRequest(h) \/ FindExisting(h) \/ CreateRejected(h)
    PROVE  Aside
<1>1. /\ UNCHANGED <<runs, queue, leases, tries, held, lastJob>>
      /\ JobsStay /\ FaultsStay
  BY DEF RunRequest, RunModule, FindExisting, CreateRejected, storeVars, faultVars, arqVars,
         JobsStay, FaultsStay
<1>2. CASE FindExisting(h) \/ CreateRejected(h)
  <2>1. HandOversStay
    BY <1>2, RespondAside DEF FindExisting, CreateRejected, At, HandOver
  <2> QED
    BY <1>1, <2>1 DEF Aside
<1>3. CASE RunRequest(h)
  <2>1. PICK org \in Orgs, d \in DatasetId, m \in Modules, p \in Params, force \in BOOLEAN :
           RunModule(h, org, d, m, p, force)
    BY <1>3 DEF RunRequest
  <2> DEFINE x == [IdleRequest EXCEPT !.pc = IF force THEN "create" ELSE "find",
                                      !.org = org, !.ds = d, !.module = m,
                                      !.params = p, !.force = force]
  <2>2. x.pc \notin HandOver
    BY DEF IdleRequest, HandOver
  <2>3. Serve(h, x) /\ req[h].pc \notin HandOver
    BY <2>1 DEF RunModule, Idle, HandOver
  <2> HIDE DEF x
  <2>4. HandOversStay
    BY <2>2, <2>3, ServeAside
  <2> QED
    BY <1>1, <2>4 DEF Aside
<1> QED
  BY <1>2, <1>3

----------------------------------------------------------------------------
(* The end of a request that has the run of its job in its own process.     *)
SyncEnd(h) ==
    /\ SyncReturn(h) \/ SyncRaise(h) \/ RunRequestDies(h)

(* A step of the service is aside, or one of these.                         *)
LEMMA CustodySteps ==
    ASSUME TypeInv, [Next]_vars
    PROVE  \/ Aside
           \/ \E h \in Handlers : CreateJob(h) \/ Enqueue(h) \/ SyncEnd(h)
           \/ \E r \in Runners : ProcessJob(r) \/ CallRaises(r)
           \/ \E w \in Workers : (Finish(w) \/ WorkerCrash(w)) /\ UNCHANGED req
           \/ \E w \in Workers, j \in JobId : ArqStep(w, j) /\ UNCHANGED req
           \/ \E j \in JobId : (LeaseExpires(j) \/ LeaseOverrun(j)) /\ UNCHANGED req
<1>1. UNCHANGED vars => Aside
  BY DEF vars, storeVars, faultVars, arqVars, Aside, HandOversStay, JobsStay, FaultsStay
<1>2. ASSUME NEW h \in Handlers, NewRequest(h) \/ HandlerStep(h) \/ RequestDies(h)
      PROVE  Aside \/ CreateJob(h) \/ Enqueue(h) \/ SyncEnd(h)
  BY <1>2, DatasetAside, LookupAside
     DEF NewRequest, HandlerStep, RequestDies, RunStep, SyncEnd
<1> HIDE DEF Aside, SyncEnd
<1> QED
  BY <1>1, <1>2 DEF Next

(* What process_job does to its run and its job.                            *)
Ended(r) == runs[r].pc \in {"done", "raised"}

RunnerEffect(r) ==
    LET j == runs[r].job IN
    /\ UNCHANGED <<req, queue, leases, tries, held, lastJob>>
    /\ casualties \subseteq casualties' /\ faults'["lease"] = faults["lease"]
    /\ \A q \in Runners \ {r} : runs'[q] = runs[q]
    /\ runs[r].pc \notin {"idle", "done", "raised"}
    /\ runs'[r].pc # "idle" /\ runs'[r].job = j
    /\ DOMAIN jobs' = DOMAIN jobs
    /\ \A k \in DOMAIN jobs : k # j => jobs'[k] = jobs[k]
    /\ Ended(r)' /\ j \in DOMAIN jobs =>
          jobs'[j].status \in Terminal \/ <<"job", j>> \in casualties'

(* Going on and catching keep the job.                                      *)
LEMMA GotoKeepsJob ==
    ASSUME TypeInv, NEW q \in Runners, NEW pc, NEW e, Goto(q, pc) \/ Catch(q, e)
    PROVE  /\ \A r \in Runners \ {q} : runs'[r] = runs[r]
           /\ runs'[q].job = runs[q].job
           /\ runs'[q].pc \in {pc, "mark_failed"}
           /\ Catch(q, e) \/ runs'[q].pc = pc
<1>1. runs[q] \in Run
  BY DEF TypeInv, RunnerInv, RunnerTypeOK
<1>2. CASE Goto(q, pc)
  BY <1>1, <1>2, Resumed DEF Goto, Run
<1>3. CASE Catch(q, e)
  <2> DEFINE x == [runs[q] EXCEPT !.pc = "mark_failed", !.error = e]
  <2>1. x.pc = "mark_failed" /\ x.job = runs[q].job
    BY <1>1 DEF Run
  <2>2. Resume(q, x)
    BY <1>3 DEF Catch
  <2> HIDE DEF x
  <2> QED
    BY <1>3, <2>1, <2>2, Resumed
<1> QED
  BY <1>2, <1>3

(* The row a run updates is there as long as its job is.                    *)
LEMMA RowThereFacts ==
    ASSUME TypeInv, TenancyInv, NEW r \in Runners, runs[r].pc \in WithRow
    PROVE  RowThere(r) <=> runs[r].job \in DOMAIN jobs
  BY RunHomeFacts DEF RowThere, HasJob

(* What an update does to a row.                                            *)
Written(j, status, error, result) ==
    /\ DOMAIN jobs' = DOMAIN jobs
    /\ \A k \in DOMAIN jobs : k # j => jobs'[k] = jobs[k]
    /\ jobs'[j].status = status /\ jobs'[j].error = error
    /\ jobs'[j].result_summary = result

(* An update writes the columns it names and no other.                      *)
LEMMA WriteFacts ==
    ASSUME TypeInv, NEW r \in Runners, RowThere(r)
    PROVE  LET j == runs[r].job IN
           /\ j \in DOMAIN jobs
           /\ WriteRunning(r) => Written(j, "running", jobs[j].error, jobs[j].result_summary)
           /\ WriteSucceeded(r) => Written(j, "succeeded", jobs[j].error, runs[r].result)
           /\ WriteFailed(r) => Written(j, "failed", runs[r].error, jobs[j].result_summary)
<1> DEFINE j == runs[r].job
<1>1. j \in DOMAIN jobs /\ jobs[j] \in JobRow
  BY JobFacts DEF RowThere, HasJob
<1>2. WriteRunning(r) => Written(j, "running", jobs[j].error, jobs[j].result_summary)
  BY <1>1 DEF WriteRunning, update_job, JobRow, Written
<1>3. WriteSucceeded(r) => Written(j, "succeeded", jobs[j].error, runs[r].result)
  BY <1>1 DEF WriteSucceeded, update_job, JobRow, Written
<1>4. WriteFailed(r) => Written(j, "failed", runs[r].error, jobs[j].result_summary)
  BY <1>1 DEF WriteFailed, update_job, JobRow, Written
<1> QED
  BY <1>1, <1>2, <1>3, <1>4

(* Resuming with more local variables keeps the job.                        *)
LEMMA ResumeKeepsJob ==
    ASSUME TypeInv, NEW q \in Runners, NEW x, Resume(q, x), x.job = runs[q].job
    PROVE  /\ \A r \in Runners \ {q} : runs'[r] = runs[r]
           /\ runs'[q].job = runs[q].job /\ runs'[q] = x
  BY Resumed

(* That is what a call of process_job that gets through does,               *)
LEMMA RunnerStepEffect ==
    ASSUME TypeInv, TenancyInv, NEW r \in Runners, ProcessJob(r)
    PROVE  RunnerEffect(r)
<1> DEFINE j == runs[r].job
           Same == /\ DOMAIN jobs' = DOMAIN jobs
                   /\ \A k \in DOMAIN jobs : k # j => jobs'[k] = jobs[k]
           Moves == /\ \A q \in Runners \ {r} : runs'[q] = runs[q]
                    /\ runs[r].pc \notin {"idle", "done", "raised"}
                    /\ runs'[r].pc # "idle" /\ runs'[r].job = j
           Settled == Ended(r)' /\ j \in DOMAIN jobs => jobs'[j].status \in Terminal
<1>1. runs[r] \in Run
  BY DEF TypeInv, RunnerInv, RunnerTypeOK
<1>2. UNCHANGED <<req, queue, leases, tries, held, lastJob, faults, casualties>>
  BY DEF ProcessJob, RunnerStep, Fetch, MarkRunning, Load, Compute, UploadArtifact,
         MarkSucceeded, MarkFailed, storeVars, faultVars, arqVars
<1>3. ASSUME Same, Moves, Settled PROVE RunnerEffect(r)
  BY <1>2, <1>3 DEF RunnerEffect
<1>4. CASE Fetch(r)
  <2> DEFINE x == [runs[r] EXCEPT !.pc = "mark_running", !.row = Fetched(j)]
  <2>1. x.pc = "mark_running" /\ x.job = j
    BY <1>1 DEF Run
  <2>2. /\ UNCHANGED jobs /\ runs[r].pc = "fetch"
        /\ IF j \in DOMAIN jobs THEN Resume(r, x) ELSE Goto(r, "done")
    BY <1>4 DEF Fetch, storeVars
  <2> HIDE DEF x
  <2>3. Moves
    BY <2>1, <2>2, ResumeKeepsJob, GotoKeepsJob
  <2>4. Settled
    BY <2>1, <2>2, ResumeKeepsJob DEF Ended
  <2> QED
    BY <1>3, <2>2, <2>3, <2>4
<1>5. CASE MarkRunning(r)
  <2>1. runs[r].pc = "mark_running" /\ (RowThere(r) <=> j \in DOMAIN jobs)
    BY <1>5, RowThereFacts DEF MarkRunning, WithRow
  <2>2. CASE RowThere(r)
    BY <1>3, <1>5, <2>1, <2>2, WriteFacts, GotoKeepsJob DEF MarkRunning, Written, Ended
  <2>3. CASE ~RowThere(r)
    BY <1>3, <1>5, <2>1, <2>3, GotoKeepsJob DEF MarkRunning
  <2> QED
    BY <2>2, <2>3
<1>6. CASE Load(r)
  <2> DEFINE d == runs[r].row.dataset_id
             x == [runs[r] EXCEPT !.pc = "download", !.path = datasets[d].parquet_path]
  <2>1. x.pc = "download" /\ x.job = j
    BY <1>1 DEF Run
  <2>2. /\ UNCHANGED jobs /\ runs[r].pc = "load"
        /\ Resume(r, x) \/ Catch(r, "actionable")
    BY <1>6 DEF Load, storeVars
  <2> HIDE DEF x
  <2> QED
    BY <1>3, <2>1, <2>2, ResumeKeepsJob, GotoKeepsJob DEF Ended
<1>7. CASE Compute(r)
  <2> DEFINE row == runs[r].row
             result == [data |-> objects[runs[r].path], module |-> row.module,
                        params |-> row.params]
             next == IF Outcome[result] = "artifact" THEN "upload" ELSE "mark_succeeded"
             x == [runs[r] EXCEPT !.pc = next, !.result = result]
  <2>1. x.pc \in {"upload", "mark_succeeded"} /\ x.job = j
    BY <1>1 DEF Run
  <2>2. /\ UNCHANGED jobs /\ runs[r].pc = "download"
        /\ Resume(r, x) \/ Catch(r, "actionable") \/ Catch(r, "generic")
    BY <1>7 DEF Compute, NoObject, Rejected, storeVars
  <2> HIDE DEF x
  <2> QED
    BY <1>3, <2>1, <2>2, ResumeKeepsJob, GotoKeepsJob DEF Ended
<1>8. CASE UploadArtifact(r)
  <2> DEFINE x == [runs[r] EXCEPT !.pc = "mark_succeeded", !.artifact = ArtifactOf(r)]
  <2>1. x.pc = "mark_succeeded" /\ x.job = j
    BY <1>1 DEF Run
  <2>2. UNCHANGED jobs /\ runs[r].pc = "upload" /\ Resume(r, x)
    BY <1>8 DEF UploadArtifact, ArtifactOf
  <2> HIDE DEF x
  <2> QED
    BY <1>3, <2>1, <2>2, ResumeKeepsJob DEF Ended
<1>9. CASE MarkSucceeded(r)
  <2>1. runs[r].pc = "mark_succeeded"
    BY <1>9 DEF MarkSucceeded
  <2>2. CASE RowThere(r)
    BY <1>3, <1>9, <2>1, <2>2, WriteFacts, GotoKeepsJob DEF MarkSucceeded, Written, Terminal
  <2>3. CASE ~RowThere(r)
    BY <1>3, <1>9, <2>1, <2>3, GotoKeepsJob DEF MarkSucceeded, Ended
  <2> QED
    BY <2>2, <2>3
<1>10. CASE MarkFailed(r)
  <2>1. runs[r].pc = "mark_failed" /\ (RowThere(r) <=> j \in DOMAIN jobs)
    BY <1>10, RowThereFacts DEF MarkFailed, WithRow
  <2>2. CASE RowThere(r)
    BY <1>3, <1>10, <2>1, <2>2, WriteFacts, GotoKeepsJob DEF MarkFailed, Written, Terminal
  <2>3. CASE ~RowThere(r)
    BY <1>3, <1>10, <2>1, <2>3, GotoKeepsJob DEF MarkFailed
  <2> QED
    BY <2>2, <2>3
<1> QED
  BY <1>4, <1>5, <1>6, <1>7, <1>8, <1>9, <1>10 DEF ProcessJob, RunnerStep

(* and one that raises.                                                     *)
LEMMA CallRaisesEffect ==
    ASSUME TypeInv, NEW r \in Runners, CallRaises(r)
    PROVE  RunnerEffect(r)
<1> DEFINE j == runs[r].job
<1>1. /\ UNCHANGED <<req, queue, leases, tries, held, lastJob>>
      /\ Spend("io") /\ RaiseOrCatch(r)
  BY DEF CallRaises, CallFails, AnswerLost, storeVars, arqVars
<1>2. /\ casualties \subseteq casualties' /\ faults'["lease"] = faults["lease"]
  BY <1>1 DEF RaiseOrCatch, Spend, TypeInv, FaultTypeOK, FaultKinds
<1>3. /\ \A q \in Runners \ {r} : runs'[q] = runs[q]
      /\ runs[r].pc \notin {"idle", "done", "raised"}
      /\ runs'[r].pc # "idle" /\ runs'[r].job = j
      /\ Ended(r)' => <<"job", j>> \in casualties'
  BY <1>1, GotoKeepsJob DEF RaiseOrCatch, InTry, OutsideTry, Ended
<1>4. UNCHANGED jobs \/ (RowThere(r) /\ (WriteRunning(r) \/ WriteSucceeded(r) \/ WriteFailed(r)))
  BY DEF CallRaises, CallFails, AnswerLost, storeVars
<1>5. /\ DOMAIN jobs' = DOMAIN jobs
      /\ \A k \in DOMAIN jobs : k # j => jobs'[k] = jobs[k]
  BY <1>4, WriteFacts DEF Written
<1> QED
  BY <1>1, <1>2, <1>3, <1>5 DEF RunnerEffect

----------------------------------------------------------------------------
(* Every step keeps CustodyInv.                                             *)

(* No id is 0, and no worker is a handler.                                  *)
LEMMA IdFacts ==
    /\ 0 \notin JobId /\ JobId \subseteq Nat
    /\ Workers \subseteq Runners /\ Handlers \subseteq Runners
    /\ \A r \in Runners : r \in Workers <=> r \notin Handlers
  BY StoreAssumption, RunAssumption DEF JobId

(* A step that is aside.                                                    *)
LEMMA AsideKeepsCustody ==
    ASSUME TypeInv, CustodyInv, Aside
    PROVE  CustodyInv'
<1>1. \A h \in Handlers : /\ At(h, "sync")' <=> At(h, "sync")
                          /\ At(h, "enqueue")' <=> At(h, "enqueue")
                          /\ At(h, "sync") \/ At(h, "enqueue") => req'[h].job = req[h].job
                          /\ \A j : Created(h, j)' <=> Created(h, j)
  BY DEF Aside, HandOversStay, HandOver, At, Created
<1>2. \A w \in Workers, j \in JobId : Holds(w, j)' <=> Holds(w, j)
  BY DEF Aside, Holds
<1>3. \A j \in DOMAIN jobs' : j \in DOMAIN jobs /\ jobs'[j] = jobs[j]
  BY DEF Aside, JobsStay
<1>4. /\ UNCHANGED <<runs, queue, leases, tries, held, lastJob>>
      /\ casualties \subseteq casualties' /\ faults'["lease"] = faults["lease"]
  BY DEF Aside, FaultsStay
<1>5. CreatorsAgree'
  BY <1>1, <1>2, <1>4 DEF CustodyInv, CreatorsAgree
<1>6. TasksHaveIds'
  BY <1>2, <1>4 DEF CustodyInv, TasksHaveIds
<1>7. faults'["lease"] = 0 => HoldersAgree'
  BY <1>2, <1>4 DEF CustodyInv, HoldersAgree
<1>8. faults'["lease"] = 0 => EndsAreKnown'
  BY <1>3, <1>4 DEF CustodyInv, EndsAreKnown
<1>9. \A j : SomebodyHas(j) => SomebodyHas(j)'
  BY <1>1, <1>4 DEF SomebodyHas, Processing
<1>10. NoJobIsForgotten'
  BY <1>3, <1>4, <1>9 DEF CustodyInv, NoJobIsForgotten
<1> QED
  BY <1>5, <1>6, <1>7, <1>8, <1>10 DEF CustodyInv

(* The request that inserts a job has it.                                   *)
LEMMA CreateJobKeepsCustody ==
    ASSUME TypeInv, TypeInv', CustodyInv, NEW h \in Handlers, CreateJob(h)
    PROVE  CustodyInv'
<1>0. PICK j \in JobId : j = lastJob + 1
  BY DEF CreateJob, create_job, TypeInv, StoreInv, StoreTypeOK, JobId
<1> DEFINE x == [req[h] EXCEPT !.pc = IF SyncJobs THEN "sync" ELSE "enqueue", !.job = j]
<1>1. /\ x.pc = (IF SyncJobs THEN "sync" ELSE "enqueue") /\ x.job = j
      /\ Serve(h, x) /\ At(h, "create")
  BY <1>0, RequestFacts DEF CreateJob, Request
<1> HIDE DEF x
<1>2. /\ req'[h].pc = (IF SyncJobs THEN "sync" ELSE "enqueue") /\ req'[h].job = j
      /\ \A g \in Handlers \ {h} : req'[g] = req[g]
  BY <1>1, Served
<1>3. /\ lastJob' = j /\ j = lastJob + 1 /\ lastJob \in Nat /\ j \in JobId
      /\ DOMAIN jobs' = DOMAIN jobs \cup {j} /\ j \notin DOMAIN jobs
      /\ \A k \in DOMAIN jobs : jobs'[k] = jobs[k]
  BY <1>0 DEF CreateJob, create_job, Put, TypeInv, StoreInv, StoreTypeOK, JobId
<1>4. UNCHANGED <<faults, casualties, queue, leases, tries, held>>
  BY DEF CreateJob, faultVars, arqVars
<1>5. /\ \A r \in Runners \ {h} : runs'[r] = runs[r]
      /\ IF SyncJobs THEN runs'[h].pc = "fetch" /\ runs'[h].job = j
                     ELSE runs'[h] = runs[h]
  <2>1. Called(j).pc = "fetch" /\ Called(j).job = j
    BY DEF Called, IdleRun
  <2>2. IF SyncJobs THEN Resume(h, Called(j)) ELSE UNCHANGED runs
    BY <1>0 DEF CreateJob
  <2> QED
    BY <2>1, <2>2, Resumed, IdFacts
<1>6. \A w \in Workers, k \in JobId : Holds(w, k)' <=> Holds(w, k)
  BY <1>4, <1>5, IdFacts DEF Holds
<1>7. \A g \in Handlers, k \in JobId :
         Created(g, k)' <=> Created(g, k) \/ (g = h /\ k = j)
  BY <1>1, <1>2 DEF Created, At
<1>8. /\ j \notin queue \cup leases /\ tries[j] = 0
      /\ \A w \in Workers : ~Holds(w, j)
      /\ \A g \in Handlers : ~Created(g, j)
  BY <1>3 DEF CustodyInv, TasksHaveIds, CreatorsAgree
<1>9. CreatorsAgree'
  <2>1. \A r \in Runners : runs'[r].pc = "idle" => runs'[r].job = 0
    BY <1>5 DEF CustodyInv, CreatorsAgree
  <2>2. \A g \in Handlers :
           runs'[g].job = IF req'[g].pc = "sync" THEN req'[g].job ELSE 0
    BY <1>1, <1>2, <1>5, IdFacts DEF CustodyInv, CreatorsAgree, At
  <2>3. ASSUME NEW g \in Handlers, NEW k \in JobId, Created(g, k)'
        PROVE  /\ k \in 1..j /\ k \notin queue \cup leases /\ tries[k] = 0
               /\ \A w \in Workers : ~Holds(w, k)
               /\ \A i \in Handlers : Created(i, k)' => i = g
    BY <1>3, <1>7, <1>8, <2>3 DEF CustodyInv, CreatorsAgree
  <2> QED
    BY <1>3, <1>4, <1>6, <2>1, <2>2, <2>3 DEF CreatorsAgree, At
<1>10. TasksHaveIds'
  <2>1. queue \cup leases \subseteq 1..j
    BY <1>3 DEF CustodyInv, TasksHaveIds
  <2>2. \A k \in JobId : k > j => tries[k] = 0
    BY <1>3, IdFacts DEF CustodyInv, TasksHaveIds
  <2>3. \A w \in Workers, k \in JobId : Holds(w, k) => k <= j
    BY <1>3, IdFacts DEF CustodyInv, TasksHaveIds
  <2> QED
    BY <1>3, <1>4, <1>6, <2>1, <2>2, <2>3 DEF TasksHaveIds
<1>11. faults'["lease"] = 0 => HoldersAgree'
  BY <1>4, <1>5, <1>6, IdFacts DEF CustodyInv, HoldersAgree
<1>12. faults'["lease"] = 0 => EndsAreKnown'
  <2> SUFFICES ASSUME faults["lease"] = 0, NEW r \in Runners,
                      runs'[r].pc \in {"done", "raised"}, runs'[r].job \in DOMAIN jobs'
               PROVE  \/ jobs'[runs'[r].job].status \in Terminal
                      \/ <<"job", runs'[r].job>> \in casualties
    BY <1>4 DEF EndsAreKnown
  <2>1. runs'[r] = runs[r]
    BY <1>5
  <2>2. runs[r].job # j
    <3>1. CASE r \in Workers
      BY <1>3, <1>8, <3>1 DEF Holds
    <3>2. CASE r \in Handlers
      <4>1. runs[r].job = IF At(r, "sync") THEN req[r].job ELSE 0
        BY <3>2 DEF CustodyInv, CreatorsAgree
      <4> QED
        BY <1>3, <1>8, <3>2, <4>1, IdFacts DEF Created, At
    <3> QED
      BY <3>1, <3>2, IdFacts
  <2> QED
    BY <1>3, <2>1, <2>2 DEF CustodyInv, EndsAreKnown
<1>13. NoJobIsForgotten'
  <2>1. SomebodyHas(j)'
    BY <1>2, <1>5, IdFacts DEF SomebodyHas, Processing, At
  <2>2. \A k \in DOMAIN jobs : SomebodyHas(k) => SomebodyHas(k)'
    <3> SUFFICES ASSUME NEW k \in DOMAIN jobs, SomebodyHas(k) PROVE SomebodyHas(k)'
      OBVIOUS
    <3>1. ASSUME NEW g \in Handlers, At(g, "enqueue"), req[g].job = k PROVE SomebodyHas(k)'
      BY <1>1, <1>2, <3>1 DEF SomebodyHas, At
    <3>2. ASSUME NEW r \in Runners, Processing(r, k) PROVE SomebodyHas(k)'
      <4>1. r # h
        <5>1. runs[h].job = 0
          BY <1>1 DEF CustodyInv, CreatorsAgree, At
        <5> QED
          BY <3>2, <5>1, JobFacts, IdFacts DEF Processing
      <4> QED
        BY <1>5, <3>2, <4>1 DEF SomebodyHas, Processing
    <3> QED
      BY <1>4, <3>1, <3>2 DEF SomebodyHas
  <2> QED
    BY <1>3, <1>4, <2>1, <2>2 DEF CustodyInv, NoJobIsForgotten, JobRow
<1> QED
  BY <1>9, <1>10, <1>11, <1>12, <1>13 DEF CustodyInv

(* The queue takes it over.                                                 *)
LEMMA EnqueueKeepsCustody ==
    ASSUME TypeInv, CustodyInv, NEW h \in Handlers, Enqueue(h)
    PROVE  CustodyInv'
<1>0. PICK j \in JobId : j = req[h].job
  BY RequestFacts DEF Enqueue, At, RequestTyped
<1>1. /\ At(h, "enqueue") /\ queue' = queue \cup {j}
      /\ UNCHANGED <<jobs, lastJob, faults, casualties, runs, leases, tries, held>>
  BY <1>0 DEF Enqueue, enqueue_module_job, runnerVars, storeVars, faultVars
<1>2. /\ req'[h].pc = "idle"
      /\ \A g \in Handlers \ {h} : req'[g] = req[g]
  BY Served DEF Enqueue, Respond, IdleRequest
<1>3. Created(h, j) /\ \A g \in Handlers, k \in JobId : Created(g, k)' => Created(g, k) /\ k # j
  BY <1>0, <1>1, <1>2 DEF Created, At, CustodyInv, CreatorsAgree
<1>4. \A w \in Workers, k \in JobId : Holds(w, k)' <=> Holds(w, k)
  BY <1>1 DEF Holds
<1>5. CreatorsAgree'
  <2>1. \A g \in Handlers :
           runs[g].job = IF req'[g].pc = "sync" THEN req'[g].job ELSE 0
    BY <1>1, <1>2 DEF CustodyInv, CreatorsAgree, At
  <2>2. \A r \in Runners : runs[r].pc = "idle" => runs[r].job = 0
    BY DEF CustodyInv, CreatorsAgree
  <2>3. ASSUME NEW g \in Handlers, NEW k \in JobId, Created(g, k)'
        PROVE  /\ k \in 1..lastJob /\ k \notin queue' \cup leases /\ tries[k] = 0
               /\ \A w \in Workers : ~Holds(w, k)
               /\ \A i \in Handlers : Created(i, k)' => i = g
    BY <1>1, <1>3, <2>3 DEF CustodyInv, CreatorsAgree
  <2> QED
    BY <1>1, <1>4, <2>1, <2>2, <2>3 DEF CreatorsAgree, At
<1>6. TasksHaveIds'
  BY <1>1, <1>3, <1>4 DEF CustodyInv, TasksHaveIds, CreatorsAgree
<1>7. faults'["lease"] = 0 => HoldersAgree'
  BY <1>1, <1>4 DEF CustodyInv, HoldersAgree
<1>8. faults'["lease"] = 0 => EndsAreKnown'
  BY <1>1 DEF CustodyInv, EndsAreKnown
<1>9. \A k : SomebodyHas(k) => SomebodyHas(k)'
  BY <1>0, <1>1, <1>2 DEF SomebodyHas, Processing, At
<1>10. NoJobIsForgotten'
  BY <1>1, <1>9 DEF CustodyInv, NoJobIsForgotten
<1> QED
  BY <1>5, <1>6, <1>7, <1>8, <1>10 DEF CustodyInv

(* A run that is over, in the API process or in a worker, frees the runner. *)
LEMMA FreedFacts ==
    ASSUME TypeInv, NEW r \in Runners, Resume(r, IdleRun)
    PROVE  /\ runs'[r].pc = "idle" /\ runs'[r].job = 0
           /\ \A q \in Runners \ {r} : runs'[q] = runs[q]
  BY Resumed DEF IdleRun

(* The request that ran its job itself, or was about to enqueue it, ends.   *)
LEMMA SyncEndKeepsCustody ==
    ASSUME TypeInv, CustodyInv, NEW h \in Handlers, SyncEnd(h)
    PROVE  CustodyInv'
<1>1. /\ UNCHANGED <<jobs, lastJob, queue, leases, tries, held>>
      /\ casualties \subseteq casualties' /\ faults'["lease"] = faults["lease"]
      /\ Resume(h, IdleRun) /\ Respond(h)
  BY SpendFacts DEF SyncEnd, SyncReturn, SyncRaise, RunRequestDies, storeVars, faultVars, arqVars
<1>2. /\ req'[h].pc = "idle"
      /\ \A g \in Handlers \ {h} : req'[g] = req[g]
  BY <1>1, Served DEF Respond, IdleRequest
<1>3. /\ runs'[h].pc = "idle" /\ runs'[h].job = 0
      /\ \A q \in Runners \ {h} : runs'[q] = runs[q]
  BY <1>1, FreedFacts, IdFacts
<1>4. \A g \in Handlers : \A k : Created(g, k)' => Created(g, k)
  BY <1>2 DEF Created
<1>5. \A w \in Workers, k \in JobId : Holds(w, k)' <=> Holds(w, k)
  BY <1>1, <1>3, IdFacts DEF Holds
<1>6. CreatorsAgree'
  <2>1. \A g \in Handlers :
           runs'[g].job = IF req'[g].pc = "sync" THEN req'[g].job ELSE 0
    BY <1>2, <1>3, IdFacts DEF CustodyInv, CreatorsAgree, At
  <2>2. \A r \in Runners : runs'[r].pc = "idle" => runs'[r].job = 0
    BY <1>3 DEF CustodyInv, CreatorsAgree
  <2> QED
    BY <1>1, <1>4, <1>5, <2>1, <2>2 DEF CustodyInv, CreatorsAgree, At
<1>7. TasksHaveIds'
  BY <1>1, <1>5 DEF CustodyInv, TasksHaveIds
<1>8. faults'["lease"] = 0 => HoldersAgree'
  BY <1>1, <1>3, <1>5, IdFacts DEF CustodyInv, HoldersAgree
<1>9. faults'["lease"] = 0 => EndsAreKnown'
  BY <1>1, <1>3 DEF CustodyInv, EndsAreKnown
<1>10. NoJobIsForgotten'
  <2> SUFFICES ASSUME faults["lease"] = 0, NEW k \in DOMAIN jobs, SomebodyHas(k),
                      jobs[k].status \notin Terminal, <<"job", k>> \notin casualties'
               PROVE  SomebodyHas(k)'
    BY <1>1 DEF CustodyInv, NoJobIsForgotten
  <2>1. k \in JobId /\ k # 0
    BY JobFacts, IdFacts
  <2>2. ASSUME NEW g \in Handlers, At(g, "enqueue"), req[g].job = k PROVE SomebodyHas(k)'
    <3>1. g # h
      BY <2>2 DEF SyncEnd, SyncReturn, SyncRaise, RunRequestDies, At
    <3> QED
      BY <1>2, <2>2, <3>1 DEF SomebodyHas, At
  <2>3. ASSUME NEW r \in Runners, Processing(r, k) PROVE SomebodyHas(k)'
    <3>1. r # h
      <4> SUFFICES ASSUME r = h PROVE FALSE
        OBVIOUS
      <4>1. At(h, "sync") /\ req[h].job = k
        BY <2>1, <2>3 DEF Processing, CustodyInv, CreatorsAgree
      <4> QED
        BY <2>3, <4>1 DEF Processing, SyncEnd, SyncReturn, SyncRaise, RunRequestDies
    <3> QED
      BY <1>3, <2>3, <3>1 DEF SomebodyHas, Processing
  <2> QED
    BY <1>1, <2>2, <2>3 DEF SomebodyHas
<1> QED
  BY <1>6, <1>7, <1>8, <1>9, <1>10 DEF CustodyInv

(* A job is in one run at a time.                                           *)
LEMMA OneRun ==
    ASSUME CreatorsAgree, HoldersAgree, NEW r \in Runners, NEW q \in Runners,
           runs[r].job \in JobId, runs[q].job = runs[r].job
    PROVE  q = r
<1> DEFINE j == runs[r].job
<1>1. \A h \in Handlers : runs[h].job = j => Created(h, j)
  BY IdFacts DEF CreatorsAgree, Created, At
<1>2. \A w \in Workers : runs[w].job = j => Holds(w, j)
  BY DEF Holds
<1>3. CASE r \in Handlers
  BY <1>1, <1>2, <1>3, IdFacts DEF CreatorsAgree
<1>4. CASE r \in Workers /\ q \in Handlers
  BY <1>1, <1>2, <1>4 DEF CreatorsAgree
<1>5. CASE r \in Workers /\ q \in Workers
  BY <1>2, <1>5 DEF HoldersAgree
<1> QED
  BY <1>3, <1>4, <1>5, IdFacts

(* A run goes on, or a call of it fails.                                    *)
LEMMA RunnerKeepsCustody ==
    ASSUME TypeInv, CustodyInv, NEW r \in Runners, RunnerEffect(r)
    PROVE  CustodyInv'
<1>0. PICK j \in JobId : j = runs[r].job
  BY RunFacts DEF RunnerEffect, RunTyped
<1>1. /\ UNCHANGED <<req, queue, leases, tries, held, lastJob>>
      /\ casualties \subseteq casualties' /\ faults'["lease"] = faults["lease"]
      /\ DOMAIN jobs' = DOMAIN jobs
      /\ \A k \in DOMAIN jobs : k # j => jobs'[k] = jobs[k]
  BY <1>0 DEF RunnerEffect
<1>2. /\ \A q \in Runners \ {r} : runs'[q] = runs[q]
      /\ Processing(r, j) /\ runs'[r].pc # "idle" /\ runs'[r].job = j
  BY <1>0 DEF RunnerEffect, Processing
<1>3. /\ \A q \in Runners : runs'[q].job = runs[q].job
      /\ \A q \in Runners : runs'[q].pc = "idle" => runs[q].pc = "idle"
  BY <1>0, <1>2
<1>4. Ended(r)' /\ j \in DOMAIN jobs =>
         jobs'[j].status \in Terminal \/ <<"job", j>> \in casualties'
  BY <1>0 DEF RunnerEffect
<1>5. /\ \A w \in Workers, k \in JobId : Holds(w, k)' <=> Holds(w, k)
      /\ \A g \in Handlers : \A k : Created(g, k)' <=> Created(g, k)
  BY <1>1, <1>3, IdFacts DEF Holds, Created
<1>6. CreatorsAgree'
  BY <1>1, <1>3, <1>5, IdFacts DEF CustodyInv, CreatorsAgree, At
<1>7. TasksHaveIds'
  BY <1>1, <1>5 DEF CustodyInv, TasksHaveIds
<1>8. faults'["lease"] = 0 => HoldersAgree'
  BY <1>1, <1>3, <1>5, IdFacts DEF CustodyInv, HoldersAgree
<1>9. faults'["lease"] = 0 => EndsAreKnown'
  <2> SUFFICES ASSUME faults["lease"] = 0, NEW q \in Runners,
                      runs'[q].pc \in {"done", "raised"}, runs'[q].job \in DOMAIN jobs
               PROVE  \/ jobs'[runs'[q].job].status \in Terminal
                      \/ <<"job", runs'[q].job>> \in casualties'
    BY <1>1 DEF EndsAreKnown
  <2>1. CASE q = r
    BY <1>2, <1>4, <2>1 DEF Ended
  <2>2. CASE q # r
    <3>1. runs[q].job # j
      BY <1>0, <1>1, <2>2, OneRun DEF CustodyInv
    <3> QED
      BY <1>1, <1>2, <2>2, <3>1 DEF CustodyInv, EndsAreKnown
  <2> QED
    BY <2>1, <2>2
<1>10. NoJobIsForgotten'
  <2> SUFFICES ASSUME faults["lease"] = 0, NEW k \in DOMAIN jobs,
                      jobs'[k].status \notin Terminal, <<"job", k>> \notin casualties'
               PROVE  SomebodyHas(k)'
    BY <1>1 DEF NoJobIsForgotten
  <2>1. CASE k = j
    BY <1>2, <1>4, <2>1 DEF SomebodyHas, Processing, Ended
  <2>2. CASE k # j
    <3>1. SomebodyHas(k)
      BY <1>1, <2>2 DEF CustodyInv, NoJobIsForgotten
    <3> QED
      BY <1>1, <1>2, <2>2, <3>1 DEF SomebodyHas, Processing, At
  <2> QED
    BY <2>1, <2>2
<1> QED
  BY <1>6, <1>7, <1>8, <1>9, <1>10 DEF CustodyInv

(* What the steps of arq leave alone.                                       *)
LEMMA ArqFrameFacts ==
    ASSUME TypeInv, UNCHANGED req,
           \/ \E w \in Workers : Finish(w) \/ WorkerCrash(w)
           \/ \E w \in Workers, j \in JobId : ArqStep(w, j)
           \/ \E j \in JobId : LeaseExpires(j) \/ LeaseOverrun(j)
    PROVE  /\ UNCHANGED <<req, jobs, lastJob>> /\ casualties \subseteq casualties'
           /\ faults'["lease"] = 0 => faults["lease"] = 0
           /\ \A g \in Handlers : At(g, "sync")' <=> At(g, "sync")
           /\ \A g \in Handlers : \A k : Created(g, k)' <=> Created(g, k)
<1>1. UNCHANGED <<jobs, lastJob>>
  BY DEF Finish, WorkerCrash, ArqStep, Claim, Start, Discard, LeaseExpires, LeaseOverrun,
         runnerVars, storeVars
<1>2. casualties \subseteq casualties'
  BY DEF Finish, WorkerCrash, ArqStep, Claim, Start, Discard, LeaseExpires, LeaseOverrun,
         runnerVars, faultVars
<1>3. UNCHANGED faults \/ Spend("worker") \/ Spend("lease")
  BY DEF Finish, WorkerCrash, ArqStep, Claim, Start, Discard, LeaseExpires, LeaseOverrun,
         runnerVars, faultVars
<1>4. faults'["lease"] = 0 => faults["lease"] = 0
  BY <1>3 DEF Spend, TypeInv, FaultTypeOK, FaultKinds
<1> QED
  BY <1>1, <1>2, <1>4 DEF At, Created

(* arq takes a finished task out of the queue.                              *)
LEMMA FinishKeepsCustody ==
    ASSUME TypeInv, CustodyInv, NEW w \in Workers, Finish(w), UNCHANGED req
    PROVE  CustodyInv'
<1>0. PICK j \in JobId : j = runs[w].job
  BY RunFacts, IdFacts DEF Finish, RunTyped
<1>1. /\ runs[w].pc \in {"done", "raised"}
      /\ queue' = queue \ {j} /\ leases' = leases \ {j}
      /\ UNCHANGED <<faults, casualties, tries, held>>
  BY <1>0 DEF Finish, faultVars
<1>2. /\ runs'[w].pc = "idle" /\ runs'[w].job = 0
      /\ \A q \in Runners \ {w} : runs'[q] = runs[q]
  BY FreedFacts, IdFacts DEF Finish
<1>3. /\ UNCHANGED <<req, jobs, lastJob>>
      /\ \A g \in Handlers : At(g, "sync")' <=> At(g, "sync")
      /\ \A g \in Handlers : \A k : Created(g, k)' <=> Created(g, k)
  BY ArqFrameFacts
<1>4. Holds(w, j)
  BY <1>0 DEF Holds
<1>5. \A v \in Workers, k \in JobId :
         Holds(v, k)' => Holds(v, k) /\ (v = w => k \in held[w])
  BY <1>1, <1>2, IdFacts DEF Holds
<1>6. CreatorsAgree'
  <2>1. \A g \in Handlers : runs'[g].job = IF At(g, "sync")' THEN req'[g].job ELSE 0
    BY <1>2, <1>3, IdFacts DEF CustodyInv, CreatorsAgree
  <2> QED
    BY <1>1, <1>2, <1>3, <1>5, <2>1 DEF CustodyInv, CreatorsAgree
<1>7. TasksHaveIds'
  BY <1>1, <1>3, <1>5 DEF CustodyInv, TasksHaveIds
<1>8. faults'["lease"] = 0 => HoldersAgree'
  <2> SUFFICES ASSUME HoldersAgree, NEW v \in Workers, NEW k \in JobId, Holds(v, k)'
               PROVE  /\ k \in queue' \cap leases'
                      /\ ~(k \in held'[v] /\ runs'[v].job = k)
                      /\ \A u \in Workers : Holds(u, k)' => u = v
    BY <1>1 DEF CustodyInv, HoldersAgree
  <2>1. k # j
    BY <1>0, <1>4, <1>5 DEF HoldersAgree
  <2> QED
    BY <1>1, <1>2, <1>5, <2>1, IdFacts DEF HoldersAgree
<1>9. faults'["lease"] = 0 => EndsAreKnown'
  BY <1>1, <1>2, <1>3 DEF CustodyInv, EndsAreKnown
<1>10. NoJobIsForgotten'
  <2> SUFFICES ASSUME faults["lease"] = 0, NEW k \in DOMAIN jobs, SomebodyHas(k),
                      jobs[k].status \notin Terminal, <<"job", k>> \notin casualties
               PROVE  SomebodyHas(k)'
    BY <1>1, <1>3 DEF CustodyInv, NoJobIsForgotten
  <2>1. k # j
    BY <1>0, <1>1, IdFacts DEF CustodyInv, EndsAreKnown
  <2>2. \A r \in Runners : Processing(r, k) => Processing(r, k)'
    BY <1>0, <1>2, <2>1 DEF Processing
  <2> QED
    BY <1>1, <1>3, <2>1, <2>2 DEF SomebodyHas, At
<1> QED
  BY <1>6, <1>7, <1>8, <1>9, <1>10 DEF CustodyInv

(* What a worker that dies had is still in the queue.                       *)
LEMMA WorkerCrashKeepsCustody ==
    ASSUME TypeInv, CustodyInv, NEW w \in Workers, WorkerCrash(w), UNCHANGED req
    PROVE  CustodyInv'
<1>1. /\ UNCHANGED <<casualties, queue, leases, tries>>
      /\ held'[w] = {} /\ \A v \in Workers \ {w} : held'[v] = held[v]
  BY DEF WorkerCrash, TypeInv, ArqTypeOK
<1>2. /\ runs'[w].pc = "idle" /\ runs'[w].job = 0
      /\ \A q \in Runners \ {w} : runs'[q] = runs[q]
  BY FreedFacts, IdFacts DEF WorkerCrash
<1>3. /\ UNCHANGED <<req, jobs, lastJob>>
      /\ faults'["lease"] = 0 => faults["lease"] = 0
      /\ \A g \in Handlers : At(g, "sync")' <=> At(g, "sync")
      /\ \A g \in Handlers : \A k : Created(g, k)' <=> Created(g, k)
  BY ArqFrameFacts
<1>4. \A v \in Workers, k \in JobId : Holds(v, k)' => Holds(v, k) /\ v # w
  BY <1>1, <1>2, IdFacts DEF Holds
<1>5. CreatorsAgree'
  <2>1. \A g \in Handlers : runs'[g].job = IF At(g, "sync")' THEN req'[g].job ELSE 0
    BY <1>2, <1>3, IdFacts DEF CustodyInv, CreatorsAgree
  <2> QED
    BY <1>1, <1>2, <1>3, <1>4, <2>1 DEF CustodyInv, CreatorsAgree
<1>6. TasksHaveIds'
  BY <1>1, <1>3, <1>4 DEF CustodyInv, TasksHaveIds
<1>7. faults'["lease"] = 0 => HoldersAgree'
  BY <1>1, <1>2, <1>3, <1>4, IdFacts DEF CustodyInv, HoldersAgree
<1>8. faults'["lease"] = 0 => EndsAreKnown'
  BY <1>1, <1>2, <1>3 DEF CustodyInv, EndsAreKnown
<1>9. NoJobIsForgotten'
  <2> SUFFICES ASSUME faults["lease"] = 0, NEW k \in DOMAIN jobs, SomebodyHas(k)
               PROVE  SomebodyHas(k)'
    BY <1>1, <1>3 DEF CustodyInv, NoJobIsForgotten
  <2>1. Processing(w, k) => k \in queue
    BY JobFacts DEF Processing, Holds, CustodyInv, HoldersAgree
  <2>2. \A r \in Runners \ {w} : Processing(r, k) => Processing(r, k)'
    BY <1>2 DEF Processing
  <2> QED
    BY <1>1, <1>3, <2>1, <2>2 DEF SomebodyHas, At
<1> QED
  BY <1>5, <1>6, <1>7, <1>8, <1>9 DEF CustodyInv

(* A worker takes a task that is in nobody's hands.                         *)
LEMMA ClaimKeepsCustody ==
    ASSUME TypeInv, CustodyInv, NEW w \in Workers, NEW j \in JobId, Claim(w, j),
           UNCHANGED req
    PROVE  CustodyInv'
<1>1. /\ j \in queue /\ j \notin leases /\ leases' = leases \cup {j}
      /\ UNCHANGED <<faults, casualties, runs, queue, tries>>
      /\ held'[w] = held[w] \cup {j} /\ \A v \in Workers \ {w} : held'[v] = held[v]
  BY DEF Claim, Claimable, runnerVars, faultVars, TypeInv, ArqTypeOK
<1>2. /\ UNCHANGED <<req, jobs, lastJob>>
      /\ \A g \in Handlers : At(g, "sync")' <=> At(g, "sync")
      /\ \A g \in Handlers : \A k : Created(g, k)' <=> Created(g, k)
  BY ArqFrameFacts DEF ArqStep
<1>3. \A v \in Workers, k \in JobId : Holds(v, k)' <=> Holds(v, k) \/ (v = w /\ k = j)
  BY <1>1 DEF Holds
<1>4. CreatorsAgree'
  BY <1>1, <1>2, <1>3 DEF CustodyInv, CreatorsAgree
<1>5. TasksHaveIds'
  <2>1. j \in 1..lastJob
    BY <1>1 DEF CustodyInv, TasksHaveIds
  <2> QED
    BY <1>1, <1>2, <1>3, <2>1 DEF CustodyInv, TasksHaveIds, TypeInv, StoreInv, StoreTypeOK
<1>6. faults'["lease"] = 0 => HoldersAgree'
  <2> SUFFICES ASSUME HoldersAgree, NEW v \in Workers, NEW k \in JobId, Holds(v, k)'
               PROVE  /\ k \in queue \cap leases'
                      /\ ~(k \in held'[v] /\ runs[v].job = k)
                      /\ \A u \in Workers : Holds(u, k)' => u = v
    BY <1>1 DEF CustodyInv, HoldersAgree
  <2>1. \A u \in Workers : ~Holds(u, j)
    BY <1>1 DEF HoldersAgree
  <2>2. CASE k = j
    BY <1>1, <1>3, <2>1, <2>2 DEF Holds
  <2>3. CASE k # j
    BY <1>1, <1>3, <2>3 DEF HoldersAgree
  <2> QED
    BY <2>2, <2>3
<1>7. faults'["lease"] = 0 => EndsAreKnown'
  BY <1>1, <1>2 DEF CustodyInv, EndsAreKnown
<1>8. NoJobIsForgotten'
  <2>1. \A k : SomebodyHas(k) => SomebodyHas(k)'
    BY <1>1, <1>2 DEF SomebodyHas, Processing, At
  <2> QED
    BY <1>1, <1>2, <2>1 DEF CustodyInv, NoJobIsForgotten
<1> QED
  BY <1>4, <1>5, <1>6, <1>7, <1>8 DEF CustodyInv

(* It starts it, if it is still in the queue,                               *)
LEMMA StartKeepsCustody ==
    ASSUME TypeInv, CustodyInv, NEW w \in Workers, NEW j \in JobId, Start(w, j),
           UNCHANGED req
    PROVE  CustodyInv'
<1>1. /\ j \in held[w] /\ j \in queue /\ runs[w].pc = "idle"
      /\ UNCHANGED <<faults, casualties, queue, leases>>
      /\ held'[w] = held[w] \ {j} /\ \A v \in Workers \ {w} : held'[v] = held[v]
      /\ \A k \in JobId \ {j} : tries'[k] = tries[k]
  BY DEF Start, LeaveInQueue, faultVars, TypeInv, ArqTypeOK
<1>2. /\ runs'[w].pc = "fetch" /\ runs'[w].job = j
      /\ \A q \in Runners \ {w} : runs'[q] = runs[q]
  <2>1. Called(j).pc = "fetch" /\ Called(j).job = j
    BY DEF Called, IdleRun
  <2>2. Resume(w, Called(j))
    BY DEF Start
  <2> QED
    BY <2>1, <2>2, Resumed, IdFacts
<1>3. /\ UNCHANGED <<req, jobs, lastJob>>
      /\ \A g \in Handlers : At(g, "sync")' <=> At(g, "sync")
      /\ \A g \in Handlers : \A k : Created(g, k)' <=> Created(g, k)
  BY ArqFrameFacts DEF ArqStep
<1>4. Holds(w, j) /\ runs[w].job = 0
  BY <1>1, IdFacts DEF Holds, CustodyInv, CreatorsAgree
<1>5. \A v \in Workers, k \in JobId : Holds(v, k)' <=> Holds(v, k)
  <2>1. \A k \in JobId : Holds(w, k)' <=> Holds(w, k)
    BY <1>1, <1>2, <1>4, IdFacts DEF Holds
  <2> QED
    BY <1>1, <1>2, <2>1, IdFacts DEF Holds
<1>6. j <= lastJob /\ \A g \in Handlers : ~Created(g, j)
  BY <1>4 DEF CustodyInv, CreatorsAgree, TasksHaveIds
<1>7. CreatorsAgree'
  <2>1. \A g \in Handlers : runs'[g].job = IF At(g, "sync")' THEN req'[g].job ELSE 0
    BY <1>2, <1>3, IdFacts DEF CustodyInv, CreatorsAgree
  <2>2. \A r \in Runners : runs'[r].pc = "idle" => runs'[r].job = 0
    BY <1>2 DEF CustodyInv, CreatorsAgree
  <2>3. \A g \in Handlers, k \in JobId : Created(g, k) => tries'[k] = tries[k]
    BY <1>1, <1>6
  <2> QED
    BY <1>1, <1>3, <1>5, <2>1, <2>2, <2>3 DEF CustodyInv, CreatorsAgree
<1>8. TasksHaveIds'
  <2>1. \A k \in JobId : k > lastJob => k # j
    BY <1>6, IdFacts DEF TypeInv, StoreInv, StoreTypeOK
  <2> QED
    BY <1>1, <1>3, <1>5, <2>1 DEF CustodyInv, TasksHaveIds
<1>9. faults'["lease"] = 0 => HoldersAgree'
  <2> SUFFICES ASSUME HoldersAgree, NEW v \in Workers, NEW k \in JobId, Holds(v, k)
               PROVE  /\ k \in queue \cap leases
                      /\ ~(k \in held'[v] /\ runs'[v].job = k)
                      /\ \A u \in Workers : Holds(u, k) => u = v
    BY <1>1, <1>5 DEF CustodyInv, HoldersAgree
  <2> QED
    BY <1>1, <1>2, IdFacts DEF HoldersAgree
<1>10. faults'["lease"] = 0 => EndsAreKnown'
  BY <1>1, <1>2, <1>3 DEF CustodyInv, EndsAreKnown
<1>11. NoJobIsForgotten'
  <2>1. \A r \in Runners : \A k : Processing(r, k) => Processing(r, k)'
    BY <1>1, <1>2 DEF Processing
  <2> QED
    BY <1>1, <1>3, <2>1 DEF CustodyInv, NoJobIsForgotten, SomebodyHas, At
<1> QED
  BY <1>7, <1>8, <1>9, <1>10, <1>11 DEF CustodyInv

(* or gives it up.                                                          *)
LEMMA DiscardKeepsCustody ==
    ASSUME TypeInv, CustodyInv, NEW w \in Workers, NEW j \in JobId, Discard(w, j),
           UNCHANGED req
    PROVE  CustodyInv'
<1>1. /\ j \in held[w] /\ queue' = queue \ {j} /\ leases' = leases \ {j}
      /\ UNCHANGED <<faults, runs, tries>>
      /\ held'[w] = held[w] \ {j} /\ \A v \in Workers \ {w} : held'[v] = held[v]
      /\ j \in queue => <<"job", j>> \in casualties'
  BY DEF Discard, Drop, TypeInv, ArqTypeOK
<1>2. /\ UNCHANGED <<req, jobs, lastJob>> /\ casualties \subseteq casualties'
      /\ \A g \in Handlers : At(g, "sync")' <=> At(g, "sync")
      /\ \A g \in Handlers : \A k : Created(g, k)' <=> Created(g, k)
  BY ArqFrameFacts DEF ArqStep
<1>3. \A v \in Workers, k \in JobId : Holds(v, k)' => Holds(v, k)
  BY <1>1 DEF Holds
<1>4. CreatorsAgree'
  BY <1>1, <1>2, <1>3 DEF CustodyInv, CreatorsAgree
<1>5. TasksHaveIds'
  BY <1>1, <1>2, <1>3 DEF CustodyInv, TasksHaveIds
<1>6. faults'["lease"] = 0 => HoldersAgree'
  <2> SUFFICES ASSUME HoldersAgree, NEW v \in Workers, NEW k \in JobId, Holds(v, k)'
               PROVE  /\ k \in queue' \cap leases'
                      /\ ~(k \in held'[v] /\ runs'[v].job = k)
                      /\ \A u \in Workers : Holds(u, k)' => u = v
    BY <1>1 DEF CustodyInv, HoldersAgree
  <2>1. Holds(w, j) /\ runs[w].job # j
    BY <1>1 DEF Holds, HoldersAgree
  <2>2. k # j
    BY <1>1, <1>3, <2>1 DEF Holds, HoldersAgree
  <2> QED
    BY <1>1, <1>3, <2>2 DEF HoldersAgree
<1>7. faults'["lease"] = 0 => EndsAreKnown'
  BY <1>1, <1>2 DEF CustodyInv, EndsAreKnown
<1>8. NoJobIsForgotten'
  <2>1. \A k : SomebodyHas(k) => SomebodyHas(k)' \/ (k = j /\ j \in queue)
    BY <1>1, <1>2 DEF SomebodyHas, Processing, At
  <2> QED
    BY <1>1, <1>2, <2>1 DEF CustodyInv, NoJobIsForgotten
<1> QED
  BY <1>4, <1>5, <1>6, <1>7, <1>8 DEF CustodyInv

(* A lease that expires without a worker is nobody's; one that expires      *)
(* under a worker is what the invariant makes an exception for.             *)
LEMMA LeaseKeepsCustody ==
    ASSUME TypeInv, CustodyInv, NEW j \in JobId, LeaseExpires(j) \/ LeaseOverrun(j),
           UNCHANGED req
    PROVE  CustodyInv'
<1>1. /\ leases' = leases \ {j} /\ UNCHANGED <<casualties, runs, queue, tries, held>>
      /\ faults'["lease"] = 0 => /\ faults["lease"] = 0
                                 /\ \A w \in Workers : ~Holds(w, j)
  <2>1. Spend("lease") => faults'["lease"] # 0
    BY DEF Spend, TypeInv, FaultTypeOK, FaultKinds
  <2> QED
    BY <2>1 DEF LeaseExpires, LeaseOverrun, runnerVars, faultVars
<1>2. /\ UNCHANGED <<req, jobs, lastJob>>
      /\ \A g \in Handlers : At(g, "sync")' <=> At(g, "sync")
      /\ \A g \in Handlers : \A k : Created(g, k)' <=> Created(g, k)
  BY ArqFrameFacts
<1>3. \A v \in Workers, k \in JobId : Holds(v, k)' <=> Holds(v, k)
  BY <1>1 DEF Holds
<1>4. CreatorsAgree'
  BY <1>1, <1>2, <1>3 DEF CustodyInv, CreatorsAgree
<1>5. TasksHaveIds'
  BY <1>1, <1>2, <1>3 DEF CustodyInv, TasksHaveIds
<1>6. faults'["lease"] = 0 => HoldersAgree'
  BY <1>1, <1>3 DEF CustodyInv, HoldersAgree
<1>7. faults'["lease"] = 0 => EndsAreKnown'
  BY <1>1, <1>2 DEF CustodyInv, EndsAreKnown
<1>8. NoJobIsForgotten'
  <2>1. \A k : SomebodyHas(k) => SomebodyHas(k)'
    BY <1>1, <1>2 DEF SomebodyHas, Processing, At
  <2> QED
    BY <1>1, <1>2, <2>1 DEF CustodyInv, NoJobIsForgotten
<1> QED
  BY <1>4, <1>5, <1>6, <1>7, <1>8 DEF CustodyInv

(* At the start there are no jobs.                                          *)
LEMMA InitCustody == Init => CustodyInv
  BY IdFacts
     DEF Init, StoreInit, FaultInit, RunnerInit, ArqInit, RequestInit, IdleRequest, IdleRun,
         CustodyInv, CreatorsAgree, TasksHaveIds, HoldersAgree, EndsAreKnown,
         NoJobIsForgotten, Holds, Created, At

(* It is known throughout who has a job.                                    *)
THEOREM CustodyInvariant == Spec => []CustodyInv
<1>1. TypeInv /\ TypeInv' /\ TenancyInv /\ CustodyInv /\ [Next]_vars => CustodyInv'
  <2> SUFFICES ASSUME TypeInv, TypeInv', TenancyInv, CustodyInv, [Next]_vars
               PROVE  CustodyInv'
    OBVIOUS
  <2>1. CASE Aside
    BY <2>1, AsideKeepsCustody
  <2>2. ASSUME NEW h \in Handlers, CreateJob(h) \/ Enqueue(h) \/ SyncEnd(h)
        PROVE  CustodyInv'
    BY <2>2, CreateJobKeepsCustody, EnqueueKeepsCustody, SyncEndKeepsCustody
  <2>3. ASSUME NEW r \in Runners, ProcessJob(r) \/ CallRaises(r) PROVE CustodyInv'
    BY <2>3, RunnerStepEffect, CallRaisesEffect, RunnerKeepsCustody
  <2>4. ASSUME NEW w \in Workers, Finish(w) \/ WorkerCrash(w), UNCHANGED req
        PROVE  CustodyInv'
    BY <2>4, FinishKeepsCustody, WorkerCrashKeepsCustody
  <2>5. ASSUME NEW w \in Workers, NEW j \in JobId, ArqStep(w, j), UNCHANGED req
        PROVE  CustodyInv'
    BY <2>5, ClaimKeepsCustody, StartKeepsCustody, DiscardKeepsCustody DEF ArqStep
  <2>6. ASSUME NEW j \in JobId, LeaseExpires(j) \/ LeaseOverrun(j), UNCHANGED req
        PROVE  CustodyInv'
    BY <2>6, LeaseKeepsCustody
  <2> QED
    BY CustodySteps, <2>1, <2>2, <2>3, <2>4, <2>5, <2>6
<1> QED
  BY <1>1, InitCustody, LocalTypesCorrect, TenancyInvariant, PTL DEF Spec

(* As long as no lease expires under a worker, a job that is not settled is *)
(* in the hands of a request, the queue or a runner, or is one of those     *)
(* that are known to be lost (app/run_helpers.py, app/worker.py).           *)
THEOREM NoJobForgotten == Spec => []NoJobIsForgotten
  BY CustodyInvariant, PTL DEF CustodyInv

----------------------------------------------------------------------------
(* The runs of a job.                                                       *)

(* First runs.  What a call of process_job that gets through does to the    *)
(* row of its job, and to what the run will do next.                        *)

RowStays(r) ==
    /\ UNCHANGED <<jobs, succeededOnce>>
    /\ runs[r].job \in DOMAIN jobs =>
          /\ runs'[r].pc # "done"
          /\ runs'[r].pc \in Early => runs[r].pc \in Early
          /\ runs'[r].pc \in Late => runs[r].pc \in Late

RowBegun(r) ==
    LET j == runs[r].job IN
    /\ j \in DOMAIN jobs /\ runs[r].pc = "mark_running" /\ runs'[r].pc \in Late
    /\ Written(j, "running", jobs[j].error, jobs[j].result_summary)
    /\ UNCHANGED succeededOnce

RowEnded(r) ==
    LET j == runs[r].job IN
    /\ j \in DOMAIN jobs /\ runs'[r].pc \notin Early \cup Late
    /\ \/ /\ runs[r].pc = "mark_succeeded"
          /\ Written(j, "succeeded", jobs[j].error, runs[r].result)
          /\ succeededOnce' = succeededOnce \cup {j}
       \/ /\ runs[r].pc = "mark_failed"
          /\ Written(j, "failed", runs[r].error, jobs[j].result_summary)
          /\ UNCHANGED succeededOnce

(* Going on keeps the result, catching sets the error.                      *)
LEMMA GotoReady ==
    ASSUME TypeInv, NEW q \in Runners, NEW pc, NEW e \in {"actionable", "generic"},
           (Goto(q, pc) /\ pc \notin {"mark_failed", "mark_succeeded"}) \/ Catch(q, e)
    PROVE  RunReady(runs'[q])
<1>1. runs[q] \in Run
  BY RunFacts
<1>2. CASE Goto(q, pc) /\ pc \notin {"mark_failed", "mark_succeeded"}
  <2>1. runs'[q].pc = pc
    BY <1>1, <1>2, Resumed DEF Goto, Run
  <2> QED
    BY <1>2, <2>1 DEF RunReady
<1>3. CASE Catch(q, e)
  <2> DEFINE x == [runs[q] EXCEPT !.pc = "mark_failed", !.error = e]
  <2>1. x.pc = "mark_failed" /\ x.error = e
    BY <1>1 DEF Run
  <2>2. Resume(q, x)
    BY <1>3 DEF Catch
  <2> HIDE DEF x
  <2> QED
    BY <2>1, <2>2, Resumed DEF RunReady
<1> QED
  BY <1>2, <1>3

(* A call that gets through.                                                *)
LEMMA RunnerRowEffect ==
    ASSUME TypeInv, TenancyInv, NEW r \in Runners, ProcessJob(r)
    PROVE  /\ RowStays(r) \/ RowBegun(r) \/ RowEnded(r)
           /\ RunReady(runs'[r]) /\ UNCHANGED faults
<1> DEFINE j == runs[r].job
<1>1. runs[r] \in Run /\ RunTyped(runs[r])
  BY RunFacts
<1>2. UNCHANGED faults
  BY DEF ProcessJob, RunnerStep, Fetch, MarkRunning, Load, Compute, UploadArtifact,
         MarkSucceeded, MarkFailed, faultVars
<1>3. CASE Fetch(r)
  <2> DEFINE x == [runs[r] EXCEPT !.pc = "mark_running", !.row = Fetched(j)]
  <2>1. x.pc = "mark_running"
    BY <1>1 DEF Run
  <2>2. /\ UNCHANGED <<jobs, succeededOnce>> /\ runs[r].pc = "fetch"
        /\ IF j \in DOMAIN jobs THEN Resume(r, x) ELSE Goto(r, "done")
    BY <1>3 DEF Fetch, storeVars, faultVars
  <2> HIDE DEF x
  <2>3. CASE j \in DOMAIN jobs
    BY <1>2, <2>1, <2>2, <2>3, Resumed DEF RowStays, RunReady, Early, Late
  <2>4. CASE j \notin DOMAIN jobs
    BY <1>2, <2>2, <2>4, GotoReady DEF RowStays
  <2> QED
    BY <2>3, <2>4
<1>4. CASE MarkRunning(r)
  <2>1. runs[r].pc = "mark_running" /\ (RowThere(r) <=> j \in DOMAIN jobs)
        /\ UNCHANGED succeededOnce
    BY <1>4, RowThereFacts DEF MarkRunning, WithRow, faultVars
  <2>2. CASE RowThere(r)
    <3>1. WriteRunning(r) /\ Goto(r, "load")
      BY <1>4, <2>2 DEF MarkRunning
    <3>2. Written(j, "running", jobs[j].error, jobs[j].result_summary)
      BY <2>1, <2>2, <3>1, WriteFacts
    <3>3. runs'[r].pc = "load"
      BY <1>1, <3>1, Resumed DEF Goto, Run
    <3>4. RunReady(runs'[r])
      BY <3>3 DEF RunReady
    <3> QED
      BY <1>2, <2>1, <2>2, <3>2, <3>3, <3>4 DEF RowBegun, Late, WithRow
  <2>3. CASE ~RowThere(r)
    <3>1. UNCHANGED jobs /\ Goto(r, "raised")
      BY <1>4, <2>3 DEF MarkRunning
    <3> QED
      BY <1>2, <2>1, <2>3, <3>1, GotoReady DEF RowStays
  <2> QED
    BY <2>2, <2>3
<1>5. CASE Load(r)
  <2> DEFINE d == runs[r].row.dataset_id
             x == [runs[r] EXCEPT !.pc = "download", !.path = datasets[d].parquet_path]
  <2>1. x.pc = "download"
    BY <1>1 DEF Run
  <2>2. /\ UNCHANGED <<jobs, succeededOnce>> /\ runs[r].pc = "load"
        /\ Resume(r, x) \/ Catch(r, "actionable")
    BY <1>5 DEF Load, storeVars, faultVars
  <2> HIDE DEF x
  <2>3. CASE Resume(r, x)
    BY <1>2, <2>1, <2>2, <2>3, Resumed DEF RowStays, RunReady, Early, Late, WithRow
  <2>4. CASE Catch(r, "actionable")
    BY <1>2, <2>2, <2>4, GotoKeepsJob, GotoReady DEF RowStays, Early, Late, WithRow
  <2> QED
    BY <2>2, <2>3, <2>4
<1>6. CASE Compute(r)
  <2> DEFINE row == runs[r].row
             result == [data |-> objects[runs[r].path], module |-> row.module,
                        params |-> row.params]
             next == IF Outcome[result] = "artifact" THEN "upload" ELSE "mark_succeeded"
             x == [runs[r] EXCEPT !.pc = next, !.result = result]
  <2>1. x.pc \in {"upload", "mark_succeeded"} /\ x.result = result
    BY <1>1 DEF Run
  <2>2. /\ UNCHANGED <<jobs, succeededOnce>> /\ runs[r].pc = "download"
        /\ \/ runs[r].path \in DOMAIN objects /\ Resume(r, x)
           \/ Catch(r, "actionable") \/ Catch(r, "generic")
    BY <1>6 DEF Compute, NoObject, Rejected, storeVars, faultVars
  <2>3. runs[r].path \in DOMAIN objects => result \in Result
    BY <1>1, <2>2 DEF TypeInv, StoreInv, ObjectsTyped, RunTyped, WithRow, Snapshot, Result
  <2> HIDE DEF x, result
  <2>4. CASE runs[r].path \in DOMAIN objects /\ Resume(r, x)
    BY <1>2, <2>1, <2>2, <2>3, <2>4, Resumed, NoneFacts
       DEF RowStays, RunReady, Early, Late, WithRow
  <2>5. CASE Catch(r, "actionable") \/ Catch(r, "generic")
    BY <1>2, <2>2, <2>5, GotoKeepsJob, GotoReady DEF RowStays, Early, Late, WithRow
  <2> QED
    BY <2>2, <2>4, <2>5
<1>7. CASE UploadArtifact(r)
  <2> DEFINE x == [runs[r] EXCEPT !.pc = "mark_succeeded", !.artifact = ArtifactOf(r)]
  <2>1. x.pc = "mark_succeeded" /\ x.result = runs[r].result
    BY <1>1 DEF Run
  <2>2. UNCHANGED <<jobs, succeededOnce>> /\ runs[r].pc = "upload" /\ Resume(r, x)
    BY <1>7 DEF UploadArtifact, ArtifactOf, faultVars
  <2>3. runs[r].result # None
    BY <1>1, <2>2, NoneFacts DEF RunTyped
  <2> HIDE DEF x
  <2> QED
    BY <1>2, <2>1, <2>2, <2>3, Resumed DEF RowStays, RunReady, Early, Late, WithRow
<1>8. CASE MarkSucceeded(r)
  <2>1. runs[r].pc = "mark_succeeded"
    BY <1>8 DEF MarkSucceeded
  <2>2. CASE RowThere(r)
    <3>1. WriteSucceeded(r) /\ Goto(r, "done")
      BY <1>8, <2>2 DEF MarkSucceeded
    <3>2. succeededOnce' = succeededOnce \cup {j}
      BY <3>1 DEF WriteSucceeded
    <3>3. j \in DOMAIN jobs /\ Written(j, "succeeded", jobs[j].error, runs[r].result)
      BY <2>2, <3>1, WriteFacts
    <3>4. runs'[r].pc = "done" /\ RunReady(runs'[r])
      <4>1. runs'[r].pc = "done"
        BY <1>1, <3>1, Resumed DEF Goto, Run
      <4> QED
        BY <4>1 DEF RunReady
    <3>5. RowEnded(r)
      BY <2>1, <3>2, <3>3, <3>4 DEF RowEnded, Early, Late, WithRow
    <3> QED
      BY <1>2, <3>4, <3>5
  <2>3. CASE ~RowThere(r)
    <3>1. UNCHANGED <<jobs, succeededOnce>> /\ Catch(r, "generic")
      BY <1>8, <2>3 DEF MarkSucceeded
    <3> QED
      BY <1>2, <2>1, <3>1, GotoKeepsJob, GotoReady DEF RowStays, Early, Late, WithRow
  <2> QED
    BY <2>2, <2>3
<1>9. CASE MarkFailed(r)
  <2>1. runs[r].pc = "mark_failed" /\ (RowThere(r) <=> j \in DOMAIN jobs)
        /\ UNCHANGED succeededOnce
    BY <1>9, RowThereFacts DEF MarkFailed, WithRow, faultVars
  <2>2. CASE RowThere(r)
    <3>1. WriteFailed(r) /\ Goto(r, "done")
      BY <1>9, <2>2 DEF MarkFailed
    <3>2. j \in DOMAIN jobs /\ Written(j, "failed", runs[r].error, jobs[j].result_summary)
      BY <2>2, <3>1, WriteFacts
    <3>3. runs'[r].pc = "done" /\ RunReady(runs'[r])
      <4>1. runs'[r].pc = "done"
        BY <1>1, <3>1, Resumed DEF Goto, Run
      <4> QED
        BY <4>1 DEF RunReady
    <3>4. RowEnded(r)
      BY <2>1, <3>2, <3>3 DEF RowEnded, Early, Late, WithRow
    <3> QED
      BY <1>2, <3>3, <3>4
  <2>3. CASE ~RowThere(r)
    <3>1. UNCHANGED jobs /\ Goto(r, "raised")
      BY <1>9, <2>3 DEF MarkFailed
    <3> QED
      BY <1>2, <2>1, <2>3, <3>1, GotoReady DEF RowStays
  <2> QED
    BY <2>2, <2>3
<1> QED
  BY <1>3, <1>4, <1>5, <1>6, <1>7, <1>8, <1>9 DEF ProcessJob, RunnerStep

(* A step that starts no run and updates no row, and puts only untouched    *)
(* jobs into the queue.                                                     *)
Quiet ==
    /\ UNCHANGED <<tries, succeededOnce, lastJob>> /\ JobsStay
    /\ faults'["io"] = 0 => faults["io"] = 0
    /\ \A r \in Runners :
          runs'[r] = runs[r] \/ (runs'[r].pc = "idle" /\ runs'[r].job = 0)
    /\ \A h \in Handlers :
          At(h, "enqueue")' => At(h, "enqueue") /\ req'[h].job = req[h].job
    /\ \A j \in queue' : \/ j \in queue
                         \/ \E h \in Handlers : At(h, "enqueue") /\ req[h].job = j

(* Such a step changes nothing that first runs rely on.                     *)
LEMMA QuietKeepsFirstRuns ==
    ASSUME TypeInv, FirstRunInv, Quiet
    PROVE  FirstRunInv'
<1>1. \A j \in DOMAIN jobs' : j \in DOMAIN jobs /\ jobs'[j] = jobs[j]
  BY DEF Quiet, JobsStay
<1>2. \A j \in DOMAIN jobs' : /\ Untouched(j)' <=> Untouched(j)
                              /\ UnderWay(j)' <=> UnderWay(j)
                              /\ FirstRun(j)' <=> FirstRun(j)
  BY <1>1 DEF Quiet, Untouched, UnderWay, FirstRun
<1>3. RunsAreCounted'
  BY IdFacts DEF Quiet, FirstRunInv, RunsAreCounted, FirstRun
<1>4. succeededOnce' \subseteq 1..lastJob'
  BY DEF Quiet, FirstRunInv
<1>5. faults'["io"] = 0 => FirstRunsAgree'
  <2> SUFFICES ASSUME faults["io"] = 0, FirstRunsAgree PROVE FirstRunsAgree'
    BY DEF Quiet, FirstRunInv
  <2>1. \A j \in queue' \cap DOMAIN jobs' : tries'[j] = 0 => Untouched(j)'
    BY <1>1, <1>2 DEF Quiet, FirstRunsAgree, RequestAgrees
  <2>2. ASSUME NEW h \in Handlers PROVE RequestAgrees(h)'
    BY <1>1, <1>2 DEF Quiet, FirstRunsAgree, RequestAgrees
  <2>3. ASSUME NEW r \in Runners PROVE RunReady(runs'[r]) /\ RunAgrees(runs[r])'
    <3>1. CASE runs'[r] = runs[r]
      BY <1>1, <1>2, <3>1 DEF FirstRunsAgree, RunAgrees
    <3>2. CASE runs'[r].pc = "idle"
      BY <3>2 DEF RunReady, RunAgrees, Early, Late, WithRow
    <3> QED
      BY <3>1, <3>2 DEF Quiet
  <2>4. \A j \in succeededOnce' \cap DOMAIN jobs' :
           FirstRun(j)' => jobs'[j].status = "succeeded"
    BY <1>1, <1>2 DEF Quiet, FirstRunsAgree
  <2> QED
    BY <2>1, <2>2, <2>3, <2>4 DEF FirstRunsAgree
<1>6. RowsAreConsistent'
  BY <1>1 DEF Quiet, FirstRunInv, RowsAreConsistent
<1> QED
  BY <1>3, <1>4, <1>5, <1>6 DEF FirstRunInv

(* Most steps are quiet.                                                    *)
LEMMA QuietSteps ==
    ASSUME TypeInv,
           \/ Aside
           \/ \E h \in Handlers : Enqueue(h) \/ SyncEnd(h)
           \/ \E w \in Workers : (Finish(w) \/ WorkerCrash(w)) /\ UNCHANGED req
           \/ \E w \in Workers, j \in JobId : (Claim(w, j) \/ Discard(w, j)) /\ UNCHANGED req
           \/ \E j \in JobId : (LeaseExpires(j) \/ LeaseOverrun(j)) /\ UNCHANGED req
    PROVE  Quiet
<1>1. CASE Aside
  BY <1>1 DEF Aside, FaultsStay, HandOversStay, HandOver, Quiet, At
<1>2. ASSUME NEW h \in Handlers, Enqueue(h) PROVE Quiet
  <2>1. /\ req'[h].pc = "idle" /\ \A g \in Handlers \ {h} : req'[g] = req[g]
    BY <1>2, Served DEF Enqueue, Respond, IdleRequest
  <2>2. /\ UNCHANGED <<tries, succeededOnce, lastJob, jobs, faults, runs>>
        /\ queue' = queue \cup {req[h].job} /\ At(h, "enqueue")
    BY <1>2 DEF Enqueue, enqueue_module_job, runnerVars, storeVars, faultVars
  <2> QED
    BY <2>1, <2>2 DEF Quiet, JobsStay, At
<1>3. ASSUME NEW h \in Handlers, SyncEnd(h) PROVE Quiet
  <2>1. /\ UNCHANGED <<tries, succeededOnce, lastJob, jobs, queue>>
        /\ faults'["io"] = faults["io"]
        /\ Resume(h, IdleRun) /\ Respond(h)
    BY <1>3, SpendFacts
       DEF SyncEnd, SyncReturn, SyncRaise, RunRequestDies, storeVars, faultVars, arqVars
  <2>2. /\ req'[h].pc = "idle" /\ \A g \in Handlers \ {h} : req'[g] = req[g]
    BY <2>1, Served DEF Respond, IdleRequest
  <2>3. \A r \in Runners :
           runs'[r] = runs[r] \/ (runs'[r].pc = "idle" /\ runs'[r].job = 0)
    BY <2>1, FreedFacts, IdFacts
  <2> QED
    BY <2>1, <2>2, <2>3 DEF Quiet, JobsStay, At
<1>4. ASSUME NEW w \in Workers, Finish(w) \/ WorkerCrash(w), UNCHANGED req PROVE Quiet
  <2>1. /\ UNCHANGED <<tries, succeededOnce, lastJob, jobs>> /\ queue' \subseteq queue
        /\ faults'["io"] = faults["io"] /\ Resume(w, IdleRun)
    BY <1>4, SpendFacts DEF Finish, WorkerCrash, storeVars, faultVars
  <2>2. \A r \in Runners :
           runs'[r] = runs[r] \/ (runs'[r].pc = "idle" /\ runs'[r].job = 0)
    BY <2>1, FreedFacts, IdFacts
  <2> QED
    BY <1>4, <2>1, <2>2 DEF Quiet, JobsStay, At
<1>5. ASSUME NEW w \in Workers, NEW j \in JobId, Claim(w, j) \/ Discard(w, j), UNCHANGED req
      PROVE  Quiet
  BY <1>5 DEF Claim, Discard, Drop, runnerVars, storeVars, faultVars, Quiet, JobsStay, At
<1>6. ASSUME NEW j \in JobId, LeaseExpires(j) \/ LeaseOverrun(j), UNCHANGED req PROVE Quiet
  <2>1. Spend("lease") => faults'["io"] = faults["io"]
    BY DEF Spend, TypeInv, FaultTypeOK, FaultKinds
  <2> QED
    BY <1>6, <2>1 DEF LeaseExpires, LeaseOverrun, runnerVars, storeVars, faultVars, Quiet,
                      JobsStay, At
<1> QED
  BY <1>1, <1>2, <1>3, <1>4, <1>5, <1>6

(* A new job is untouched.                                                  *)
LEMMA CreateJobKeepsFirstRuns ==
    ASSUME TypeInv, TypeInv', CustodyInv, FirstRunInv, NEW h \in Handlers, CreateJob(h)
    PROVE  FirstRunInv'
<1>0. PICK j \in JobId : j = lastJob + 1
  BY DEF CreateJob, create_job, TypeInv, StoreInv, StoreTypeOK, JobId
<1> DEFINE x == [req[h] EXCEPT !.pc = IF SyncJobs THEN "sync" ELSE "enqueue", !.job = j]
<1>1. /\ x.pc = (IF SyncJobs THEN "sync" ELSE "enqueue") /\ x.job = j
      /\ Serve(h, x)
  BY <1>0, RequestFacts DEF CreateJob, Request
<1> HIDE DEF x
<1>2. /\ req'[h].job = j /\ \A g \in Handlers \ {h} : req'[g] = req[g]
  BY <1>1, Served
<1>3. /\ lastJob' = j /\ j = lastJob + 1 /\ lastJob \in Nat
      /\ DOMAIN jobs' = DOMAIN jobs \cup {j} /\ j \notin DOMAIN jobs
      /\ \A k \in DOMAIN jobs : jobs'[k] = jobs[k]
      /\ Untouched(j)'
  BY <1>0 DEF CreateJob, create_job, Put, TypeInv, StoreInv, StoreTypeOK, JobId, Untouched
<1>4. UNCHANGED <<faults, succeededOnce, queue, tries>>
  BY DEF CreateJob, faultVars, arqVars
<1>5. /\ \A r \in Runners \ {h} : runs'[r] = runs[r]
      /\ IF SyncJobs THEN runs'[h].pc = "fetch" /\ runs'[h].job = j
                     ELSE runs'[h] = runs[h]
  <2>1. Called(j).pc = "fetch" /\ Called(j).job = j
    BY DEF Called, IdleRun
  <2>2. IF SyncJobs THEN Resume(h, Called(j)) ELSE UNCHANGED runs
    BY <1>0 DEF CreateJob
  <2> QED
    BY <2>1, <2>2, Resumed, IdFacts
<1>6. /\ tries[j] = 0 /\ j \notin succeededOnce
      /\ \A r \in Runners : runs[r].job # j
  <2>1. j > lastJob /\ j \notin 1..lastJob
    BY <1>3
  <2>2. tries[j] = 0 /\ \A w \in Workers : runs[w].job # j
    BY <2>1, <1>3, IdFacts DEF CustodyInv, TasksHaveIds, Holds
  <2>3. \A g \in Handlers : runs[g].job # j
    BY <2>1, IdFacts DEF CustodyInv, CreatorsAgree, Created, At
  <2> QED
    BY <2>1, <2>2, <2>3, IdFacts DEF FirstRunInv
<1>7. \A k \in DOMAIN jobs : /\ Untouched(k)' <=> Untouched(k)
                             /\ UnderWay(k)' <=> UnderWay(k)
  BY <1>3 DEF Untouched, UnderWay
<1>8. RunsAreCounted'
  BY <1>4, <1>5, <1>6, IdFacts DEF FirstRunInv, RunsAreCounted, FirstRun
<1>9. succeededOnce' \subseteq 1..lastJob'
  BY <1>3, <1>4 DEF FirstRunInv
<1>10. faults'["io"] = 0 => FirstRunsAgree'
  <2> SUFFICES ASSUME FirstRunsAgree PROVE FirstRunsAgree'
    BY <1>4 DEF FirstRunInv
  <2>1. \A k \in queue' \cap DOMAIN jobs' : tries'[k] = 0 => Untouched(k)'
    BY <1>3, <1>4, <1>7 DEF FirstRunsAgree
  <2>2. ASSUME NEW g \in Handlers PROVE RequestAgrees(g)'
    BY <1>2, <1>3, <1>7 DEF FirstRunsAgree, RequestAgrees, At
  <2>3. ASSUME NEW r \in Runners PROVE RunReady(runs'[r]) /\ RunAgrees(runs[r])'
    <3>1. CASE runs'[r] = runs[r]
      BY <1>3, <1>4, <1>6, <1>7, <3>1 DEF FirstRunsAgree, FirstRun, RunAgrees
    <3>2. CASE runs'[r].pc = "fetch" /\ runs'[r].job = j
      BY <1>3, <3>2 DEF RunReady, RunAgrees, Late, WithRow
    <3> QED
      BY <1>5, <3>1, <3>2
  <2>4. \A k \in succeededOnce' \cap DOMAIN jobs' :
           FirstRun(k)' => jobs'[k].status = "succeeded"
    BY <1>3, <1>4, <1>6 DEF FirstRunsAgree, FirstRun
  <2> QED
    BY <2>1, <2>2, <2>3, <2>4 DEF FirstRunsAgree
<1>11. RowsAreConsistent'
  BY <1>3, <1>4 DEF FirstRunInv, RowsAreConsistent, Untouched
<1> QED
  BY <1>8, <1>9, <1>10, <1>11 DEF FirstRunInv

(* A task that starts for the first time is about an untouched job.         *)
LEMMA StartKeepsFirstRuns ==
    ASSUME TypeInv, CustodyInv, FirstRunInv, NEW w \in Workers, NEW j \in JobId,
           Start(w, j), UNCHANGED req
    PROVE  FirstRunInv'
<1>1. /\ j \in queue /\ UNCHANGED <<jobs, lastJob, faults, succeededOnce, queue>>
      /\ tries[j] \in Nat /\ tries'[j] = tries[j] + 1
      /\ \A k \in JobId \ {j} : tries'[k] = tries[k]
      /\ j \in held[w]
  BY DEF Start, LeaveInQueue, storeVars, faultVars, TypeInv, ArqTypeOK
<1>2. /\ runs'[w].pc = "fetch" /\ runs'[w].job = j
      /\ \A q \in Runners \ {w} : runs'[q] = runs[q]
  <2>1. Called(j).pc = "fetch" /\ Called(j).job = j
    BY DEF Called, IdleRun
  <2>2. Resume(w, Called(j))
    BY DEF Start
  <2> QED
    BY <2>1, <2>2, Resumed, IdFacts
<1>3. \A k \in JobId : /\ tries[k] \in Nat
                       /\ FirstRun(k)' => FirstRun(k) /\ (k = j => tries[k] = 0)
                       /\ Untouched(k)' <=> Untouched(k)
                       /\ UnderWay(k)' <=> UnderWay(k)
  BY <1>1 DEF FirstRun, Untouched, UnderWay, TypeInv, ArqTypeOK
<1>4. \A q \in Runners : runs[q].job = j => tries[j] > 0
  <2>1. \A g \in Handlers : runs[g].job # j
    BY <1>1, IdFacts DEF CustodyInv, CreatorsAgree, Created, At, Holds
  <2> QED
    BY <2>1, IdFacts DEF FirstRunInv, RunsAreCounted
<1>5. RunsAreCounted'
  BY <1>1, <1>2, <1>3, <1>4, IdFacts DEF FirstRunInv, RunsAreCounted
<1>6. succeededOnce' \subseteq 1..lastJob'
  BY <1>1 DEF FirstRunInv
<1>7. faults'["io"] = 0 => FirstRunsAgree'
  <2> SUFFICES ASSUME FirstRunsAgree PROVE FirstRunsAgree'
    BY <1>1 DEF FirstRunInv
  <2>1. \A k \in queue' \cap DOMAIN jobs' : tries'[k] = 0 => Untouched(k)'
    BY <1>1, <1>3, JobFacts DEF FirstRunsAgree
  <2>2. ASSUME NEW g \in Handlers PROVE RequestAgrees(g)'
    BY <1>1, <1>3, JobFacts DEF FirstRunsAgree, RequestAgrees, At
  <2>3. ASSUME NEW r \in Runners PROVE RunReady(runs'[r]) /\ RunAgrees(runs[r])'
    <3>1. CASE r # w
      BY <1>1, <1>2, <1>3, <3>1, JobFacts DEF FirstRunsAgree, RunAgrees
    <3>2. CASE r = w
      BY <1>1, <1>2, <1>3, <3>2 DEF RunReady, RunAgrees, Late, WithRow, FirstRunsAgree
    <3> QED
      BY <3>1, <3>2
  <2>4. \A k \in succeededOnce' \cap DOMAIN jobs' :
           FirstRun(k)' => jobs'[k].status = "succeeded"
    BY <1>1, <1>3, JobFacts DEF FirstRunsAgree
  <2> QED
    BY <2>1, <2>2, <2>3, <2>4 DEF FirstRunsAgree
<1>8. RowsAreConsistent'
  <2>1. \A k \in DOMAIN jobs : tries'[k] <= 1 => tries[k] <= 1
    BY <1>3, JobFacts DEF FirstRun
  <2> QED
    BY <1>1, <2>1 DEF FirstRunInv, RowsAreConsistent
<1> QED
  BY <1>5, <1>6, <1>7, <1>8 DEF FirstRunInv

(* Runs that keep their jobs keep the counts.                               *)
LEMMA RunnerKeepsCounts ==
    ASSUME FirstRunInv, NEW r \in Runners, RunnerEffect(r)
    PROVE  RunsAreCounted'
<1>1. UNCHANGED tries /\ \A q \in Runners : runs'[q].job = runs[q].job
  BY DEF RunnerEffect
<1> QED
  BY <1>1 DEF FirstRunInv, RunsAreCounted, FirstRun

(* A job that is run for the first time is in no queue and no other request *)
(* unless a worker runs it.                                                 *)
LEMMA RunnerAlone ==
    ASSUME CustodyInv, FirstRunInv, NEW r \in Runners, runs[r].job \in JobId
    PROVE  /\ runs[r].job \in queue => tries[runs[r].job] # 0
           /\ \A h \in Handlers : At(h, "enqueue") => req[h].job # runs[r].job
<1> DEFINE j == runs[r].job
<1>1. CASE r \in Workers
  <2>1. tries[j] > 0 /\ Holds(r, j)
    BY <1>1 DEF FirstRunInv, RunsAreCounted, Holds
  <2> QED
    BY <1>1, <2>1 DEF CustodyInv, CreatorsAgree, Created, At
<1>2. CASE r \in Handlers
  <2>1. Created(r, j) /\ At(r, "sync")
    BY <1>2, IdFacts DEF CustodyInv, CreatorsAgree, Created, At
  <2> QED
    BY <1>2, <2>1 DEF CustodyInv, CreatorsAgree, Created, At
<1> QED
  BY <1>1, <1>2, IdFacts

(* A call that gets through begins and ends first runs in order.            *)
LEMMA ProcessJobKeepsFirstRuns ==
    ASSUME TypeInv, TenancyInv, CustodyInv, FirstRunInv, NEW r \in Runners, ProcessJob(r)
    PROVE  FirstRunInv'
<1>0. RunnerEffect(r)
  BY RunnerStepEffect
<1>1. PICK j \in JobId : j = runs[r].job
  BY <1>0, RunFacts DEF RunnerEffect, RunTyped
<1>2. /\ UNCHANGED <<req, queue, tries, lastJob>>
      /\ \A q \in Runners \ {r} : runs'[q] = runs[q]
      /\ runs'[r].job = j /\ DOMAIN jobs' = DOMAIN jobs
      /\ \A k \in DOMAIN jobs : k # j => jobs'[k] = jobs[k]
  BY <1>0, <1>1 DEF RunnerEffect
<1>3. /\ RowStays(r) \/ RowBegun(r) \/ RowEnded(r)
      /\ RunReady(runs'[r]) /\ UNCHANGED faults
  BY RunnerRowEffect
<1>4. /\ j \in queue => tries[j] # 0
      /\ \A h \in Handlers : At(h, "enqueue") => req[h].job # j
      /\ \A q \in Runners : runs[q].job = j /\ FirstRun(j) => q = r
  BY <1>1, RunnerAlone DEF FirstRunInv, RunsAreCounted
<1>5. \A k \in DOMAIN jobs : k # j => /\ Untouched(k)' <=> Untouched(k)
                                      /\ UnderWay(k)' <=> UnderWay(k)
  BY <1>2 DEF Untouched, UnderWay
<1>6. \A k : FirstRun(k)' <=> FirstRun(k)
  BY <1>2 DEF FirstRun
<1>7. succeededOnce' \subseteq 1..lastJob'
  BY <1>1, <1>2, <1>3 DEF RowStays, RowBegun, RowEnded, FirstRunInv, TypeInv, StoreInv,
                          StoreTypeOK
<1>8. ASSUME faults["io"] = 0, FirstRunsAgree, j \in DOMAIN jobs, FirstRun(j)
      PROVE  /\ RowBegun(r) => Untouched(j) /\ UnderWay(j)'
             /\ RowEnded(r) => /\ UnderWay(j) /\ jobs'[j].status \in Terminal
                               /\ jobs'[j].error # "none" <=> jobs'[j].status = "failed"
                               /\ jobs'[j].result_summary # None
                                     <=> jobs'[j].status = "succeeded"
                               /\ j \in succeededOnce' => jobs'[j].status = "succeeded"
             /\ j \in succeededOnce => jobs[j].status = "succeeded"
  <2>1. RunReady(runs[r]) /\ RunAgrees(runs[r])
    BY <1>8 DEF FirstRunsAgree
  <2>2. j \in succeededOnce => jobs[j].status = "succeeded"
    BY <1>8 DEF FirstRunsAgree
  <2>3. ASSUME RowBegun(r) PROVE Untouched(j) /\ UnderWay(j)'
    BY <1>1, <1>8, <2>1, <2>3
       DEF RowBegun, RunAgrees, Early, Untouched, UnderWay, Written
  <2>4. ASSUME RowEnded(r)
        PROVE  /\ UnderWay(j) /\ jobs'[j].status \in Terminal
               /\ jobs'[j].error # "none" <=> jobs'[j].status = "failed"
               /\ jobs'[j].result_summary # None <=> jobs'[j].status = "succeeded"
               /\ j \in succeededOnce' => jobs'[j].status = "succeeded"
    <3>1. UnderWay(j)
      BY <1>1, <1>8, <2>1, <2>4 DEF RowEnded, RunAgrees, Late, WithRow
    <3> QED
      BY <1>1, <2>1, <2>2, <2>4, <3>1 DEF RowEnded, RunReady, UnderWay, Written, Terminal
  <2> QED
    BY <2>2, <2>3, <2>4
<1>9. faults'["io"] = 0 => FirstRunsAgree'
  <2> SUFFICES ASSUME faults["io"] = 0, FirstRunsAgree PROVE FirstRunsAgree'
    BY <1>3 DEF FirstRunInv
  <2>1. \A k \in queue' \cap DOMAIN jobs' : tries'[k] = 0 => Untouched(k)'
    BY <1>2, <1>4, <1>5 DEF FirstRunsAgree
  <2>2. ASSUME NEW h \in Handlers PROVE RequestAgrees(h)'
    BY <1>2, <1>4, <1>5 DEF FirstRunsAgree, RequestAgrees, At
  <2>3. ASSUME NEW q \in Runners PROVE RunReady(runs'[q]) /\ RunAgrees(runs[q])'
    <3>1. CASE q # r
      <4>1. runs'[q] = runs[q] /\ (FirstRun(runs[q].job) => runs[q].job # j)
        BY <1>2, <1>4, <3>1
      <4> QED
        BY <1>2, <1>5, <1>6, <4>1 DEF FirstRunsAgree, RunAgrees
    <3>2. CASE q = r
      <4> SUFFICES ASSUME j \in DOMAIN jobs, FirstRun(j)
                   PROVE  /\ runs'[r].pc \in Early => Untouched(j)'
                          /\ runs'[r].pc \in Late => UnderWay(j)'
        BY <1>2, <1>3, <1>6, <3>2 DEF RunAgrees
      <4>1. CASE RowStays(r)
        BY <1>1, <4>1 DEF RowStays, FirstRunsAgree, RunAgrees, Untouched, UnderWay
      <4>2. CASE RowBegun(r)
        BY <1>8, <4>2 DEF RowBegun, Early, Late, WithRow
      <4>3. CASE RowEnded(r)
        BY <4>3 DEF RowEnded
      <4> QED
        BY <1>3, <4>1, <4>2, <4>3
    <3> QED
      BY <3>1, <3>2
  <2>4. ASSUME NEW k \in succeededOnce' \cap DOMAIN jobs', FirstRun(k)
        PROVE  jobs'[k].status = "succeeded"
    <3>1. CASE k # j
      BY <1>1, <1>2, <1>3, <2>4, <3>1 DEF RowStays, RowBegun, RowEnded, FirstRunsAgree
    <3>2. CASE k = j
      <4>1. CASE RowStays(r)
        BY <2>4, <4>1 DEF RowStays, FirstRunsAgree
      <4>2. CASE RowBegun(r)
        BY <1>2, <1>8, <2>4, <3>2, <4>2 DEF RowBegun, Untouched
      <4>3. CASE RowEnded(r)
        BY <1>2, <1>8, <2>4, <3>2, <4>3
      <4> QED
        BY <1>3, <4>1, <4>2, <4>3
    <3> QED
      BY <3>1, <3>2
  <2> QED
    BY <1>6, <2>1, <2>2, <2>3, <2>4 DEF FirstRunsAgree
<1>10. RowsAreConsistent'
  <2> SUFFICES ASSUME faults["io"] = 0, FirstRunsAgree, NEW k \in DOMAIN jobs, FirstRun(k)
               PROVE  /\ jobs'[k].error # "none" <=> jobs'[k].status = "failed"
                      /\ jobs'[k].result_summary # None <=> jobs'[k].status = "succeeded"
    BY <1>2, <1>3, <1>6 DEF RowsAreConsistent, FirstRun, FirstRunInv
  <2>1. CASE k # j \/ RowStays(r)
    BY <1>2, <2>1 DEF RowStays, FirstRunInv, RowsAreConsistent, FirstRun
  <2>2. CASE k = j /\ RowBegun(r)
    BY <1>8, <2>2 DEF UnderWay
  <2>3. CASE k = j /\ RowEnded(r)
    BY <1>8, <2>3
  <2> QED
    BY <1>3, <2>1, <2>2, <2>3
<1> QED
  BY <1>0, <1>7, <1>9, <1>10, RunnerKeepsCounts DEF FirstRunInv

(* After a call that raised, only the counts are relied on.                 *)
LEMMA CallRaisesKeepsFirstRuns ==
    ASSUME TypeInv, FirstRunInv, NEW r \in Runners, CallRaises(r)
    PROVE  FirstRunInv'
<1>1. faults'["io"] # 0
  BY DEF CallRaises, CallFails, AnswerLost, Spend, TypeInv, FaultTypeOK, FaultKinds
<1>2. \/ UNCHANGED succeededOnce
      \/ RowThere(r) /\ succeededOnce' = succeededOnce \cup {runs[r].job}
  <2>1. CallFails(r) => UNCHANGED succeededOnce
    BY DEF CallFails
  <2>2. AnswerLost(r) => \/ UNCHANGED succeededOnce
                         \/ RowThere(r) /\ WriteSucceeded(r)
    BY DEF AnswerLost
  <2>3. WriteSucceeded(r) => succeededOnce' = succeededOnce \cup {runs[r].job}
    BY DEF WriteSucceeded
  <2>4. CallFails(r) \/ AnswerLost(r)
    BY DEF CallRaises
  <2> QED
    BY <2>1, <2>2, <2>3, <2>4
<1>3. UNCHANGED lastJob /\ DOMAIN jobs \subseteq 1..lastJob
  BY DEF CallRaises, CallFails, AnswerLost, storeVars, TypeInv, StoreInv, StoreTypeOK
<1>4. succeededOnce' \subseteq 1..lastJob'
  BY <1>2, <1>3 DEF RowThere, HasJob, FirstRunInv
<1> QED
  BY <1>1, <1>4, CallRaisesEffect, RunnerKeepsCounts DEF FirstRunInv, RowsAreConsistent

(* At the start nothing runs.                                               *)
LEMMA InitFirstRuns == Init => FirstRunInv
  BY IdFacts
     DEF Init, StoreInit, FaultInit, RunnerInit, ArqInit, RequestInit, IdleRequest, IdleRun,
         FirstRunInv, RunsAreCounted, FirstRunsAgree, RequestAgrees, RunReady, RunAgrees,
         RowsAreConsistent, At, Early, Late, WithRow

(* What a first run relies on, it can rely on throughout.                   *)
THEOREM FirstRunInvariant == Spec => []FirstRunInv
<1>1. /\ TypeInv /\ TypeInv' /\ TenancyInv /\ CustodyInv /\ FirstRunInv /\ [Next]_vars
      => FirstRunInv'
  <2> SUFFICES ASSUME TypeInv, TypeInv', TenancyInv, CustodyInv, FirstRunInv, [Next]_vars
               PROVE  FirstRunInv'
    OBVIOUS
  <2>1. CASE Quiet
    BY <2>1, QuietKeepsFirstRuns
  <2>2. ASSUME NEW h \in Handlers, CreateJob(h) PROVE FirstRunInv'
    BY <2>2, CreateJobKeepsFirstRuns
  <2>3. ASSUME NEW r \in Runners, ProcessJob(r) \/ CallRaises(r) PROVE FirstRunInv'
    BY <2>3, ProcessJobKeepsFirstRuns, CallRaisesKeepsFirstRuns
  <2>4. ASSUME NEW w \in Workers, NEW j \in JobId, Start(w, j), UNCHANGED req
        PROVE  FirstRunInv'
    BY <2>4, StartKeepsFirstRuns
  <2> HIDE DEF Quiet
  <2>5. Quiet \/ (\E h \in Handlers : CreateJob(h))
        \/ (\E r \in Runners : ProcessJob(r) \/ CallRaises(r))
        \/ (\E w \in Workers, j \in JobId : Start(w, j) /\ UNCHANGED req)
    BY CustodySteps, QuietSteps DEF ArqStep
  <2> QED
    BY <2>1, <2>2, <2>3, <2>4, <2>5
<1> QED
  BY <1>1, InitFirstRuns, LocalTypesCorrect, TenancyInvariant, CustodyInvariant, PTL
     DEF Spec

(* A row is only half written while its job runs again or after an answer   *)
(* was lost (app/worker.py, process_job).                                   *)
THEOREM RowsConsistent == Spec => []RowsAreConsistent
  BY FirstRunInvariant, PTL DEF FirstRunInv

(* A settled job is only touched by a run that is not its first, or after   *)
(* an answer was lost (app/worker.py, process_job).                         *)
THEOREM SettledJobsRemain == Spec => SettledJobsStay
<1> DEFINE Touches == \E j \in DOMAIN jobs \cap DOMAIN jobs' :
              /\ jobs[j].status \in Terminal /\ jobs'[j] # jobs[j]
              /\ ~(tries[j] > 1 \/ faults["io"] > 0)
<1>1. /\ TypeInv /\ TypeInv' /\ TenancyInv /\ CustodyInv /\ FirstRunInv /\ [Next]_vars
      => ~Touches
  <2> SUFFICES ASSUME TypeInv, TypeInv', TenancyInv, CustodyInv, FirstRunInv, [Next]_vars,
                      NEW j \in DOMAIN jobs, j \in DOMAIN jobs', jobs'[j] # jobs[j],
                      jobs[j].status \in Terminal, tries[j] <= 1, faults["io"] = 0
               PROVE  FALSE
    BY JobFacts DEF TypeInv, ArqTypeOK, FaultTypeOK, FaultKinds
  <2>1. JobsStay => FALSE
    BY DEF JobsStay
  <2>2. ASSUME NEW h \in Handlers, CreateJob(h) PROVE FALSE
    <3>1. j # lastJob + 1
      BY DEF TypeInv, StoreInv, StoreTypeOK
    <3>2. j \in DOMAIN jobs \cup {lastJob + 1} => jobs'[j] = jobs[j]
      BY <2>2, <3>1 DEF CreateJob, create_job, Put
    <3> QED
      BY <3>2
  <2>3. ASSUME NEW r \in Runners, ProcessJob(r) \/ CallRaises(r) PROVE FALSE
    <3>1. j = runs[r].job
      BY <2>3, RunnerStepEffect, CallRaisesEffect DEF RunnerEffect
    <3>2. runs[r].pc \in Early \cup Late
      BY <2>3
      DEF ProcessJob, RunnerStep, Fetch, MarkRunning, Load, Compute, UploadArtifact,
          MarkSucceeded, MarkFailed, CallRaises, CallFails, AnswerLost, RaiseOrCatch,
          InTry, OutsideTry, Early, Late, WithRow
    <3> QED
      BY <3>1, <3>2
      DEF FirstRunInv, FirstRunsAgree, RunAgrees, FirstRun, Untouched, UnderWay, Terminal
  <2>4. Quiet => JobsStay
    BY DEF Quiet
  <2>5. ASSUME NEW w \in Workers, NEW k \in JobId, Start(w, k) PROVE JobsStay
    BY <2>5 DEF Start, storeVars, JobsStay
  <2> HIDE DEF Quiet
  <2> QED
    BY <2>1, <2>2, <2>3, <2>4, <2>5, CustodySteps, QuietSteps DEF ArqStep
<1>2. ~Touches => [\A j \in DOMAIN jobs \cap DOMAIN jobs' :
                      jobs[j].status \in Terminal /\ jobs'[j] # jobs[j]
                         => tries[j] > 1 \/ faults["io"] > 0]_vars
  OBVIOUS
<1> QED
  BY <1>1, <1>2, LocalTypesCorrect, TenancyInvariant, CustodyInvariant, FirstRunInvariant,
     PTL DEF Spec, SettledJobsStay

(* A run in a request that is done leaves its job settled.                  *)
LEMMA DoneStaysSettled ==
    ASSUME TypeInv, TypeInv', TenancyInv, CustodyInv, DoneIsSettled, [Next]_vars
    PROVE  DoneIsSettled'
<1>1. CASE Quiet
  BY <1>1, IdFacts DEF Quiet, JobsStay, DoneIsSettled
<1>2. ASSUME NEW h \in Handlers, CreateJob(h) PROVE DoneIsSettled'
  <2>1. \A k \in DOMAIN jobs : jobs'[k] = jobs[k]
    BY <1>2, CreateJobRows
  <2>2. DOMAIN jobs' = DOMAIN jobs \cup {lastJob + 1} /\ lastJob \in Nat
    BY <1>2, CreateJobRows
  <2>3. \A g \in Handlers : runs'[g] = runs[g] \/ runs'[g].pc # "done"
    <3>1. Called(lastJob + 1).pc = "fetch"
      BY DEF Called, IdleRun
    <3>2. UNCHANGED runs \/ Resume(h, Called(lastJob + 1))
      BY <1>2 DEF CreateJob
    <3> QED
      BY <3>1, <3>2, Resumed, IdFacts
  <2>4. \A g \in Handlers : runs[g].job # lastJob + 1
    <3>1. \A k \in JobId : k \in 1..lastJob => k # lastJob + 1
      BY <2>2
    <3> QED
      BY <3>1, <2>2, IdFacts, RunFacts DEF CustodyInv, CreatorsAgree, Created, At, Run
  <2> QED
    BY <2>1, <2>2, <2>3, <2>4 DEF DoneIsSettled
<1>3. ASSUME NEW r \in Runners, ProcessJob(r) \/ CallRaises(r) PROVE DoneIsSettled'
  <2>1. RunnerEffect(r)
    BY <1>3, RunnerStepEffect, CallRaisesEffect
  <2>2. PICK j \in JobId : j = runs[r].job
    BY <2>1, RunFacts DEF RunnerEffect, RunTyped
  <2>3. /\ \A q \in Runners \ {r} : runs'[q] = runs[q]
        /\ runs'[r].job = j /\ DOMAIN jobs' = DOMAIN jobs
        /\ \A k \in DOMAIN jobs : k # j => jobs'[k] = jobs[k]
    BY <2>1, <2>2 DEF RunnerEffect
  <2>4. j \in DOMAIN jobs /\ runs'[r].pc = "done" => jobs'[j].status \in Terminal
    <3>1. CASE ProcessJob(r)
      BY <2>2, <3>1, RunnerRowEffect
         DEF RowStays, RowBegun, RowEnded, Written, Late, WithRow, Terminal
    <3>2. CASE CallRaises(r)
      <4>1. RaiseOrCatch(r)
        BY <3>2 DEF CallRaises, CallFails, AnswerLost
      <4> QED
        BY <4>1, GotoKeepsJob DEF RaiseOrCatch
    <3> QED
      BY <1>3, <3>1, <3>2
  <2>5. \A h \in Handlers : runs[h].job = j => h = r
    <3>1. \A h \in Handlers : runs[h].job = j => Created(h, j)
      BY IdFacts DEF CustodyInv, CreatorsAgree, Created, At
    <3>2. r \in Workers => Holds(r, j)
      BY <2>2 DEF Holds
    <3> QED
      BY <2>2, <3>1, <3>2, IdFacts DEF CustodyInv, CreatorsAgree
  <2>6. ASSUME NEW h \in Handlers, runs'[h].pc = "done", runs'[h].job \in DOMAIN jobs'
        PROVE  jobs'[runs'[h].job].status \in Terminal
    BY <2>3, <2>4, <2>5, <2>6, IdFacts DEF DoneIsSettled
  <2> QED
    BY <2>6 DEF DoneIsSettled
<1>4. ASSUME NEW w \in Workers, NEW k \in JobId, Start(w, k) PROVE DoneIsSettled'
  <2>1. UNCHANGED jobs /\ Resume(w, Called(k))
    BY <1>4 DEF Start, storeVars
  <2>2. \A h \in Handlers : runs'[h] = runs[h]
    BY <2>1, Resumed, IdFacts
  <2> QED
    BY <2>1, <2>2 DEF DoneIsSettled
<1> HIDE DEF Quiet
<1> QED
  BY <1>1, <1>2, <1>3, <1>4, CustodySteps, QuietSteps DEF ArqStep

(* When a request that ran its job itself returns, the job is settled, if   *)
(* it is still there, whatever failed in it (app/run_helpers.py, SYNC_JOBS).*)
THEOREM SyncRunsReturnSettled == Spec => SyncRunsReturnSettledJobs
<1>1. Init => DoneIsSettled
  BY IdFacts DEF Init, RunnerInit, IdleRun, DoneIsSettled
<1>2. /\ TypeInv /\ TypeInv' /\ TenancyInv /\ CustodyInv /\ DoneIsSettled /\ [Next]_vars
      => DoneIsSettled'
  BY DoneStaysSettled
<1>3. TypeInv /\ CustodyInv /\ DoneIsSettled =>
         \A h \in Handlers :
            SyncReturn(h) /\ req[h].job \in DOMAIN jobs =>
                jobs[req[h].job].status \in Terminal
  BY DEF SyncReturn, CustodyInv, CreatorsAgree, DoneIsSettled
<1> QED
  BY <1>1, <1>2, <1>3, LocalTypesCorrect, TenancyInvariant, CustodyInvariant, PTL
     DEF Spec, SyncRunsReturnSettledJobs

(* A run that is asked for again finds the job that has succeeded, with the *)
(* same two exceptions (app/run_helpers.py, _find_existing_job).            *)
THEOREM RerunsFind == Spec => RerunsFindTheFirstJob
<1>1. TypeInv /\ FirstRunInv /\ [Next]_vars =>
         \A h \in Handlers :
            FindExisting(h) /\ req'[h].pc = "create" =>
               \A j \in succeededOnce \cap DOMAIN jobs :
                  [org |-> jobs[j].org_id, ds |-> jobs[j].dataset_id,
                   module |-> jobs[j].module, params |-> jobs[j].params]
                  = [org |-> req[h].org, ds |-> req[h].ds,
                     module |-> req[h].module, params |-> req[h].params]
                  => tries[j] > 1 \/ faults["io"] > 0
  <2> SUFFICES ASSUME TypeInv, FirstRunInv, NEW h \in Handlers, FindExisting(h),
                      req'[h].pc = "create", NEW j \in succeededOnce \cap DOMAIN jobs,
                      jobs[j].org_id = req[h].org, jobs[j].dataset_id = req[h].ds,
                      jobs[j].module = req[h].module, jobs[j].params = req[h].params,
                      tries[j] <= 1, faults["io"] = 0
               PROVE  FALSE
    BY JobFacts DEF TypeInv, ArqTypeOK, FaultTypeOK, FaultKinds
  <2>1. jobs[j].status = "succeeded"
    BY DEF FirstRunInv, FirstRunsAgree, FirstRun
  <2>2. j \in SucceededJobs(req[h].org, req[h].ds, req[h].module, req[h].params)
    BY <2>1 DEF SucceededJobs
  <2>3. Respond(h)
    BY <2>2 DEF FindExisting
  <2> QED
    BY <2>3, Served DEF Respond, IdleRequest
<1> QED
  BY <1>1, LocalTypesCorrect, FirstRunInvariant, PTL DEF Spec, RerunsFindTheFirstJob

----------------------------------------------------------------------------
(* Without crashes and overruns every run is a first run.                   *)

(* A step has at most one fault.                                            *)
LEMMA FaultSteps ==
    ASSUME [Next]_vars
    PROVE  UNCHANGED faults \/ \E k \in FaultKinds : Spend(k)
<1>1. ASSUME NEW h \in Handlers, NewRequest(h) \/ DatasetStep(h) \/ RunStep(h)
      PROVE  UNCHANGED faults
  BY <1>1
  DEF NewRequest, DatasetRequest, UploadDataset, DeleteDataset, GetRows, RunRequest, RunModule,
      DatasetStep, PutRaw, MarkInvalid, PutParquet, MarkReady, Settle, RemoveObjects,
      DeleteRow, ReadRows, RunStep, FindExisting, CreateJob, CreateRejected, Enqueue,
      SyncReturn, SyncRaise, runnerVars, faultVars
<1>2. ASSUME NEW h \in Handlers, RequestDies(h) PROVE Spend("request")
  BY <1>2 DEF RequestDies, DatasetRequestDies, RunRequestDies
<1>3. ASSUME NEW r \in Runners, ProcessJob(r) PROVE UNCHANGED faults
  BY <1>3 DEF ProcessJob, RunnerStep, Fetch, MarkRunning, Load, Compute, UploadArtifact,
              MarkSucceeded, MarkFailed, faultVars
<1>4. ASSUME NEW r \in Runners, CallRaises(r) PROVE Spend("io")
  BY <1>4 DEF CallRaises, CallFails, AnswerLost
<1>5. ASSUME NEW w \in Workers, Finish(w) \/ WorkerCrash(w)
      PROVE  UNCHANGED faults \/ Spend("worker")
  BY <1>5 DEF Finish, WorkerCrash, faultVars
<1>6. ASSUME NEW w \in Workers, NEW j \in JobId, ArqStep(w, j) PROVE UNCHANGED faults
  BY <1>6 DEF ArqStep, Claim, Start, Discard, runnerVars, faultVars
<1>7. ASSUME NEW j \in JobId, LeaseExpires(j) \/ LeaseOverrun(j)
      PROVE  UNCHANGED faults \/ Spend("lease")
  BY <1>7 DEF LeaseExpires, LeaseOverrun, runnerVars, faultVars
<1>8. CASE UNCHANGED vars
  BY <1>8 DEF vars, faultVars
<1> QED
  BY <1>1, <1>2, <1>3, <1>4, <1>5, <1>6, <1>7, <1>8 DEF Next, HandlerStep, FaultKinds

(* Faults are counted up to their budgets, and never forgotten.             *)
LEMMA FaultsStayBounded ==
    ASSUME TypeInv, RunOnceInv, [Next]_vars
    PROVE  \A k \in FaultKinds : /\ faults'[k] <= Budget[k]
                                 /\ faults'[k] = 0 => faults[k] = 0
<1>1. faults \in [FaultKinds -> Nat] /\ Budget \in [FaultKinds -> Nat]
  BY BudgetAssumption DEF TypeInv, FaultTypeOK
<1>2. CASE UNCHANGED faults
  BY <1>2 DEF RunOnceInv
<1>3. ASSUME NEW k \in FaultKinds, Spend(k)
      PROVE  \A i \in FaultKinds : /\ faults'[i] <= Budget[i]
                                   /\ faults'[i] = 0 => faults[i] = 0
  <2>1. faults[k] < Budget[k] /\ faults' = [faults EXCEPT ![k] = @ + 1]
    BY <1>3 DEF Spend
  <2>2. ASSUME NEW i \in FaultKinds, i # k PROVE faults'[i] = faults[i]
    BY <1>1, <2>1, <2>2
  <2>3. faults'[k] = faults[k] + 1 /\ faults[k] \in Nat /\ Budget[k] \in Nat
    BY <1>1, <2>1
  <2> QED
    BY <2>1, <2>2, <2>3 DEF RunOnceInv
<1> QED
  BY <1>2, <1>3, FaultSteps

(* A step of the service that is none of arq's leaves its tasks alone.      *)
TasksStay ==
    /\ UNCHANGED <<queue, leases, tries, held>>
    /\ \A w \in Workers : runs'[w].job = runs[w].job

(* Nothing is claimed, started or finished then.                            *)
LEMMA TasksStayOnce ==
    ASSUME TasksRunOnce, TasksStay
    PROVE  TasksRunOnce'
  BY DEF TasksRunOnce, TasksStay, FirstRun, Holds

(* Without those two faults, tasks are claimed, started and finished once.  *)
LEMMA TasksStayRunOnce ==
    ASSUME TypeInv, TenancyInv, CustodyInv, RunOnceInv, [Next]_vars,
           faults'["worker"] = 0, faults'["lease"] = 0
    PROVE  TasksRunOnce'
<1>1. faults["worker"] = 0 /\ faults["lease"] = 0 /\ TasksRunOnce
  BY FaultsStayBounded DEF FaultKinds, RunOnceInv
<1>2. HoldersAgree /\ CreatorsAgree
  BY <1>1 DEF CustodyInv
<1>3. CASE Aside
  BY <1>1, <1>3, TasksStayOnce DEF Aside, TasksStay
<1>4. ASSUME NEW h \in Handlers, CreateJob(h) \/ SyncEnd(h) PROVE TasksRunOnce'
  <2>1. UNCHANGED <<queue, leases, tries, held>>
    BY <1>4 DEF CreateJob, SyncEnd, SyncReturn, SyncRaise, RunRequestDies, arqVars
  <2>2. UNCHANGED runs \/ (\E x : Resume(h, x))
    BY <1>4 DEF CreateJob, SyncEnd, SyncReturn, SyncRaise, RunRequestDies
  <2>3. \A w \in Workers : runs'[w].job = runs[w].job
    BY <2>2, Resumed, IdFacts
  <2> QED
    BY <1>1, <2>1, <2>3, TasksStayOnce DEF TasksStay
<1>5. ASSUME NEW h \in Handlers, Enqueue(h) PROVE TasksRunOnce'
  <2>1. PICK j \in JobId : j = req[h].job
    BY <1>5, RequestFacts DEF Enqueue, At, RequestTyped
  <2>2. tries[j] = 0
    BY <1>2, <1>5, <2>1 DEF Enqueue, At, CreatorsAgree, Created
  <2>3. queue' = queue \cup {j} /\ UNCHANGED <<leases, tries, held, runs>>
    BY <1>5, <2>1 DEF Enqueue, enqueue_module_job, runnerVars
  <2> QED
    BY <1>1, <2>2, <2>3 DEF TasksRunOnce, FirstRun, Holds
<1>6. ASSUME NEW r \in Runners, ProcessJob(r) \/ CallRaises(r) PROVE TasksRunOnce'
  <2>1. RunnerEffect(r)
    BY <1>6, RunnerStepEffect, CallRaisesEffect
  <2> QED
    BY <1>1, <2>1, TasksStayOnce, IdFacts DEF RunnerEffect, TasksStay
<1>7. ASSUME NEW w \in Workers, Finish(w) PROVE TasksRunOnce'
  <2>1. PICK j \in JobId : j = runs[w].job
    BY <1>7, RunFacts, IdFacts DEF Finish, RunTyped
  <2>2. /\ queue' = queue \ {j} /\ leases' = leases \ {j} /\ UNCHANGED <<tries, held>>
        /\ Resume(w, IdleRun)
    BY <1>7, <2>1 DEF Finish
  <2>3. \A v \in Workers \ {w} : runs'[v] = runs[v]
    BY <2>2, FreedFacts, IdFacts
  <2>4. \A k \in leases' : \E v \in Workers : Holds(v, k)'
    <3> SUFFICES ASSUME NEW k \in leases, k # j PROVE \E v \in Workers : Holds(v, k)'
      BY <2>2
    <3>1. PICK v \in Workers : Holds(v, k)
      BY <1>1 DEF TasksRunOnce
    <3>2. Holds(v, k)'
      BY <2>1, <2>2, <2>3, <3>1 DEF Holds
    <3> QED
      BY <3>2
  <2> QED
    BY <1>1, <2>2, <2>4 DEF TasksRunOnce, FirstRun
<1>8. ASSUME NEW w \in Workers, WorkerCrash(w) PROVE FALSE
  BY <1>8 DEF WorkerCrash, Spend, TypeInv, FaultTypeOK, FaultKinds
<1>9. ASSUME NEW w \in Workers, NEW j \in JobId, Claim(w, j) PROVE TasksRunOnce'
  <2>1. /\ j \in queue \ leases /\ leases' = leases \cup {j} /\ UNCHANGED <<runs, queue, tries>>
        /\ held'[w] = held[w] \cup {j} /\ \A v \in Workers \ {w} : held'[v] = held[v]
    BY <1>9 DEF Claim, Claimable, runnerVars, TypeInv, ArqTypeOK
  <2>2. \A v \in Workers : \A k : Holds(v, k) => Holds(v, k)'
    BY <2>1 DEF Holds
  <2>3. Holds(w, j)' /\ tries[j] = 0
    BY <1>1, <2>1 DEF Holds, TasksRunOnce
  <2> QED
    BY <1>1, <2>1, <2>2, <2>3 DEF TasksRunOnce, FirstRun
<1>10. ASSUME NEW w \in Workers, NEW j \in JobId, Start(w, j) PROVE TasksRunOnce'
  <2>1. /\ j \in held[w] /\ runs[w].pc = "idle" /\ UNCHANGED <<queue, leases>>
        /\ held'[w] = held[w] \ {j} /\ \A v \in Workers \ {w} : held'[v] = held[v]
        /\ tries'[j] = tries[j] + 1 /\ \A k \in JobId \ {j} : tries'[k] = tries[k]
    BY <1>10 DEF Start, LeaveInQueue, TypeInv, ArqTypeOK
  <2>2. /\ runs'[w].job = j /\ \A v \in Workers \ {w} : runs'[v] = runs[v]
    <3>1. Called(j).job = j
      BY DEF Called, IdleRun
    <3>2. Resume(w, Called(j))
      BY <1>10 DEF Start
    <3> QED
      BY <3>1, <3>2, Resumed, IdFacts
  <2>3. tries[j] = 0 /\ j \in leases /\ runs[w].job = 0
    BY <1>1, <1>2, <2>1, IdFacts DEF TasksRunOnce, HoldersAgree, CreatorsAgree, Holds
  <2>4. \A v \in Workers : j \notin held'[v]
    BY <1>2, <2>1 DEF HoldersAgree, Holds
  <2>5. \A k \in leases' : \E v \in Workers : Holds(v, k)'
    <3> SUFFICES ASSUME NEW k \in leases PROVE \E v \in Workers : Holds(v, k)'
      BY <2>1
    <3>1. PICK v \in Workers : Holds(v, k)
      BY <1>1 DEF TasksRunOnce
    <3>2. k \in JobId
      BY DEF TypeInv, ArqTypeOK
    <3>3. Holds(v, k)'
      BY <2>1, <2>2, <2>3, <3>1, <3>2, IdFacts DEF Holds
    <3> QED
      BY <3>3
  <2>6. \A k \in JobId : FirstRun(k)'
    BY <1>1, <2>1, <2>3 DEF TasksRunOnce, FirstRun
  <2> QED
    BY <1>1, <2>1, <2>3, <2>4, <2>5, <2>6 DEF TasksRunOnce
<1>11. ASSUME NEW w \in Workers, NEW j \in JobId, Discard(w, j) PROVE TasksRunOnce'
  <2>1. /\ queue' = queue \ {j} /\ leases' = leases \ {j} /\ UNCHANGED <<runs, tries>>
        /\ held'[w] = held[w] \ {j} /\ \A v \in Workers \ {w} : held'[v] = held[v]
    BY <1>11 DEF Discard, Drop, TypeInv, ArqTypeOK
  <2>2. \A v \in Workers : \A k : Holds(v, k) /\ k # j => Holds(v, k)'
    BY <2>1 DEF Holds
  <2> QED
    BY <1>1, <2>1, <2>2 DEF TasksRunOnce, FirstRun
<1>12. ASSUME NEW j \in JobId, LeaseExpires(j) \/ LeaseOverrun(j) PROVE FALSE
  <2>1. ~Spend("lease")
    BY DEF Spend, TypeInv, FaultTypeOK, FaultKinds
  <2> QED
    BY <1>1, <1>12, <2>1 DEF LeaseExpires, LeaseOverrun, TasksRunOnce
<1> QED
  BY <1>3, <1>4, <1>5, <1>6, <1>7, <1>8, <1>9, <1>10, <1>11, <1>12, CustodySteps DEF ArqStep

(* At the start there are no tasks.                                         *)
LEMMA InitRunOnce == Init => RunOnceInv
  BY BudgetAssumption
     DEF Init, FaultInit, ArqInit, RunOnceInv, TasksRunOnce, FirstRun

(* Tasks run once throughout, as long as there is no crash and no overrun.  *)
THEOREM RunOnceInvariant == Spec => []RunOnceInv
<1>1. TypeInv /\ TenancyInv /\ CustodyInv /\ RunOnceInv /\ [Next]_vars => RunOnceInv'
  BY FaultsStayBounded, TasksStayRunOnce DEF RunOnceInv
<1> QED
  BY <1>1, InitRunOnce, LocalTypesCorrect, TenancyInvariant, CustodyInvariant, PTL DEF Spec

----------------------------------------------------------------------------
(* The life cycle.                                                          *)

(* What is lost stays lost.                                                 *)
LEMMA CasualtiesStay ==
    ASSUME TypeInv, TenancyInv, [Next]_vars
    PROVE  casualties \subseteq casualties'
<1>1. Aside => casualties \subseteq casualties'
  BY DEF Aside, FaultsStay
<1>2. ASSUME NEW h \in Handlers, CreateJob(h) \/ Enqueue(h) \/ SyncEnd(h)
      PROVE  casualties \subseteq casualties'
  BY <1>2 DEF CreateJob, Enqueue, SyncEnd, SyncReturn, SyncRaise, RunRequestDies, runnerVars,
              faultVars
<1>3. ASSUME NEW r \in Runners, ProcessJob(r) \/ CallRaises(r)
      PROVE  casualties \subseteq casualties'
  BY <1>3, RunnerStepEffect, CallRaisesEffect DEF RunnerEffect
<1> QED
  BY <1>1, <1>2, <1>3, CustodySteps, ArqFrameFacts

(* The state of a job in its life cycle, and how a step changes it.         *)
State == [j \in JobId |-> JobState(j)]
Lost == {j \in JobId : <<"job", j>> \in casualties}
MayRerun == Budget["worker"] > 0 \/ Budget["lease"] > 0 \/ Budget["io"] > 0

MovesTo(j, s) == State' = [State EXCEPT ![j] = s]

(* One job is given another status.                                         *)
LEMMA WrittenMoves ==
    ASSUME TypeInv, NEW j \in DOMAIN jobs, NEW s, NEW e, NEW result,
           Written(j, s, e, result), UNCHANGED lastJob
    PROVE  /\ State[j] = jobs[j].status /\ MovesTo(j, s)
<1>1. j \in JobId
  BY JobFacts
<1>2. \A k \in JobId : JobState(k)' = IF k = j THEN s ELSE JobState(k)
  BY DEF Written, JobState
<1> QED
  BY <1>1, <1>2 DEF State, MovesTo, JobState

(* The rows stay as they are.                                               *)
LEMMA FrameMoves ==
    ASSUME UNCHANGED <<jobs, lastJob>>
    PROVE  UNCHANGED State
  BY DEF State, JobState

(* An update of a row begins or settles a job, or is that of a second run.  *)
LEMMA JobWriteMoves ==
    ASSUME TypeInv, FirstRunInv, RunOnceInv, NEW r \in Runners, JobWrite(r)
    PROVE  \E j \in JobId :
              \/ State[j] = "queued" /\ MovesTo(j, "running")
              \/ State[j] = "running" /\ \E s \in Terminal : MovesTo(j, s)
              \/ /\ MayRerun /\ State[j] \in {"queued", "running", "succeeded", "failed"}
                 /\ \E s \in {"running", "succeeded", "failed"} : MovesTo(j, s)
<1>0. PICK j : j = runs[r].job
  OBVIOUS
<1>1. /\ j \in DOMAIN jobs /\ j \in JobId /\ jobs[j] \in JobRow
      /\ RowThere(r) /\ UNCHANGED lastJob
  BY <1>0, JobFacts DEF JobWrite, RowThere, HasJob
<1>2. State[j] = jobs[j].status
  BY <1>1 DEF State, JobState
<1>3. \/ runs[r].pc = "mark_running" /\ MovesTo(j, "running")
      \/ runs[r].pc \in {"mark_succeeded", "mark_failed"} /\ \E s \in Terminal : MovesTo(j, s)
  <2>1. \/ /\ runs[r].pc = "mark_running"
           /\ Written(j, "running", jobs[j].error, jobs[j].result_summary)
        \/ /\ runs[r].pc = "mark_succeeded"
           /\ Written(j, "succeeded", jobs[j].error, runs[r].result)
        \/ /\ runs[r].pc = "mark_failed"
           /\ Written(j, "failed", runs[r].error, jobs[j].result_summary)
    BY <1>0, <1>1, WriteFacts DEF JobWrite
  <2> QED
    BY <1>1, <2>1, WrittenMoves DEF Terminal
<1>4. CASE MayRerun
  <2>1. State[j] \in {"queued", "running", "succeeded", "failed"}
    BY <1>1, <1>2 DEF JobRow
  <2>2. \E s \in {"running", "succeeded", "failed"} : MovesTo(j, s)
    BY <1>3 DEF Terminal
  <2> QED
    BY <1>1, <1>4, <2>1, <2>2
<1>5. CASE ~MayRerun
  <2>1. faults["worker"] = 0 /\ faults["lease"] = 0 /\ faults["io"] = 0
    BY <1>5, BudgetAssumption DEF MayRerun, RunOnceInv, FaultKinds, TypeInv, FaultTypeOK
  <2>2. FirstRun(j) /\ RunAgrees(runs[r])
    BY <1>1, <2>1 DEF RunOnceInv, TasksRunOnce, FirstRunInv, FirstRunsAgree
  <2>3. /\ runs[r].pc = "mark_running" => jobs[j].status = "queued"
        /\ runs[r].pc \in {"mark_succeeded", "mark_failed"} => jobs[j].status = "running"
    BY <1>0, <1>1, <2>2 DEF RunAgrees, Early, Late, WithRow, Untouched, UnderWay
  <2> QED
    BY <1>1, <1>2, <1>3, <2>3
<1> QED
  BY <1>4, <1>5

(* A step of the service is a step of its jobs' life cycle.                 *)
LEMMA NextMoves ==
    ASSUME TypeInv, TypeInv', FirstRunInv, RunOnceInv, [Next]_vars
    PROVE  \/ \E j \in JobId :
                 \/ State[j] = "absent" /\ MovesTo(j, "queued")
                 \/ State[j] = "queued" /\ MovesTo(j, "running")
                 \/ State[j] = "running" /\ \E s \in Terminal : MovesTo(j, s)
                 \/ /\ MayRerun /\ State[j] \in {"queued", "running", "succeeded", "failed"}
                    /\ \E s \in {"running", "succeeded", "failed"} : MovesTo(j, s)
           \/ \E gone \in SUBSET JobId :
                 /\ \A j \in gone : State[j] \in {"queued", "running", "succeeded", "failed"}
                 /\ State' = [j \in JobId |-> IF j \in gone THEN "deleted" ELSE State[j]]
<1>1. ASSUME UNCHANGED State
      PROVE  \E gone \in SUBSET JobId :
                /\ \A j \in gone : State[j] \in {"queued", "running", "succeeded", "failed"}
                /\ State' = [j \in JobId |-> IF j \in gone THEN "deleted" ELSE State[j]]
  <2>1. State' = [j \in JobId |-> IF j \in {} THEN "deleted" ELSE State[j]]
    BY <1>1 DEF State
  <2> WITNESS {} \in SUBSET JobId
  <2> QED
    BY <2>1
<1>2. ASSUME NEW h \in Handlers, CreateJob(h)
      PROVE  \E j \in JobId : State[j] = "absent" /\ MovesTo(j, "queued")
  <2>1. PICK j \in JobId : j = lastJob + 1
    BY <1>2 DEF CreateJob, create_job, TypeInv, StoreInv, StoreTypeOK, JobId
  <2>2. /\ lastJob \in Nat /\ lastJob' = j /\ j \notin DOMAIN jobs
        /\ DOMAIN jobs' = DOMAIN jobs \cup {j} /\ jobs'[j].status = "queued"
        /\ \A k \in DOMAIN jobs : jobs'[k] = jobs[k]
    BY <1>2, <2>1 DEF CreateJob, create_job, Put, TypeInv, StoreInv, StoreTypeOK
  <2>3. \A k \in JobId : JobState(k)' = IF k = j THEN "queued" ELSE JobState(k)
    BY <2>1, <2>2, IdFacts DEF JobState
  <2>4. State[j] = "absent"
    BY <2>1, <2>2 DEF State, JobState
  <2>5. MovesTo(j, "queued")
    BY <2>3 DEF State, MovesTo
  <2> QED
    BY <2>4, <2>5
<1>3. ASSUME NEW h \in Handlers, DeleteRow(h)
      PROVE  \E gone \in SUBSET JobId :
                /\ \A j \in gone : State[j] \in {"queued", "running", "succeeded", "failed"}
                /\ State' = [j \in JobId |-> IF j \in gone THEN "deleted" ELSE State[j]]
  <2> DEFINE gone == DOMAIN jobs \ DOMAIN jobs'
  <2>1. /\ DOMAIN jobs' \subseteq DOMAIN jobs /\ UNCHANGED lastJob
        /\ \A j \in DOMAIN jobs' : jobs'[j] = jobs[j]
    BY <1>3, DeleteRowRows
  <2>2. \A j \in DOMAIN jobs : j \in JobId /\ jobs[j] \in JobRow
    BY JobFacts
  <2>3. \A j \in gone : j <= lastJob
    BY DEF TypeInv, StoreInv, StoreTypeOK
  <2>4. \A j \in JobId : JobState(j)' = IF j \in gone THEN "deleted" ELSE JobState(j)
    BY <2>1, <2>3 DEF JobState
  <2>5. \A j \in gone : State[j] \in {"queued", "running", "succeeded", "failed"}
    BY <2>2 DEF State, JobState, JobRow
  <2>6. State' = [j \in JobId |-> IF j \in gone THEN "deleted" ELSE State[j]]
    BY <2>4 DEF State
  <2> HIDE DEF gone
  <2>7. gone \in SUBSET JobId
    BY <2>2 DEF gone
  <2> QED
    BY <2>5, <2>6, <2>7
<1>4. ASSUME NEW h \in Handlers, MarkInvalid(h) \/ MarkReady(h) PROVE UNCHANGED State
  BY <1>4, FrameMoves DEF MarkInvalid, MarkReady, Settle
<1>5. ASSUME NEW h \in Handlers, NEW org \in Orgs, NEW data \in Uploads,
             UploadDataset(h, org, data)
      PROVE  UNCHANGED State
  BY <1>5, FrameMoves DEF UploadDataset
<1>6. TableFrame => UNCHANGED State
  BY FrameMoves DEF TableFrame
<1> HIDE DEF MovesTo
<1> QED
  BY <1>1, <1>2, <1>3, <1>4, <1>5, <1>6, TableSteps, JobWriteMoves

(* Whatever happens to requests and workers, a job is queued, runs, settles *)
(* once and may be deleted; only where tasks can be redelivered or answers  *)
(* be lost does it run again (app/worker.py, app/run_helpers.py).           *)
THEOREM LifecycleImplemented == Spec => ImplementsLifecycle
<1>1. Init => Lifecycle!Init
  BY StoreAssumption
     DEF Init, StoreInit, FaultInit, Lifecycle!Init, JobState, JobId
<1>2. /\ TypeInv /\ TypeInv' /\ TenancyInv /\ FirstRunInv /\ RunOnceInv /\ [Next]_vars
      => [Lifecycle!Next]_(Lifecycle!lifecycleVars)
  <2> SUFFICES ASSUME TypeInv, TypeInv', TenancyInv, FirstRunInv, RunOnceInv, [Next]_vars
               PROVE  Lifecycle!Next
    OBVIOUS
  <2>1. Lost \subseteq Lost'
    BY CasualtiesStay DEF Lost
  <2> QED
    BY <2>1, NextMoves
       DEF Lifecycle!Next, Lifecycle!Submit, Lifecycle!Begin, Lifecycle!Settle,
           Lifecycle!Rerun, Lifecycle!Cascade, Lifecycle!Live, State, Lost, MovesTo, MayRerun,
           Terminal
<1> QED
  BY <1>1, <1>2, LocalTypesCorrect, TenancyInvariant, FirstRunInvariant, RunOnceInvariant,
     PTL DEF Spec, ImplementsLifecycle, Lifecycle!Spec

----------------------------------------------------------------------------
(* The dashboard.                                                           *)

(* What the list that was read first still says: a dataset of the           *)
(* organization is in it, and rejected already if it is there, or is newer  *)
(* than the whole list.                                                     *)
DatasetAged(d) ==
    \/ /\ d \in DOMAIN dash.datasets
       /\ dash.datasets[d].status = "failed" => datasets[d].status = "failed"
    \/ \A e \in DOMAIN dash.datasets : e < d

DashInv ==
    dash # NoDashboard =>
        /\ DOMAIN dash.datasets \subseteq 1..lastDataset
        /\ \A d \in DOMAIN datasets :
              datasets[d].org_id = dash.org => DatasetAged(d)

(* The list is taken from the table.                                        *)
LEMMA GetDashboardAged ==
    ASSUME TypeInv, NEW org \in Orgs, GetDashboard(org)
    PROVE  DashInv'
<1>1. DOMAIN datasets \subseteq 1..lastDataset
  BY StoreAssumption DEF TypeInv, StoreInv, StoreTypeOK
<1>2. dash'.org = org /\ dash'.datasets = list_datasets(org) /\ UNCHANGED <<datasets, lastDataset>>
  BY DEF GetDashboard, vars, storeVars
<1>3. /\ DOMAIN list_datasets(org) = {d \in DOMAIN datasets : datasets[d].org_id = org}
      /\ \A d \in DOMAIN list_datasets(org) : list_datasets(org)[d] = datasets[d]
  BY DEF list_datasets, OfOrg
<1> QED
  BY <1>1, <1>2, <1>3 DEF DashInv, DatasetAged

(* The service goes on: what it adds is newer, what is rejected stays so.   *)
LEMMA NextKeepsAged ==
    ASSUME TypeInv, ReadinessInv, DashInv, [Next]_vars, UNCHANGED dash
    PROVE  DashInv'
<1> SUFFICES ASSUME dash # NoDashboard PROVE DashInv'
  BY DEF DashInv
<1>1. /\ lastDataset \in Nat /\ lastDataset' \in Nat /\ lastDataset <= lastDataset'
      /\ DOMAIN datasets \subseteq 1..lastDataset
  BY CountersGrow
<1>2. DOMAIN dash.datasets \subseteq 1..lastDataset
  BY DEF DashInv
<1>3. ASSUME NEW d \in DOMAIN datasets', datasets'[d].org_id = dash.org
      PROVE  DatasetAged(d)'
  <2>1. CASE d \in DOMAIN datasets
    <3>1. datasets'[d].org_id = datasets[d].org_id
      BY <2>1, NextKeepsIdentities DEF RowsKeepTheirIdentity
    <3>2. DatasetAged(d)
      BY <1>3, <2>1, <3>1 DEF DashInv
    <3>3. datasets[d].status = "failed" => datasets'[d].status = "failed"
      BY <2>1, SettledRowsStay
    <3> QED
      BY <3>2, <3>3 DEF DatasetAged
  <2>2. CASE d \notin DOMAIN datasets
    <3>1. d > lastDataset
      BY <2>2, NextKeepsIdentities DEF RowsKeepTheirIdentity
    <3>2. d \in Int
      BY <2>2, <1>1, RowChanges DEF RowChange
    <3> QED
      BY <1>1, <1>2, <3>1, <3>2 DEF DatasetAged
  <2> QED
    BY <2>1, <2>2
<1> QED
  BY <1>1, <1>2, <1>3 DEF DashInv

(* So does every step, those of the dashboard included.                     *)
LEMMA DashStepKept ==
    ASSUME TypeInv, ReadinessInv, DashInv, [DashboardNext]_dashVars
    PROVE  DashInv'
<1>1. CASE UNCHANGED dashVars
  BY <1>1, NextKeepsAged DEF dashVars
<1>2. CASE Next /\ UNCHANGED dash
  BY <1>2, NextKeepsAged
<1>3. CASE \E org \in Orgs : GetDashboard(org)
  BY <1>3, GetDashboardAged
<1>4. CASE AnswerDashboard
  BY <1>4 DEF AnswerDashboard, DashInv
<1> QED
  BY <1>1, <1>2, <1>3, <1>4 DEF DashboardNext

(* Every recent job is in the list that was read.                           *)
LEMMA RecentAreListed ==
    ASSUME NEW js, DOMAIN js \in SUBSET Int, IsFiniteSet(DOMAIN js), NEW ds
    PROVE  ToSet(DashboardResponse(ds, js).jobs.recent) \subseteq DOMAIN js
<1> DEFINE J == DOMAIN js
           R == {p \in J \X J : p[1] > p[2]}
           all == NewestFirst(J)
           n == IF Len(all) < MaxRecent THEN Len(all) ELSE MaxRecent
<1>1. Lists(all, R, J)
  <2> DEFINE c(i) == CHOOSE x \in J : Cardinality({y \in J : y > x}) = i - 1
             d(i) == CHOOSE x \in J : Place(x, R, J) = i - 1
  <2>1. \A x \in J : {y \in J : y > x} = {y \in J : <<y, x>> \in R}
    OBVIOUS
  <2>2. all = [i \in 1..Cardinality(J) |-> c(i)]
    BY DEF NewestFirst, InOrder
  <2>3. \A i \in 1..Cardinality(J) : c(i) = d(i)
    <3> HIDE DEF R, J
    <3> QED
      BY <2>1 DEF Place
  <2>4. all = [i \in 1..Cardinality(J) |-> d(i)]
    <3> HIDE DEF c, d, all, R, J
    <3> QED
      BY <2>2, <2>3
  <2> QED
    BY <2>4 DEF Lists
<1>2. StrictOrder(R, J)
  BY DEF StrictOrder
<1>3. all \in [1..Cardinality(J) -> J] /\ Cardinality(J) \in Nat
  <2> HIDE DEF all, R
  <2> QED
    BY <1>1, <1>2, InOrderFacts, FS_CardinalityType DEF Listed
<1>4. all \in Seq(J) /\ Len(all) = Cardinality(J)
  <2> HIDE DEF all
  <2> QED
    BY <1>3
<1>5. n \in 0..Len(all)
  <2> HIDE DEF all
  <2> QED
    BY <1>3, <1>4, DashboardAssumption
<1>6. DashboardResponse(ds, js).jobs.recent = SubSeq(all, 1, n)
  BY DEF DashboardResponse
<1>7. ToSet(SubSeq(all, 1, n)) \subseteq J
  <2> HIDE DEF all, n
  <2>1. SubSeq(all, 1, n) \in Seq(J)
    BY <1>4, <1>5
  <2> QED
    BY <2>1 DEF ToSet
<1> QED
  BY <1>6, <1>7

(* And a latest result is the newest success of its module.                 *)
LEMMA LatestAreNewest ==
    ASSUME NEW js, DOMAIN js \in SUBSET Int, IsFiniteSet(DOMAIN js), NEW ds
    PROVE  LET latest == DashboardResponse(ds, js).latest IN
           /\ UNION Range(latest) \subseteq DOMAIN js
           /\ \A j \in DOMAIN js : js[j].status = "succeeded" /\ js[j].module \in Modules =>
                 \E k \in latest[js[j].module] : k >= j
<1> DEFINE latest == DashboardResponse(ds, js).latest
           done(m) == {j \in Having(js, {"succeeded"}) : js[j].module = m}
<1>1. latest = [m \in Modules |-> {j \in done(m) : \A k \in done(m) : k <= j}]
  BY DEF DashboardResponse
<1>2. \A m : done(m) = {j \in DOMAIN js : js[j].status = "succeeded" /\ js[j].module = m}
  BY DEF Having
<1> HIDE DEF latest
<1>3. ASSUME NEW j \in DOMAIN js, js[j].status = "succeeded", js[j].module \in Modules
      PROVE  \E k \in latest[js[j].module] : k >= j
  <2> DEFINE m == js[j].module
  <2>1. j \in done(m) /\ done(m) \subseteq DOMAIN js
    BY <1>2, <1>3
  <2>2. IsFiniteSet(done(m))
    BY <2>1, FS_Subset
  <2> DEFINE D == done(m)
  <2>3. latest[m] = {i \in D : \A k \in D : k <= i}
    BY <1>1, <1>3
  <2> HIDE DEF D
  <2>4. D \in SUBSET Int /\ D # {} /\ IsFiniteSet(D) /\ j \in D
    BY <2>1, <2>2 DEF D
  <2>5. Max(D) \in D /\ \A x \in D : x <= Max(D)
    BY <2>4, Extremes
  <2> QED
    BY <2>3, <2>4, <2>5
<1>4. UNION Range(latest) \subseteq DOMAIN js
  BY <1>1, <1>2 DEF Range
<1> QED
  BY <1>3, <1>4 DEF latest

(* The answer: the jobs that are read later are of datasets that were ready *)
(* by then, and so were listed, and not as rejected, or are newer.          *)
LEMMA AnswersExplained ==
    ASSUME TypeInv, TenancyInv, ReadinessInv, DashInv, AnswerDashboard
    PROVE  LET ds == dash.datasets
               js == list_jobs(dash.org)
               answer == DashboardResponse(ds, js)
               shown == ToSet(answer.jobs.recent) \cup UNION Range(answer.latest) IN
           /\ \A j \in shown :
                 LET d == js[j].dataset_id IN
                 \/ d \in DOMAIN ds /\ ds[d].status # "failed"
                 \/ \A e \in answer.datasets.latest : d > e
           /\ \A j \in ToSet(answer.jobs.recent) :
                 js[j].status = "succeeded" =>
                     \E k \in answer.latest[js[j].module] : k >= j
<1> DEFINE ds == dash.datasets
           js == list_jobs(dash.org)
           answer == DashboardResponse(ds, js)
           recent == ToSet(answer.jobs.recent)
           latest == answer.latest
           newest == answer.datasets.latest
<1>1. /\ DOMAIN js = {j \in DOMAIN jobs : jobs[j].org_id = dash.org}
      /\ \A j \in DOMAIN js : js[j] = jobs[j]
  BY DEF list_jobs, OfOrg
<1>2. newest \subseteq DOMAIN ds
  BY DEF DashboardResponse
<1>3. DOMAIN jobs \subseteq 1..lastJob /\ lastJob \in Nat
  BY StoreAssumption DEF TypeInv, StoreInv, StoreTypeOK
<1> HIDE DEF js
<1>4. DOMAIN js \in SUBSET Int /\ IsFiniteSet(DOMAIN js)
  <2>1. IsFiniteSet(1..lastJob) /\ DOMAIN js \subseteq 1..lastJob
    BY <1>1, <1>3, UpTo
  <2> QED
    BY <1>3, <2>1, FS_Subset
<1>5. recent \subseteq DOMAIN js
  BY <1>4, RecentAreListed
<1>6. /\ UNION Range(latest) \subseteq DOMAIN js
      /\ \A j \in DOMAIN js : js[j].status = "succeeded" /\ js[j].module \in Modules =>
            \E k \in latest[js[j].module] : k >= j
  BY <1>4, LatestAreNewest
<1> HIDE DEF recent, latest, newest, answer
<1>7. ASSUME NEW j \in DOMAIN js
      PROVE  LET d == js[j].dataset_id IN
             \/ d \in DOMAIN ds /\ ds[d].status # "failed"
             \/ \A e \in newest : d > e
  <2> DEFINE d == js[j].dataset_id
  <2>1. j \in DOMAIN jobs /\ js[j] = jobs[j] /\ jobs[j].org_id = dash.org
    BY <1>1, <1>7
  <2>2. d \in DOMAIN datasets /\ datasets[d].org_id = dash.org
    BY <2>1 DEF TenancyInv, JobsBelongToTheirDatasets
  <2>3. datasets[d].status = "ready"
    BY <2>1, <2>2 DEF ReadinessInv, HasStatus
  <2>4. DOMAIN ds \subseteq 1..lastDataset /\ DatasetAged(d)
    BY <2>2 DEF DashInv, AnswerDashboard
  <2>5. d \in Nat /\ lastDataset \in Nat
    BY <2>2, StoreAssumption DEF TypeInv, StoreInv, StoreTypeOK
  <2> HIDE DEF d
  <2>6. ASSUME \A e \in DOMAIN ds : e < d PROVE \A e \in newest : d > e
    BY <1>2, <2>4, <2>5, <2>6
  <2> QED
    BY <2>3, <2>4, <2>6 DEF DatasetAged, d
<1>8. \A j \in DOMAIN js : js[j].module \in Modules
  BY <1>1, JobFacts DEF JobRow
<1>9. /\ \A j \in recent \cup UNION Range(latest) :
            LET d == js[j].dataset_id IN
            \/ d \in DOMAIN ds /\ ds[d].status # "failed"
            \/ \A e \in newest : d > e
      /\ \A j \in recent : js[j].status = "succeeded" =>
            \E k \in latest[js[j].module] : k >= j
  BY <1>5, <1>6, <1>7, <1>8
<1> QED
  BY <1>9 DEF js, recent, latest, newest, answer

(* Whatever happens between its two reads, a dashboard lists the dataset of *)
(* every job it shows, not as rejected, unless it is newer than the list.   *)
THEOREM DashboardsExplained == DashboardSpec => DashboardsAreExplainable
<1> DEFINE Explained ==
             LET ds == dash.datasets
                 js == list_jobs(dash.org)
                 answer == DashboardResponse(ds, js)
                 shown == ToSet(answer.jobs.recent) \cup UNION Range(answer.latest) IN
             /\ \A j \in shown :
                   LET d == js[j].dataset_id IN
                   \/ d \in DOMAIN ds /\ ds[d].status # "failed"
                   \/ \A e \in answer.datasets.latest : d > e
             /\ \A j \in ToSet(answer.jobs.recent) :
                   js[j].status = "succeeded" =>
                       \E k \in answer.latest[js[j].module] : k >= j
<1>1. DashboardSpec => Spec
  <2>1. DashboardInit => Init
    BY DEF DashboardInit
  <2>2. [DashboardNext]_dashVars => [Next]_vars
    BY DEF DashboardNext, dashVars, GetDashboard, AnswerDashboard
  <2> QED
    BY <2>1, <2>2, PTL DEF DashboardSpec, Spec
<1>2. DashboardSpec => []DashInv
  <2>1. DashboardInit => DashInv
    BY DEF DashboardInit, DashInv
  <2>2. TypeInv /\ ReadinessInv /\ DashInv /\ [DashboardNext]_dashVars => DashInv'
    BY DashStepKept
  <2> QED
    BY <1>1, <2>1, <2>2, LocalTypesCorrect, ReadinessInvariant, PTL DEF DashboardSpec
<1>3. TypeInv /\ TenancyInv /\ ReadinessInv /\ DashInv /\ [DashboardNext]_dashVars
         => [AnswerDashboard => Explained]_dashVars
  BY AnswersExplained
<1> HIDE DEF Explained
<1>4. DashboardSpec => [][AnswerDashboard => Explained]_dashVars
  BY <1>1, <1>2, <1>3, LocalTypesCorrect, TenancyInvariant, ReadinessInvariant, PTL
     DEF DashboardSpec
<1> QED
  BY <1>4 DEF Explained, DashboardsAreExplainable
=============================================================================
