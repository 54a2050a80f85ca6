------------------------------- MODULE Vendi -------------------------------
(***************************************************************************)
(* The whole service: API processes serving dataset and run requests, and   *)
(* arq workers running jobs, over one database, one bucket and one queue.   *)
(***************************************************************************)
EXTENDS RunApi

vars == <<storeVars, faultVars, runs, arqVars, req>>

TypeOK ==
    /\ StoreTypeOK
    /\ FaultTypeOK
    /\ RunnerTypeOK
    /\ ArqTypeOK
    /\ RequestTypeOK

Init ==
    /\ StoreInit
    /\ FaultInit
    /\ RunnerInit
    /\ ArqInit
    /\ RequestInit

(* A handler makes its next call.                                           *)
HandlerStep(h) ==
    \/ DatasetStep(h) /\ UNCHANGED <<runs, arqVars>>
    \/ RunStep(h)

(* A user sends a request: get_current_user finds the one organization it   *)
(* is for among those the user belongs to.                                  *)
NewRequest(h) ==
    \/ DatasetRequest(h) /\ UNCHANGED <<runs, arqVars>>
    \/ RunRequest(h)

RequestDies(h) ==
    \/ DatasetRequestDies(h) /\ UNCHANGED <<runs, arqVars>>
    \/ RunRequestDies(h)

(* process_job makes its next call, or finds that it failed.                *)
ProcessJob(r) == RunnerStep(r) /\ UNCHANGED <<arqVars, req>>
CallRaises(r) == (CallFails(r) \/ AnswerLost(r)) /\ UNCHANGED <<arqVars, req>>

Next ==
    \/ \E h \in Handlers : NewRequest(h) \/ HandlerStep(h) \/ RequestDies(h)
    \/ \E r \in Runners : ProcessJob(r) \/ CallRaises(r)
    \/ \E w \in Workers : Finish(w) /\ UNCHANGED req
    \/ \E w \in Workers : WorkerCrash(w) /\ UNCHANGED req
    \/ \E w \in Workers, j \in JobId : ArqStep(w, j) /\ UNCHANGED req
    \/ \E j \in JobId : (LeaseExpires(j) \/ LeaseOverrun(j)) /\ UNCHANGED req

Spec == Init /\ [][Next]_vars

(***************************************************************************)
(* Processes that are not dead keep going: a handler and a runner make      *)
(* their next call, arq finishes a task whose function has ended, a dead    *)
(* lease expires, and some worker polls the queue.  A claimed task gets its *)
(* turn in its worker because asyncio runs ready tasks in order; since the  *)
(* other tasks of the worker interrupt its being next, this is strong       *)
(* fairness.  Users need not send requests and faults need not happen.      *)
(***************************************************************************)
Fairness ==
    /\ \A h \in Handlers : WF_vars(HandlerStep(h))
    /\ \A r \in Runners : WF_vars(ProcessJob(r))
    /\ \A w \in Workers : WF_vars(Finish(w) /\ UNCHANGED req)
    /\ \A j \in JobId : WF_vars(LeaseExpires(j) /\ UNCHANGED req)
    /\ \A j \in JobId : SF_vars(\E w \in Workers : Claim(w, j) /\ UNCHANGED req)
    /\ \A w \in Workers, j \in JobId :
          SF_vars((Start(w, j) \/ Discard(w, j)) /\ UNCHANGED req)

FairSpec == Spec /\ Fairness

----------------------------------------------------------------------------
(* Safety.                                                                  *)

(* A job belongs to a dataset that exists and to that dataset's             *)
(* organization, although a job is created two requests after the dataset   *)
(* was checked, the foreign key says nothing of organizations, and datasets *)
(* are deleted meanwhile.                                                   *)
JobsBelongToTheirDatasets ==
    \A j \in DOMAIN jobs :
        /\ jobs[j].dataset_id \in DOMAIN datasets
        /\ jobs[j].org_id = datasets[jobs[j].dataset_id].org_id

(* Every object lies under the prefix of the organization that owns its     *)
(* dataset, and an artifact under that of its job, whatever the workers,    *)
(* which bypass row level security, were made to write.                     *)
ObjectsBelongToTheirOrg ==
    \A p \in DOMAIN objects :
        /\ p.ds \in DOMAIN datasets => p.org = datasets[p.ds].org_id
        /\ p.file = "artifact" /\ p.job \in DOMAIN jobs
              => p.org = jobs[p.job].org_id /\ p.ds = jobs[p.job].dataset_id

(* The guards of the read endpoints: what a job may be asked for.           *)
HasArtifact(j) == j \in DOMAIN jobs /\ jobs[j].result_storage_path # None
HasResults(j) == j \in DOMAIN jobs /\ jobs[j].status = "succeeded"

(* The artifact endpoint signs whatever path the row has: the object is     *)
(* there and holds the result of this job's module and params on this job's *)
(* dataset, through crashes, redeliveries, lost answers and deletes.        *)
ArtifactsAreServed ==
    \A j \in JobId :
        LET p == jobs[j].result_storage_path IN
        HasArtifact(j) =>
            /\ p \in DOMAIN objects
            /\ objects[p] = [data |-> datasets[jobs[j].dataset_id].report,
                             module |-> jobs[j].module,
                             params |-> jobs[j].params]

(* A succeeded job has a result (the results endpoint unpacks it without a  *)
(* check), and it is what its module computes from its dataset's upload.    *)
ResultsAreRight ==
    \A j \in DOMAIN jobs :
        LET row == jobs[j] IN
        /\ HasResults(j) => row.result_summary # None
        /\ row.result_summary # None =>
             /\ row.result_summary = [data |-> datasets[row.dataset_id].report,
                                      module |-> row.module, params |-> row.params]
             /\ row.result_storage_path # None
                  <=> Outcome[row.result_summary] = "artifact"

(* A job that is not settled has somebody who will see to it: the request   *)
(* that is about to enqueue it, the queue, or a runner.  The only others    *)
(* are those whose request died, whose worker could not even mark them, or  *)
(* that used up their tries.                                                *)
SomebodyHas(j) ==
    \/ \E h \in Handlers : At(h, "enqueue") /\ req[h].job = j
    \/ j \in queue
    \/ \E r \in Runners : Processing(r, j)

NoJobIsForgotten ==
    faults["lease"] = 0 =>
        \A j \in DOMAIN jobs :
            \/ jobs[j].status \in Terminal
            \/ SomebodyHas(j)
            \/ <<"job", j>> \in casualties

(* A job that ran once, without a lost answer, has an error exactly if it   *)
(* failed and a result exactly if it succeeded.                             *)
RowsAreConsistent ==
    faults["io"] = 0 =>
        \A j \in DOMAIN jobs :
            tries[j] <= 1 =>
                /\ jobs[j].error # "none" <=> jobs[j].status = "failed"
                /\ jobs[j].result_summary # None <=> jobs[j].status = "succeeded"

----------------------------------------------------------------------------
(* What a step may never do.                                                *)

(* The row of a settled job changes only if its task was delivered again or *)
(* the answer to an update was lost.                                        *)
SettledJobsStay ==
    [][\A j \in DOMAIN jobs \cap DOMAIN jobs' :
          jobs[j].status \in Terminal /\ jobs'[j] # jobs[j]
              => tries[j] > 1 \/ faults["io"] > 0]_vars

(* A non-forced run never creates a second job for a dataset, module and    *)
(* params that a job has been done for, unless that job was run again after *)
(* it had succeeded or its success looked like a failure.                   *)
RerunsFindTheFirstJob ==
    [][\A h \in Handlers :
          FindExisting(h) /\ req'[h].pc = "create" =>
              \A j \in succeededOnce \cap DOMAIN jobs :
                  [org |-> jobs[j].org_id, ds |-> jobs[j].dataset_id,
                   module |-> jobs[j].module, params |-> jobs[j].params]
                  = [org |-> req[h].org, ds |-> req[h].ds,
                     module |-> req[h].module, params |-> req[h].params]
                  => tries[j] > 1 \/ faults["io"] > 0]_vars

(* README: idempotent re-run, with no exception for a redelivered task.     *)
RerunsAlwaysFindTheFirstJob ==
    [][\A h \in Handlers :
          FindExisting(h) /\ req'[h].pc = "create" =>
              \A j \in succeededOnce \cap DOMAIN jobs :
                  ~ /\ jobs[j].org_id = req[h].org
                    /\ jobs[j].dataset_id = req[h].ds
                    /\ jobs[j].module = req[h].module
                    /\ jobs[j].params = req[h].params]_vars

(* README: under SYNC_JOBS a job is succeeded or failed when POST           *)
(* /<module>/run returns (or gone with its dataset), whatever failed in it. *)
SyncRunsReturnSettledJobs ==
    [][\A h \in Handlers :
          SyncReturn(h) /\ req[h].job \in DOMAIN jobs =>
              jobs[req[h].job].status \in Terminal]_vars

----------------------------------------------------------------------------
(* The service implements the job's life cycle.                             *)

JobState(j) ==
    IF j \in DOMAIN jobs THEN jobs[j].status
    ELSE IF j <= lastJob THEN "deleted" ELSE "absent"

(* Tasks run more than once, or answers get lost, only if some fault may    *)
(* happen that can cause it.                                                *)
Lifecycle == INSTANCE JobLifecycle WITH
    JobIds <- JobId,
    Reruns <- Budget["worker"] > 0 \/ Budget["lease"] > 0 \/ Budget["io"] > 0,
    status <- [j \in JobId |-> JobState(j)],
    lost <- {j \in JobId : <<"job", j>> \in casualties}

(* Every change of a job's row is one that JobLifecycle allows.             *)
ImplementsLifecycle == Lifecycle!Spec

(* And, although requests and workers die, every queued job is begun and    *)
(* every running job settled, unless it is deleted or is a casualty.        *)
ImplementsFairLifecycle == Lifecycle!FairSpec

----------------------------------------------------------------------------
(* Liveness.                                                                *)

(* Every task leaves the queue, and no lease outlives it.                   *)
QueueDrains ==
    \A j \in JobId : j \in queue \cup leases ~> j \notin queue \cup leases
=============================================================================
