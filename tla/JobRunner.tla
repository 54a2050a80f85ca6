----------------------------- MODULE JobRunner -----------------------------
(***************************************************************************)
(* process_job (app/worker.py): what a worker does with a task, and what    *)
(* the API process itself does under SYNC_JOBS.  The function never awaits, *)
(* but every database and storage call is a request to another process, so  *)
(* there is one action per call, and other runners and requests may come    *)
(* between any two.                                                         *)
(***************************************************************************)
EXTENDS Store, Faults

CONSTANT Runners    \* the processes that may be inside process_job

VARIABLE runs       \* runs[r]: the local variables of r's call

runnerVars == <<storeVars, faultVars, runs>>

(***************************************************************************)
(* job is the argument; row is `job` as fetched; path is the parquet path   *)
(* read from the dataset row; result, artifact and error are result_summary,*)
(* result_storage_path and the sanitized exception.  pc names the call the  *)
(* runner is about to make; "done" and "raised" are the two ways out.       *)
(***************************************************************************)
RunnerPC == {"idle", "fetch", "mark_running", "load", "download", "upload",
             "mark_succeeded", "mark_failed", "done", "raised"}

Snapshot == [org_id: Orgs, dataset_id: DatasetId, module: Modules, params: Params]

Run == [pc: RunnerPC, job: JobId \cup {0}, row: Snapshot \cup {None},
        path: Path \cup {None}, result: Result \cup {None},
        artifact: Path \cup {None}, error: {"none", "actionable", "generic"}]

IdleRun == [pc |-> "idle", job |-> 0, row |-> None, path |-> None,
            result |-> None, artifact |-> None, error |-> "none"]

Called(j) == [IdleRun EXCEPT !.pc = "fetch", !.job = j]

(* r is between the call of process_job(j) and its return.                  *)
Processing(r, j) ==
    /\ runs[r].job = j
    /\ runs[r].pc \notin {"idle", "done", "raised"}

RunnerTypeOK == runs \in [Runners -> Run]

RunnerInit == runs = [r \in Runners |-> IdleRun]

Resume(r, run) == runs' = [runs EXCEPT ![r] = run]

Goto(r, pc) == Resume(r, [runs[r] EXCEPT !.pc = pc])

(* The except branch: the handler has the sanitized message in hand.        *)
Catch(r, error) ==
    Resume(r, [runs[r] EXCEPT !.pc = "mark_failed", !.error = error])

(* The dataset and job columns of the fetched row never change.             *)
Fetched(j) == [org_id |-> jobs[j].org_id, dataset_id |-> jobs[j].dataset_id,
               module |-> jobs[j].module, params |-> jobs[j].params]

(* The row r updates: `update_job` matches id and org_id, and raises        *)
(* LookupError when no row does.                                            *)
RowThere(r) == HasJob(runs[r].job, runs[r].row.org_id)

----------------------------------------------------------------------------
(* The four writes of process_job.                                          *)

(* Mutant: a status the check constraint of the table does not list.        *)
WriteStarted(r) ==
    LET j == runs[r].job IN
    update_job(j, [jobs[j] EXCEPT !.status = "started"])

WriteRunning(r) ==
    LET j == runs[r].job IN
    update_job(j, [jobs[j] EXCEPT !.status = "running"])

WriteSucceeded(r) ==
    LET j == runs[r].job IN
    /\ update_job(j, [jobs[j] EXCEPT !.status = "succeeded",
                                     !.result_summary = runs[r].result,
                                     !.result_storage_path = runs[r].artifact])
    /\ succeededOnce' = succeededOnce \cup {j}

(* Mutant: the error is not stored.                                         *)
WriteFailedSilently(r) ==
    LET j == runs[r].job IN
    update_job(j, [jobs[j] EXCEPT !.status = "failed"])

(* Mutant: a failed job is put back in the queued state.                    *)
WriteRequeued(r) ==
    LET j == runs[r].job IN
    update_job(j, [jobs[j] EXCEPT !.status = "queued", !.error = runs[r].error])

WriteFailed(r) ==
    LET j == runs[r].job IN
    update_job(j, [jobs[j] EXCEPT !.status = "failed",
                                  !.error = runs[r].error])

WriteArtifact(r) ==
    LET row == runs[r].row
        path == ArtifactPath(row.org_id, row.dataset_id, runs[r].job) IN
    upload_bytes(path, runs[r].result)

----------------------------------------------------------------------------
(* The calls, when the request and its answer get through.                  *)

Fetch(r) ==
    LET j == runs[r].job IN
    /\ runs[r].pc = "fetch"
    /\ IF j \in DOMAIN jobs
       THEN Resume(r, [runs[r] EXCEPT !.pc = "mark_running", !.row = Fetched(j)])
       ELSE Goto(r, "done")
    /\ UNCHANGED <<storeVars, faultVars>>

(* Outside the try: a vanished row makes process_job itself raise.          *)
MarkRunning(r) ==
    /\ runs[r].pc = "mark_running"
    /\ IF RowThere(r)
       THEN WriteRunning(r) /\ Goto(r, "load")
       ELSE Goto(r, "raised") /\ UNCHANGED jobs
    /\ UNCHANGED <<datasets, objects, lastDataset, lastJob, faultVars>>

Load(r) ==
    LET row == runs[r].row
        d == row.dataset_id IN
    /\ runs[r].pc = "load"
    /\ IF HasDataset(d, row.org_id) /\ datasets[d].parquet_path # None
       THEN Resume(r, [runs[r] EXCEPT !.pc = "download",
                                      !.path = datasets[d].parquet_path])
       ELSE Catch(r, "actionable")
    /\ UNCHANGED <<storeVars, faultVars>>

(* Mutants: a missing object ends the run instead of raising; a ValueError  *)
(* of the module is swallowed.                                              *)
ReturnEarly(r) == Goto(r, "done")
Ignore(r) == Goto(r, "mark_succeeded")

NoObject(r) == Catch(r, "generic")
Rejected(r) == Catch(r, "actionable")

(* Download the parquet object and run the module on it.                    *)
Compute(r) ==
    LET row == runs[r].row
        result == [data |-> objects[runs[r].path], module |-> row.module,
                   params |-> row.params] IN
    /\ runs[r].pc = "download"
    /\ \/ /\ runs[r].path \notin DOMAIN objects
          /\ NoObject(r)
       \/ /\ runs[r].path \in DOMAIN objects
          /\ Outcome[result] = "error"
          /\ Rejected(r)
       \/ /\ runs[r].path \in DOMAIN objects
          /\ Outcome[result] # "error"
          /\ Resume(r, [runs[r] EXCEPT
                          !.pc = IF Outcome[result] = "artifact"
                                 THEN "upload" ELSE "mark_succeeded",
                          !.result = result])
    /\ UNCHANGED <<storeVars, faultVars>>

UploadArtifact(r) ==
    LET row == runs[r].row IN
    /\ runs[r].pc = "upload"
    /\ WriteArtifact(r)
    /\ Resume(r, [runs[r] EXCEPT
                    !.pc = "mark_succeeded",
                    !.artifact = ArtifactPath(row.org_id, row.dataset_id, runs[r].job)])
    /\ UNCHANGED <<datasets, jobs, lastDataset, lastJob, faultVars>>

(* Mutant: the failure branch is a `finally`.                               *)
MarkSucceededThenFailed(r) ==
    /\ runs[r].pc = "mark_succeeded"
    /\ Catch(r, "generic")
    /\ IF RowThere(r) THEN WriteSucceeded(r)
                      ELSE UNCHANGED <<jobs, succeededOnce>>
    /\ UNCHANGED <<datasets, objects, lastDataset, lastJob, faults, casualties>>

MarkSucceeded(r) ==
    /\ runs[r].pc = "mark_succeeded"
    /\ IF RowThere(r)
       THEN WriteSucceeded(r) /\ Goto(r, "done")
       ELSE Catch(r, "generic") /\ UNCHANGED <<jobs, succeededOnce>>
    /\ UNCHANGED <<datasets, objects, lastDataset, lastJob, faults, casualties>>

(* The write of the except branch is not protected either.                  *)
MarkFailed(r) ==
    /\ runs[r].pc = "mark_failed"
    /\ IF RowThere(r)
       THEN WriteFailed(r) /\ Goto(r, "done")
       ELSE Goto(r, "raised") /\ UNCHANGED jobs
    /\ UNCHANGED <<datasets, objects, lastDataset, lastJob, faultVars>>

RunnerStep(r) ==
    \/ Fetch(r)
    \/ MarkRunning(r)
    \/ Load(r)
    \/ Compute(r)
    \/ UploadArtifact(r)
    \/ MarkSucceeded(r)
    \/ MarkFailed(r)

----------------------------------------------------------------------------
(* The calls, when one raises.  Inside the try the exception is caught and  *)
(* sanitized; outside it, process_job raises, and arq does not retry.       *)

InTry == {"load", "download", "upload", "mark_succeeded"}
OutsideTry == {"fetch", "mark_running", "mark_failed"}

RaiseOrCatch(r) ==
    \/ /\ runs[r].pc \in InTry
       /\ Catch(r, "generic")
       /\ UNCHANGED casualties
    \/ /\ runs[r].pc \in OutsideTry
       /\ Goto(r, "raised")
       /\ casualties' = casualties \cup {<<"job", runs[r].job>>}

(* The request did not get through.                                         *)
CallFails(r) ==
    /\ Spend("io")
    /\ RaiseOrCatch(r)
    /\ UNCHANGED <<storeVars, succeededOnce>>

(* The request was carried out, its answer was lost.                        *)
AnswerLost(r) ==
    /\ Spend("io")
    /\ RaiseOrCatch(r)
    /\ \/ /\ runs[r].pc = "upload"
          /\ WriteArtifact(r)
          /\ UNCHANGED <<jobs, succeededOnce>>
       \/ /\ runs[r].pc = "mark_running" /\ RowThere(r)
          /\ WriteRunning(r)
          /\ UNCHANGED <<objects, succeededOnce>>
       \/ /\ runs[r].pc = "mark_succeeded" /\ RowThere(r)
          /\ WriteSucceeded(r)
          /\ UNCHANGED objects
       \/ /\ runs[r].pc = "mark_failed" /\ RowThere(r)
          /\ WriteFailed(r)
          /\ UNCHANGED <<objects, succeededOnce>>
    /\ UNCHANGED <<datasets, lastDataset, lastJob>>
=============================================================================
