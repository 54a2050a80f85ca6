------------------------------- MODULE RunApi -------------------------------
(***************************************************************************)
(* POST /forecast/run, /basket/run and /customer/run: start_module_job of   *)
(* app/run_helpers.py, and its two ways to have the job done: a task in     *)
(* arq's queue, or process_job in the request itself under SYNC_JOBS.       *)
(***************************************************************************)
EXTENDS DatasetsApi, ArqQueue

CONSTANT SyncJobs   \* settings.sync_jobs

ASSUME RunAssumption ==
    /\ SyncJobs \in BOOLEAN
    /\ Runners = Workers \cup Handlers
    /\ Workers \cap Handlers = {}

(* The dataset exists in the caller's organization (404) and is ready (409).*)
RunModule(h, org, d, m, p, force) ==
    /\ Idle(h)
    /\ HasDataset(d, org)
    /\ datasets[d].status = "ready"
    /\ Serve(h, [IdleRequest EXCEPT
                 !.pc = IF force THEN "create" ELSE "find",
                 !.org = org, !.ds = d, !.module = m, !.params = p,
                 !.force = force])
    /\ UNCHANGED <<storeVars, faultVars, runs, arqVars>>

(* The answer to a run that was done before is that job's id.               *)
FindExisting(h) ==
    LET q == req[h] IN
    /\ At(h, "find")
    /\ IF SucceededJobs(q.org, q.ds, q.module, q.params) # {}
       THEN Respond(h)
       ELSE Proceed(h, "create")
    /\ UNCHANGED <<storeVars, faultVars, runs, arqVars>>

CreateJob(h) ==
    LET q == req[h]
        j == lastJob + 1 IN
    /\ At(h, "create")
    /\ q.ds \in DOMAIN datasets
    /\ create_job(q.org, q.ds, q.module, q.params)
    /\ Serve(h, [q EXCEPT !.pc = IF SyncJobs THEN "sync" ELSE "enqueue",
                          !.job = j])
    /\ IF SyncJobs THEN Resume(h, Called(j)) ELSE UNCHANGED runs
    /\ UNCHANGED <<datasets, objects, lastDataset, faultVars, arqVars>>

(* The dataset was deleted since it was checked: a foreign key violation.   *)
CreateRejected(h) ==
    /\ At(h, "create")
    /\ req[h].ds \notin DOMAIN datasets
    /\ Respond(h)
    /\ UNCHANGED <<storeVars, faultVars, runs, arqVars>>

Enqueue(h) ==
    /\ At(h, "enqueue")
    /\ enqueue_module_job(req[h].job)
    /\ Respond(h)
    /\ UNCHANGED <<runnerVars, leases, tries, held>>

(* process_job returned: the job is read back and its status returned.      *)
SyncReturn(h) ==
    /\ At(h, "sync")
    /\ runs[h].pc = "done"
    /\ Resume(h, IdleRun)
    /\ Respond(h)
    /\ UNCHANGED <<storeVars, faultVars, arqVars>>

(* process_job raised: a 500.                                               *)
SyncRaise(h) ==
    /\ At(h, "sync")
    /\ runs[h].pc = "raised"
    /\ Resume(h, IdleRun)
    /\ Respond(h)
    /\ UNCHANGED <<storeVars, faultVars, arqVars>>

(* A job whose request dies before the enqueue, or inside process_job, has  *)
(* a row and nobody to run it.                                              *)
RunRequestDies(h) ==
    /\ Spend("request")
    /\ req[h].pc \in RunPC
    /\ casualties' = casualties \cup
         (IF At(h, "enqueue") \/ (At(h, "sync") /\ Processing(h, req[h].job))
          THEN {<<"job", req[h].job>>} ELSE {})
    /\ Resume(h, IdleRun)
    /\ Respond(h)
    /\ UNCHANGED <<storeVars, succeededOnce, arqVars>>

RunStep(h) ==
    \/ FindExisting(h) \/ CreateJob(h) \/ CreateRejected(h)
    \/ Enqueue(h) \/ SyncReturn(h) \/ SyncRaise(h)

RunRequest(h) ==
    \E org \in Orgs, d \in DatasetId, m \in Modules, p \in Params, force \in BOOLEAN :
        RunModule(h, org, d, m, p, force)
=============================================================================
