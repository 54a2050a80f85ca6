------------------------------ MODULE VendiInv ------------------------------
(***************************************************************************)
(* The invariants of Vendi that the proofs of its properties rest on, in a  *)
(* module of their own so that TLC can check them first.                    *)
(***************************************************************************)
EXTENDS Vendi

----------------------------------------------------------------------------
(* Types.  TypeOK says what each variable may hold; at a given pc more is   *)
(* known of the local variables, and of a path's file more of its content.  *)

WithRow == {"mark_running", "load", "download", "upload", "mark_succeeded",
            "mark_failed"}

RunTyped(x) ==
    /\ x.pc # "idle" => x.job \in JobId
    /\ x.pc \in WithRow => x.row \in Snapshot
    /\ x.pc = "download" => x.path \in Path /\ x.path.file = "parquet"
    /\ x.pc = "upload" => x.result \in Result

RequestTyped(x) ==
    /\ x.pc # "idle" => x.org \in Orgs /\ x.ds \in DatasetId
    /\ x.pc \in UploadPC => x.data \in Uploads
    /\ x.pc \in RunPC => x.module \in Modules /\ x.params \in Params
    /\ x.pc \in {"enqueue", "sync"} => x.job \in JobId

RunsTyped == \A r \in Runners : RunTyped(runs[r])
RequestsTyped == \A h \in Handlers : RequestTyped(req[h])

ObjectsTyped ==
    \A p \in DOMAIN objects :
        IF p.file = "artifact" THEN objects[p] \in Result ELSE objects[p] \in Uploads

ParquetTyped ==
    \A d \in DOMAIN datasets :
        datasets[d].parquet_path # None => datasets[d].parquet_path.file = "parquet"

StoreInv == StoreTypeOK /\ ObjectsTyped /\ ParquetTyped
RunnerInv == RunnerTypeOK /\ RunsTyped
RequestInv == RequestTypeOK /\ RequestsTyped

TypeInv ==
    /\ StoreInv
    /\ FaultTypeOK
    /\ RunnerInv
    /\ ArqTypeOK
    /\ RequestInv

----------------------------------------------------------------------------
(* Tenancy.  A request that is under way is about a dataset that has been   *)
(* created, and if the dataset still exists it is the organization's own.   *)

RequestsAreAtHome ==
    \A h \in Handlers :
        req[h].pc # "idle" =>
            /\ req[h].ds \in 1..lastDataset
            /\ req[h].ds \in DOMAIN datasets => datasets[req[h].ds].org_id = req[h].org

(* A run that has fetched its job goes by a row that says what the job's    *)
(* row still says, and the same holds for it and its dataset.               *)
RunsAreAtHome ==
    \A r \in Runners :
        runs[r].pc \in WithRow =>
            LET j == runs[r].job
                d == runs[r].row.dataset_id IN
            /\ j \in 1..lastJob /\ d \in 1..lastDataset
            /\ j \in DOMAIN jobs => runs[r].row = Fetched(j)
            /\ d \in DOMAIN datasets => datasets[d].org_id = runs[r].row.org_id

(* No object is ahead of the tables: its ids have been handed out.          *)
ObjectsHaveIds ==
    \A p \in DOMAIN objects :
        /\ p.ds \in 1..lastDataset
        /\ p.file = "artifact" => p.job \in 1..lastJob

TenancyInv ==
    /\ JobsBelongToTheirDatasets
    /\ RequestsAreAtHome
    /\ RunsAreAtHome
    /\ ObjectsHaveIds
    /\ ObjectsBelongToTheirOrg

----------------------------------------------------------------------------
(* Provenance.  A row names no artifact, only its own objects, and once it  *)
(* has a parquet path, what is stored there is what it reports.             *)

RowTraced(d) ==
    /\ \A p \in StoredPaths(d) : p.file # "artifact" /\ p.ds = d
    /\ datasets[d].parquet_path # None =>
          \A p \in DOMAIN objects :
              p.file = "parquet" /\ p.ds = d => objects[p] = datasets[d].report

(* Until then only one request writes it.  No request removes an artifact.  *)
RequestTraced(h) ==
    LET d == req[h].ds IN
    /\ \A p \in req[h].paths : p.file # "artifact"
    /\ req[h].pc \in UploadPC =>
          /\ d \in DOMAIN datasets => datasets[d].parquet_path = None
          /\ \A g \in Handlers : req[g].pc \in UploadPC /\ req[g].ds = d => g = h
          /\ \A p \in DOMAIN objects :
                p.file = "parquet" /\ p.ds = d => objects[p] = req[h].data

(* The result of a job, as the rows have it.                                *)
Expected(j) == [data |-> datasets[jobs[j].dataset_id].report,
                module |-> jobs[j].module, params |-> jobs[j].params]

HasParquet(d) == datasets[d].parquet_path # None

(* A run computes from what its dataset, if it is still there, reports.     *)
RunTraced(r) ==
    LET row == runs[r].row
        d == row.dataset_id
        result == runs[r].result
        path == ArtifactPath(row.org_id, d, runs[r].job) IN
    /\ runs[r].pc \in {"fetch", "mark_running", "load", "download", "upload"} =>
          runs[r].artifact = None
    /\ runs[r].pc = "download" =>
          /\ runs[r].path.ds = d
          /\ d \in DOMAIN datasets => HasParquet(d)
    /\ runs[r].pc \in {"upload", "mark_succeeded"} =>
          /\ result \in Result /\ result.module = row.module /\ result.params = row.params
          /\ d \in DOMAIN datasets => HasParquet(d) /\ result.data = datasets[d].report
    /\ runs[r].pc = "upload" => Outcome[result] = "artifact"
    /\ runs[r].pc = "mark_succeeded" =>
          IF Outcome[result] = "artifact"
          THEN runs[r].artifact = path /\ path \in DOMAIN objects
          ELSE runs[r].artifact = None

ArtifactTraced(p) ==
    p.file = "artifact" /\ p.job \in DOMAIN jobs =>
        HasParquet(jobs[p.job].dataset_id) /\ objects[p] = Expected(p.job)

JobTraced(j) ==
    LET row == jobs[j]
        path == ArtifactPath(row.org_id, row.dataset_id, j) IN
    /\ row.status = "succeeded" => row.result_summary # None
    /\ row.result_summary = None => row.result_storage_path = None
    /\ row.result_summary # None =>
          /\ HasParquet(row.dataset_id) /\ row.result_summary = Expected(j)
          /\ IF Outcome[row.result_summary] = "artifact"
             THEN row.result_storage_path = path /\ path \in DOMAIN objects
             ELSE row.result_storage_path = None

TraceInv ==
    /\ \A d \in DOMAIN datasets : RowTraced(d)
    /\ \A h \in Handlers : RequestTraced(h)
    /\ \A r \in Runners : RunTraced(r)
    /\ \A p \in DOMAIN objects : ArtifactTraced(p)
    /\ \A j \in DOMAIN jobs : JobTraced(j)

----------------------------------------------------------------------------
(* Readiness.  A dataset is ready once it has a parquet path, and is        *)
(* settled by the upload that created it and by nobody else; a run request  *)
(* past its check, and a job, are about a ready one.                        *)

HasStatus(d, status) == d \in DOMAIN datasets => datasets[d].status = status

RequestReady(h) ==
    /\ req[h].pc \in UploadPC => HasStatus(req[h].ds, "validating")
    /\ req[h].pc \in {"find", "create"} => HasStatus(req[h].ds, "ready")

ReadinessInv ==
    /\ \A d \in DOMAIN datasets : datasets[d].status = "ready" <=> HasParquet(d)
    /\ \A h \in Handlers : RequestReady(h)
    /\ \A j \in DOMAIN jobs : HasStatus(jobs[j].dataset_id, "ready")

----------------------------------------------------------------------------
(* Custody.  A job whose task is not in the queue yet is in the hands of    *)
(* the one request that created it.                                         *)

Created(h, j) == req[h].pc \in {"enqueue", "sync"} /\ req[h].job = j

CreatorsAgree ==
    /\ \A r \in Runners : runs[r].pc = "idle" => runs[r].job = 0
    /\ \A h \in Handlers : runs[h].job = IF At(h, "sync") THEN req[h].job ELSE 0
    /\ \A h \in Handlers, j \in JobId :
          Created(h, j) =>
              /\ j \in 1..lastJob /\ j \notin queue \cup leases /\ tries[j] = 0
              /\ \A w \in Workers : ~Holds(w, j)
              /\ \A g \in Handlers : Created(g, j) => g = h

(* No task is ahead of the tables.                                          *)
TasksHaveIds ==
    /\ queue \cup leases \subseteq 1..lastJob
    /\ \A j \in JobId : j > lastJob => tries[j] = 0
    /\ \A w \in Workers, j \in JobId : Holds(w, j) => j <= lastJob

(* As long as no lease expires under a worker, a task is held by one, which *)
(* has the lease, and stays in the queue until it is finished.              *)
HoldersAgree ==
    \A w \in Workers, j \in JobId :
        Holds(w, j) =>
            /\ j \in queue \cap leases
            /\ ~(j \in held[w] /\ runs[w].job = j)
            /\ \A v \in Workers : Holds(v, j) => v = w

(* A run that has ended has settled its job, or nobody will.                *)
EndsAreKnown ==
    \A r \in Runners :
        LET j == runs[r].job IN
        runs[r].pc \in {"done", "raised"} /\ j \in DOMAIN jobs =>
            jobs[j].status \in Terminal \/ <<"job", j>> \in casualties

CustodyInv ==
    /\ CreatorsAgree
    /\ TasksHaveIds
    /\ faults["lease"] = 0 => HoldersAgree /\ EndsAreKnown
    /\ NoJobIsForgotten

----------------------------------------------------------------------------
(* First runs.  A job that is run for the first time is run by one process; *)
(* its row says how far, if no answer was lost.                             *)

FirstRun(j) == tries[j] <= 1

RunsAreCounted ==
    \A r \in Runners, j \in JobId :
        runs[r].job = j =>
            /\ r \in Workers => tries[j] > 0
            /\ \A q \in Runners : runs[q].job = j /\ FirstRun(j) => q = r

Untouched(j) ==
    jobs[j].status = "queued" /\ jobs[j].error = "none" /\ jobs[j].result_summary = None

UnderWay(j) ==
    jobs[j].status = "running" /\ jobs[j].error = "none" /\ jobs[j].result_summary = None

Early == {"fetch", "mark_running"}
Late == WithRow \ {"mark_running"}

RequestAgrees(h) ==
    At(h, "enqueue") /\ req[h].job \in DOMAIN jobs => Untouched(req[h].job)

RunReady(x) ==
    /\ x.pc = "mark_failed" => x.error # "none"
    /\ x.pc = "mark_succeeded" => x.result # None

RunAgrees(x) ==
    x.job \in DOMAIN jobs /\ FirstRun(x.job) =>
        /\ x.pc \in Early => Untouched(x.job)
        /\ x.pc \in Late => UnderWay(x.job)

FirstRunsAgree ==
    /\ \A j \in queue \cap DOMAIN jobs : tries[j] = 0 => Untouched(j)
    /\ \A h \in Handlers : RequestAgrees(h)
    /\ \A r \in Runners : RunReady(runs[r]) /\ RunAgrees(runs[r])
    /\ \A j \in succeededOnce \cap DOMAIN jobs :
          FirstRun(j) => jobs[j].status = "succeeded"

FirstRunInv ==
    /\ RunsAreCounted
    /\ succeededOnce \subseteq 1..lastJob
    /\ faults["io"] = 0 => FirstRunsAgree
    /\ RowsAreConsistent

(* A job that a request ran to the end is settled.                          *)
DoneIsSettled ==
    \A h \in Handlers :
        runs[h].pc = "done" /\ runs[h].job \in DOMAIN jobs =>
            jobs[runs[h].job].status \in Terminal

(* Without crashes and overruns, every run is a first run, and no worker    *)
(* that has a lease goes away.                                              *)
TasksRunOnce ==
    /\ \A j \in JobId :
          /\ FirstRun(j)
          /\ j \in queue \ leases => tries[j] = 0
          /\ \A w \in Workers : j \in held[w] => tries[j] = 0
    /\ \A j \in leases : \E w \in Workers : Holds(w, j)

RunOnceInv ==
    /\ \A k \in FaultKinds : faults[k] <= Budget[k]
    /\ faults["worker"] = 0 /\ faults["lease"] = 0 => TasksRunOnce

----------------------------------------------------------------------------
(* Rows come and go, but an id is never given to a second row, and the      *)
(* columns that say what a row is about never change.                       *)

Identity(row) == <<row.org_id, row.dataset_id, row.module, row.params>>

RowsKeepTheirIdentity ==
    /\ \A d \in DOMAIN datasets' :
          IF d \in DOMAIN datasets
          THEN datasets'[d].org_id = datasets[d].org_id
          ELSE d > lastDataset /\ d <= lastDataset'
    /\ \A j \in DOMAIN jobs' :
          IF j \in DOMAIN jobs
          THEN Identity(jobs'[j]) = Identity(jobs[j])
          ELSE j > lastJob /\ j <= lastJob'

IdentitiesAreStable == [][RowsKeepTheirIdentity]_vars
=============================================================================
