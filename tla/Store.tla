------------------------------- MODULE Store -------------------------------
(***************************************************************************)
(* What the API processes and the workers share: the Postgres tables        *)
(* `datasets` and `jobs` (migrations/0001_init.sql, app/db.py) and the      *)
(* storage bucket (app/storage.py).                                         *)
(*                                                                         *)
(* A table is a function whose domain is the set of ids of its rows, the    *)
(* bucket a function from object paths to contents.  Ids are handed out in  *)
(* creation order and never reused, so "order by created_at desc" is the    *)
(* descending order of ids.  Column values that no decision of the program  *)
(* depends on (names, timestamps, counts) are left out; null is None.       *)
(***************************************************************************)
EXTENDS Integers, FiniteSets

CONSTANTS
    Orgs,           \* organizations
    Uploads,        \* the distinct CSV files users upload
    ValidUploads,   \* those whose validation report has no errors
    Modules,        \* "forecast", "basket", "customer", or fewer of them
    Params,         \* distinct `params` objects of run requests
    Outcome,        \* what a module computes: see OutcomeAssumption
    MaxDatasets,    \* bound: datasets rows ever created
    MaxJobs,        \* bound: jobs rows ever created
    None            \* null

VARIABLES
    datasets,       \* the datasets table
    jobs,           \* the jobs table
    objects,        \* the storage bucket
    lastDataset,    \* id of the newest datasets row ever created
    lastJob         \* id of the newest jobs row ever created

storeVars == <<datasets, jobs, objects, lastDataset, lastJob>>

DatasetId == 1..MaxDatasets
JobId == 1..MaxJobs

(***************************************************************************)
(* Object paths.  The three constructors are the f-strings of storage.py;   *)
(* an artifact's file name is a function of the job's module.               *)
(***************************************************************************)
Path == [org: Orgs, ds: DatasetId, job: JobId \cup {0},
         file: {"raw", "parquet", "artifact"}]

RawPath(org, d) == [org |-> org, ds |-> d, job |-> 0, file |-> "raw"]
ParquetPath(org, d) == [org |-> org, ds |-> d, job |-> 0, file |-> "parquet"]
ArtifactPath(org, d, j) == [org |-> org, ds |-> d, job |-> j, file |-> "artifact"]

(***************************************************************************)
(* A result names what it was computed from.  The raw and parquet objects   *)
(* hold the upload they come from, an artifact holds the result it lists.   *)
(***************************************************************************)
Result == [data: Uploads, module: Modules, params: Params]
Content == Uploads \cup Result

(***************************************************************************)
(* A module either rejects the data (ValueError), or returns a summary, or  *)
(* returns a summary and rows for an artifact.  forecast never has an       *)
(* artifact, customer always has one, basket has one when there are more    *)
(* rules than the summary may hold.                                         *)
(***************************************************************************)
OutcomeAssumption ==
    /\ Outcome \in [Result -> {"error", "summary", "artifact"}]
    /\ \A r \in Result :
          /\ r.module = "forecast" => Outcome[r] # "artifact"
          /\ r.module = "customer" => Outcome[r] # "summary"

ASSUME StoreAssumption ==
    /\ MaxDatasets \in Nat \ {0}
    /\ MaxJobs \in Nat \ {0}
    /\ ValidUploads \subseteq Uploads
    /\ None \notin Path \cup Content
    /\ Uploads \cap Result = {}
    /\ OutcomeAssumption

DatasetRow == [org_id: Orgs,
               status: {"validating", "ready", "failed"},
               storage_path: Path \cup {None},
               parquet_path: Path \cup {None},
               report: Uploads \cup {None}]

JobRow == [org_id: Orgs, dataset_id: DatasetId,
           module: Modules, params: Params,
           status: {"queued", "running", "succeeded", "failed"},
           error: {"none", "actionable", "generic"},
           result_summary: Result \cup {None},
           result_storage_path: Path \cup {None}]

Terminal == {"succeeded", "failed"}

StoreTypeOK ==
    /\ lastDataset \in 0..MaxDatasets
    /\ lastJob \in 0..MaxJobs
    /\ DOMAIN datasets \subseteq 1..lastDataset
    /\ datasets \in [DOMAIN datasets -> DatasetRow]
    /\ DOMAIN jobs \subseteq 1..lastJob
    /\ jobs \in [DOMAIN jobs -> JobRow]
    /\ DOMAIN objects \subseteq Path
    /\ objects \in [DOMAIN objects -> Content]

StoreInit ==
    /\ datasets = [d \in {} |-> None]
    /\ jobs = [j \in {} |-> None]
    /\ objects = [p \in {} |-> None]
    /\ lastDataset = 0
    /\ lastJob = 0

----------------------------------------------------------------------------
(* Tables as functions.                                                     *)

Put(table, id, row) ==
    [i \in DOMAIN table \cup {id} |-> IF i = id THEN row ELSE table[i]]

Without(table, ids) == [i \in DOMAIN table \ ids |-> table[i]]

----------------------------------------------------------------------------
(* app/db.py.  Each helper is one request to Postgres, hence one atomic     *)
(* step; every one but get_job_by_id filters on org_id.                     *)

(* Mutant: the filter on org_id is left to the policies.                    *)
HasDatasetOfAny(d, org) == d \in DOMAIN datasets

HasDataset(d, org) == d \in DOMAIN datasets /\ datasets[d].org_id = org

HasJob(j, org) == j \in DOMAIN jobs /\ jobs[j].org_id = org

(* Mutant: ids are counted up from the rows there are.                      *)
CountedDatasetId == Cardinality(DOMAIN datasets) + 1

NewDatasetId == lastDataset + 1

create_dataset(org) ==
    /\ lastDataset < MaxDatasets
    /\ lastDataset' = NewDatasetId
    /\ datasets' = Put(datasets, NewDatasetId,
                       [org_id |-> org, status |-> "validating",
                        storage_path |-> None, parquet_path |-> None,
                        report |-> None])

update_dataset(d, row) == datasets' = [datasets EXCEPT ![d] = row]

(* Deleting a row deletes the jobs that reference it (on delete cascade).   *)
delete_dataset(d, org) ==
    IF HasDataset(d, org)
    THEN /\ datasets' = Without(datasets, {d})
         /\ jobs' = Without(jobs, {j \in DOMAIN jobs : jobs[j].dataset_id = d})
    ELSE UNCHANGED <<datasets, jobs>>

(* The insert of a job whose dataset is gone violates the foreign key; the  *)
(* caller guards this action with the existence of the dataset.  Nothing in *)
(* the schema compares the two rows' org_id.                                *)
create_job(org, d, m, p) ==
    /\ lastJob < MaxJobs
    /\ lastJob' = lastJob + 1
    /\ jobs' = Put(jobs, lastJob + 1,
                   [org_id |-> org, dataset_id |-> d, module |-> m,
                    params |-> p, status |-> "queued", error |-> "none",
                    result_summary |-> None, result_storage_path |-> None])

update_job(j, row) == jobs' = [jobs EXCEPT ![j] = row]

(* Mutant: the newest job is taken before its status is looked at.          *)
NewestIfSucceeded(org, d, m, p) ==
    LET same == {j \in DOMAIN jobs : /\ jobs[j].org_id = org
                                     /\ jobs[j].dataset_id = d
                                     /\ jobs[j].module = m
                                     /\ jobs[j].params = p} IN
    {j \in same : jobs[j].status = "succeeded" /\ \A k \in same : k <= j}

SucceededJobs(org, d, m, p) ==
    {j \in DOMAIN jobs : /\ jobs[j].org_id = org
                         /\ jobs[j].dataset_id = d
                         /\ jobs[j].module = m
                         /\ jobs[j].status = "succeeded"
                         /\ jobs[j].params = p}

----------------------------------------------------------------------------
(* app/storage.py: uploads overwrite (x-upsert), removals ignore absent     *)
(* paths.                                                                   *)

upload_bytes(path, content) == objects' = Put(objects, path, content)

delete_paths(paths) == objects' = Without(objects, paths)
=============================================================================
