---------------------------- MODULE VendiProofs -----------------------------
(***************************************************************************)
(* Proofs about what Vendi stores: it keeps its types, local variables      *)
(* included, and the identities of its rows; rows and objects belong to     *)
(* their organization, artifacts and results to their job; and a dataset    *)
(* that is ready stays so.                                                  *)
(***************************************************************************)
EXTENDS VendiInv, DatasetsProofs

(* The operations of the database and the bucket keep StoreInv.             *)

(* A new datasets row.                                                      *)
LEMMA CreateDatasetStoreInv ==
    ASSUME StoreInv, NEW org \in Orgs, create_dataset(org),
           UNCHANGED <<jobs, objects, lastJob>>
    PROVE  StoreInv'
<1> DEFINE row == [org_id |-> org, status |-> "validating",
                   storage_path |-> None, parquet_path |-> None, report |-> None]
<1>1. row \in DatasetRow
  BY DEF DatasetRow
<1>2. datasets' = Put(datasets, lastDataset + 1, row) /\ lastDataset' = lastDataset + 1
  BY DEF create_dataset, NewDatasetId
<1>3. lastDataset \in Nat /\ lastDataset' \in 0..MaxDatasets
  BY StoreAssumption DEF create_dataset, NewDatasetId, StoreInv, StoreTypeOK
<1>4. /\ DOMAIN datasets' = DOMAIN datasets \cup {lastDataset + 1}
      /\ datasets' \in [DOMAIN datasets' -> DatasetRow]
      /\ datasets'[lastDataset + 1] = row
      /\ \A k \in DOMAIN datasets : k # lastDataset + 1 => datasets'[k] = datasets[k]
  BY <1>1, <1>2 DEF Put, StoreInv, StoreTypeOK
<1>5. DOMAIN datasets' \subseteq 1..lastDataset'
  BY <1>2, <1>3, <1>4 DEF StoreInv, StoreTypeOK
<1>6. StoreTypeOK'
  BY <1>3, <1>4, <1>5 DEF StoreInv, StoreTypeOK
<1>7. ParquetTyped'
  BY <1>4 DEF StoreInv, ParquetTyped
<1>8. ObjectsTyped'
  BY DEF StoreInv, ObjectsTyped
<1> QED
  BY <1>6, <1>7, <1>8 DEF StoreInv

(* An update of a datasets row.                                             *)
LEMMA UpdateDatasetStoreInv ==
    ASSUME StoreInv, NEW d \in DOMAIN datasets, NEW row \in DatasetRow,
           row.parquet_path # None => row.parquet_path.file = "parquet",
           update_dataset(d, row), UNCHANGED <<jobs, objects, lastDataset, lastJob>>
    PROVE  StoreInv'
<1>1. /\ DOMAIN datasets' = DOMAIN datasets
      /\ datasets' \in [DOMAIN datasets' -> DatasetRow]
      /\ datasets'[d] = row
      /\ \A k \in DOMAIN datasets : k # d => datasets'[k] = datasets[k]
  BY DEF update_dataset, StoreInv, StoreTypeOK
<1>2. StoreTypeOK'
  BY <1>1 DEF StoreInv, StoreTypeOK
<1>3. ParquetTyped' /\ ObjectsTyped'
  BY <1>1 DEF StoreInv, ParquetTyped, ObjectsTyped
<1> QED
  BY <1>2, <1>3 DEF StoreInv

(* A delete, with its cascade.                                              *)
LEMMA DeleteDatasetStoreInv ==
    ASSUME StoreInv, NEW d, NEW org, delete_dataset(d, org),
           UNCHANGED <<objects, lastDataset, lastJob>>
    PROVE  StoreInv'
<1>1. CASE HasDataset(d, org)
  <2> DEFINE gone == {j \in DOMAIN jobs : jobs[j].dataset_id = d}
  <2>1. datasets' = Without(datasets, {d}) /\ jobs' = Without(jobs, gone)
    BY <1>1 DEF delete_dataset
  <2>2. /\ DOMAIN datasets' = DOMAIN datasets \ {d}
        /\ datasets' \in [DOMAIN datasets' -> DatasetRow]
        /\ \A k \in DOMAIN datasets' : datasets'[k] = datasets[k]
    BY <2>1 DEF Without, StoreInv, StoreTypeOK
  <2>3. /\ DOMAIN jobs' = DOMAIN jobs \ gone
        /\ jobs' \in [DOMAIN jobs' -> JobRow]
    BY <2>1 DEF Without, StoreInv, StoreTypeOK
  <2>4. StoreTypeOK'
    BY <2>2, <2>3 DEF StoreInv, StoreTypeOK
  <2>5. ParquetTyped' /\ ObjectsTyped'
    BY <2>2 DEF StoreInv, ParquetTyped, ObjectsTyped
  <2> QED
    BY <2>4, <2>5 DEF StoreInv
<1>2. CASE ~HasDataset(d, org)
  BY <1>2 DEF delete_dataset, StoreInv, StoreTypeOK, ParquetTyped, ObjectsTyped
<1> QED
  BY <1>1, <1>2

(* A new jobs row.                                                          *)
LEMMA CreateJobStoreInv ==
    ASSUME StoreInv, NEW org \in Orgs, NEW d \in DatasetId, NEW m \in Modules,
           NEW p \in Params, create_job(org, d, m, p),
           UNCHANGED <<datasets, objects, lastDataset>>
    PROVE  StoreInv' /\ lastJob + 1 \in JobId
<1> DEFINE row == [org_id |-> org, dataset_id |-> d, module |-> m, params |-> p,
                   status |-> "queued", error |-> "none",
                   result_summary |-> None, result_storage_path |-> None]
<1>1. row \in JobRow
  BY DEF JobRow
<1>2. jobs' = Put(jobs, lastJob + 1, row) /\ lastJob' = lastJob + 1
  BY DEF create_job
<1>3. lastJob \in Nat /\ lastJob' \in 0..MaxJobs /\ lastJob + 1 \in JobId
  BY StoreAssumption DEF create_job, StoreInv, StoreTypeOK, JobId
<1>4. /\ DOMAIN jobs' = DOMAIN jobs \cup {lastJob + 1}
      /\ jobs' \in [DOMAIN jobs' -> JobRow]
  BY <1>1, <1>2 DEF Put, StoreInv, StoreTypeOK
<1>5. DOMAIN jobs' \subseteq 1..lastJob'
  BY <1>2, <1>3, <1>4 DEF StoreInv, StoreTypeOK
<1>6. StoreTypeOK'
  BY <1>3, <1>4, <1>5 DEF StoreInv, StoreTypeOK
<1>7. ParquetTyped' /\ ObjectsTyped'
  BY DEF StoreInv, ParquetTyped, ObjectsTyped
<1> QED
  BY <1>3, <1>6, <1>7 DEF StoreInv

(* An update of a jobs row.                                                 *)
LEMMA UpdateJobStoreInv ==
    ASSUME StoreInv, NEW j \in DOMAIN jobs, NEW row \in JobRow,
           update_job(j, row), UNCHANGED <<datasets, objects, lastDataset, lastJob>>
    PROVE  StoreInv'
<1>1. /\ DOMAIN jobs' = DOMAIN jobs
      /\ jobs' \in [DOMAIN jobs' -> JobRow]
  BY DEF update_job, StoreInv, StoreTypeOK
<1>2. StoreTypeOK'
  BY <1>1 DEF StoreInv, StoreTypeOK
<1>3. ParquetTyped' /\ ObjectsTyped'
  BY DEF StoreInv, ParquetTyped, ObjectsTyped
<1> QED
  BY <1>2, <1>3 DEF StoreInv

(* An upload to the bucket.                                                 *)
LEMMA UploadBytesStoreInv ==
    ASSUME StoreInv, NEW p \in Path, NEW c \in Content,
           IF p.file = "artifact" THEN c \in Result ELSE c \in Uploads,
           upload_bytes(p, c), UNCHANGED <<datasets, jobs, lastDataset, lastJob>>
    PROVE  StoreInv'
<1>1. /\ DOMAIN objects' = DOMAIN objects \cup {p}
      /\ objects' \in [DOMAIN objects' -> Content]
      /\ objects'[p] = c
      /\ \A q \in DOMAIN objects : q # p => objects'[q] = objects[q]
  BY DEF Put, upload_bytes, StoreInv, StoreTypeOK
<1>2. StoreTypeOK'
  BY <1>1 DEF StoreInv, StoreTypeOK
<1>3. ObjectsTyped'
  BY <1>1 DEF StoreInv, ObjectsTyped
<1>4. ParquetTyped'
  BY DEF StoreInv, ParquetTyped
<1> QED
  BY <1>2, <1>3, <1>4 DEF StoreInv

(* A removal from the bucket.                                               *)
LEMMA DeletePathsStoreInv ==
    ASSUME StoreInv, NEW T, delete_paths(T),
           UNCHANGED <<datasets, jobs, lastDataset, lastJob>>
    PROVE  StoreInv'
<1>1. /\ DOMAIN objects' = DOMAIN objects \ T
      /\ objects' \in [DOMAIN objects' -> Content]
      /\ \A q \in DOMAIN objects' : objects'[q] = objects[q]
  BY DEF Without, delete_paths, StoreInv, StoreTypeOK
<1>2. StoreTypeOK'
  BY <1>1 DEF StoreInv, StoreTypeOK
<1>3. ObjectsTyped' /\ ParquetTyped'
  BY <1>1 DEF StoreInv, ObjectsTyped, ParquetTyped
<1> QED
  BY <1>2, <1>3 DEF StoreInv

(* A step that leaves the database and the bucket alone.                    *)
LEMMA StoreFrame ==
    ASSUME StoreInv, UNCHANGED storeVars
    PROVE  StoreInv'
  BY DEF StoreInv, StoreTypeOK, ObjectsTyped, ParquetTyped, storeVars

----------------------------------------------------------------------------
(* The other groups of variables.                                           *)

(* A runner goes on with new local variables.                               *)
LEMMA ResumeRunnerInv ==
    ASSUME RunnerInv, NEW r \in Runners, NEW x \in Run, RunTyped(x), Resume(r, x)
    PROVE  RunnerInv'
  BY DEF RunnerInv, RunnerTypeOK, RunsTyped, Resume, RunTyped

(* No runner moves.                                                         *)
LEMMA RunnerFrame ==
    ASSUME RunnerInv, UNCHANGED runs
    PROVE  RunnerInv'
  BY DEF RunnerInv, RunnerTypeOK, RunsTyped, RunTyped

(* The local variables of a runner that is not in process_job, or has just  *)
(* been called.                                                             *)
LEMMA CalledTyped ==
    /\ IdleRun \in Run /\ RunTyped(IdleRun)
    /\ \A j \in JobId : Called(j) \in Run /\ RunTyped(Called(j))
  BY DEF IdleRun, Called, Run, RunnerPC, RunTyped, WithRow

(* A handler goes on with new local variables.                              *)
LEMMA ServeRequestInv ==
    ASSUME RequestInv, NEW h \in Handlers, NEW x \in Request, RequestTyped(x),
           Serve(h, x)
    PROVE  RequestInv'
  BY DEF RequestInv, RequestTypeOK, RequestsTyped, Serve, RequestTyped

(* No handler moves.                                                        *)
LEMMA RequestFrame ==
    ASSUME RequestInv, UNCHANGED req
    PROVE  RequestInv'
  BY DEF RequestInv, RequestTypeOK, RequestsTyped, RequestTyped

(* A handler without a request.                                             *)
LEMMA IdleRequestTyped == IdleRequest \in Request /\ RequestTyped(IdleRequest)
  BY DEF IdleRequest, Request, RequestTyped, UploadPC, DeletePC, RowsPC, RunPC

(* A request ends.                                                          *)
LEMMA RespondRequestInv ==
    ASSUME RequestInv, NEW h \in Handlers, Respond(h)
    PROVE  RequestInv'
  BY IdleRequestTyped, ServeRequestInv DEF Respond

(* A fault is counted.                                                      *)
LEMMA SpendFaultTypeOK ==
    ASSUME FaultTypeOK, NEW k \in FaultKinds, Spend(k), UNCHANGED succeededOnce,
           casualties' \subseteq Casualty
    PROVE  FaultTypeOK'
  BY DEF FaultTypeOK, Spend

(* No fault, and nothing to remember.                                       *)
LEMMA FaultFrame ==
    ASSUME FaultTypeOK, UNCHANGED faultVars
    PROVE  FaultTypeOK'
  BY DEF FaultTypeOK, faultVars

(* arq does nothing.                                                        *)
LEMMA ArqFrame ==
    ASSUME ArqTypeOK, UNCHANGED arqVars
    PROVE  ArqTypeOK'
  BY DEF ArqTypeOK, arqVars
----------------------------------------------------------------------------
(* Every action keeps TypeInv.  First, what TypeInv says of the process     *)
(* that takes the step.                                                     *)

(* The local variables of a run have their types.                           *)
LEMMA RunFacts ==
    ASSUME TypeInv, NEW r \in Runners
    PROVE  runs[r] \in Run /\ RunTyped(runs[r])
  BY DEF TypeInv, RunnerInv, RunnerTypeOK, RunsTyped

(* So have those of a request.                                              *)
LEMMA RequestFacts ==
    ASSUME TypeInv, NEW h \in Handlers
    PROVE  req[h] \in Request /\ RequestTyped(req[h])
  BY DEF TypeInv, RequestInv, RequestTypeOK, RequestsTyped

(* And a row of datasets.                                                   *)
LEMMA DatasetFacts ==
    ASSUME TypeInv, NEW d \in DOMAIN datasets
    PROVE  datasets[d] \in DatasetRow /\ d \in DatasetId
  BY StoreAssumption DEF TypeInv, StoreInv, StoreTypeOK, DatasetId

(* And a row of jobs.                                                       *)
LEMMA JobFacts ==
    ASSUME TypeInv, NEW j \in DOMAIN jobs
    PROVE  jobs[j] \in JobRow /\ j \in JobId
  BY StoreAssumption DEF TypeInv, StoreInv, StoreTypeOK, JobId

(* null is no path and no content.                                          *)
LEMMA NoneFacts == None \notin Path /\ None \notin Result /\ None \notin Uploads
  BY StoreAssumption DEF Content

(* The three constructors of app/storage.py give paths of three kinds.      *)
LEMMA PathFacts ==
    ASSUME NEW org \in Orgs, NEW d \in DatasetId
    PROVE  /\ RawPath(org, d) \in Path /\ RawPath(org, d).file = "raw"
           /\ ParquetPath(org, d) \in Path /\ ParquetPath(org, d).file = "parquet"
           /\ \A j \in JobId : /\ ArtifactPath(org, d, j) \in Path
                               /\ ArtifactPath(org, d, j).file = "artifact"
  BY DEF RawPath, ParquetPath, ArtifactPath, Path

----------------------------------------------------------------------------
(* The dataset requests.                                                    *)

(* upload_dataset inserts a well-formed row.                                *)
LEMMA UploadDatasetTyped ==
    ASSUME TypeInv, NEW h \in Handlers, NEW org \in Orgs, NEW data \in Uploads,
           UploadDataset(h, org, data), UNCHANGED <<runs, arqVars>>
    PROVE  TypeInv'
<1> DEFINE x == [IdleRequest EXCEPT !.pc = "put_raw", !.org = org,
                                    !.ds = lastDataset + 1, !.data = data]
<1>1. lastDataset + 1 \in DatasetId
  BY StoreAssumption DEF UploadDataset, create_dataset, TypeInv, StoreInv,
     StoreTypeOK, DatasetId
<1>2. x \in Request /\ RequestTyped(x)
  BY <1>1 DEF IdleRequest, Request, RequestTyped, UploadPC, DeletePC, RowsPC, RunPC
<1>3. RequestInv'
  BY <1>2, ServeRequestInv DEF UploadDataset, NewDatasetId, TypeInv
<1>4. StoreInv'
  BY CreateDatasetStoreInv DEF UploadDataset, TypeInv
<1> QED
  BY <1>3, <1>4, FaultFrame, RunnerFrame, ArqFrame DEF UploadDataset, TypeInv

(* An upload of one of the two objects of a dataset.                        *)
LEMMA PutObjectTyped ==
    ASSUME TypeInv, NEW h \in Handlers, req[h].pc \in {"put_raw", "put_parquet"},
           NEW p \in Path, p.file # "artifact", upload_bytes(p, req[h].data),
           NEW pc \in {"put_parquet", "mark_invalid", "mark_ready"}, Proceed(h, pc),
           UNCHANGED <<datasets, jobs, lastDataset, lastJob, faultVars, runs, arqVars>>
    PROVE  TypeInv'
<1> DEFINE x == [req[h] EXCEPT !.pc = pc]
<1>1. req[h] \in Request /\ RequestTyped(req[h])
  BY RequestFacts
<1>2. x \in Request /\ RequestTyped(x)
  BY <1>1 DEF Request, RequestTyped, UploadPC, RunPC
<1>3. RequestInv'
  BY <1>2, ServeRequestInv DEF Proceed, TypeInv
<1>4. req[h].data \in Uploads /\ req[h].data \in Content
  BY <1>1 DEF RequestTyped, UploadPC, Content
<1>5. StoreInv'
  BY <1>4, UploadBytesStoreInv DEF TypeInv
<1> QED
  BY <1>3, <1>5, FaultFrame, RunnerFrame, ArqFrame DEF TypeInv

(* It uploads the raw file under a raw path.                                *)
LEMMA PutRawTyped ==
    ASSUME TypeInv, NEW h \in Handlers, PutRaw(h), UNCHANGED <<runs, arqVars>>
    PROVE  TypeInv'
<1>1. req[h].org \in Orgs /\ req[h].ds \in DatasetId
  BY RequestFacts DEF PutRaw, At, RequestTyped
<1>2. RawPath(req[h].org, req[h].ds) \in Path
      /\ RawPath(req[h].org, req[h].ds).file # "artifact"
  BY <1>1, PathFacts
<1> QED
  BY <1>2, PutObjectTyped DEF PutRaw, AfterRaw, At

(* And the cleaned data under a parquet path.                               *)
LEMMA PutParquetTyped ==
    ASSUME TypeInv, NEW h \in Handlers, PutParquet(h), UNCHANGED <<runs, arqVars>>
    PROVE  TypeInv'
<1>1. req[h].org \in Orgs /\ req[h].ds \in DatasetId
  BY RequestFacts DEF PutParquet, At, RequestTyped
<1>2. ParquetPath(req[h].org, req[h].ds) \in Path
      /\ ParquetPath(req[h].org, req[h].ds).file # "artifact"
  BY <1>1, PathFacts
<1> QED
  BY <1>2, PutObjectTyped DEF PutParquet, At

(* The row of a rejected upload stays well-formed.                          *)
LEMMA MarkInvalidTyped ==
    ASSUME TypeInv, NEW h \in Handlers, MarkInvalid(h), UNCHANGED <<runs, arqVars>>
    PROVE  TypeInv'
<1> DEFINE d == req[h].ds
           row == [datasets[d] EXCEPT !.status = "failed",
                                      !.storage_path = RawPath(req[h].org, d),
                                      !.report = req[h].data]
<1>1. req[h].org \in Orgs /\ d \in DatasetId /\ req[h].data \in Uploads
  BY RequestFacts DEF MarkInvalid, At, RequestTyped, UploadPC
<1>2. RequestInv'
  BY RespondRequestInv DEF MarkInvalid, Settle, FailedRow, TypeInv
<1>3. StoreInv'
  <2>1. CASE HasDataset(d, req[h].org)
    <3>1. d \in DOMAIN datasets /\ update_dataset(d, row)
      BY <2>1 DEF HasDataset, MarkInvalid, Settle, FailedRow
    <3>2. datasets[d] \in DatasetRow /\ RawPath(req[h].org, d) \in Path
      BY <3>1, <1>1, DatasetFacts, PathFacts
    <3>3. row \in DatasetRow
      BY <3>2, <1>1 DEF DatasetRow
    <3>4. row.parquet_path # None => row.parquet_path.file = "parquet"
      BY <3>1, <3>2 DEF TypeInv, StoreInv, ParquetTyped, DatasetRow
    <3> QED
      BY <3>1, <3>3, <3>4, UpdateDatasetStoreInv DEF MarkInvalid, Settle, FailedRow, TypeInv
  <2>2. CASE ~HasDataset(d, req[h].org)
    BY <2>2, StoreFrame DEF MarkInvalid, Settle, FailedRow, TypeInv, storeVars
  <2> QED
    BY <2>1, <2>2
<1> QED
  BY <1>2, <1>3, FaultFrame, RunnerFrame, ArqFrame DEF MarkInvalid, Settle, FailedRow, TypeInv

(* The row of an accepted upload gets a path of each kind.                  *)
LEMMA MarkReadyTyped ==
    ASSUME TypeInv, NEW h \in Handlers, MarkReady(h), UNCHANGED <<runs, arqVars>>
    PROVE  TypeInv'
<1> DEFINE d == req[h].ds
           row == [datasets[d] EXCEPT !.status = "ready",
                                      !.storage_path = RawPath(req[h].org, d),
                                      !.parquet_path = ParquetPath(req[h].org, d),
                                      !.report = req[h].data]
<1>1. req[h].org \in Orgs /\ d \in DatasetId /\ req[h].data \in Uploads
  BY RequestFacts DEF MarkReady, At, RequestTyped, UploadPC
<1>2. RequestInv'
  BY RespondRequestInv DEF MarkReady, Settle, ReadyRow, TypeInv
<1>3. StoreInv'
  <2>1. CASE HasDataset(d, req[h].org)
    <3>1. d \in DOMAIN datasets /\ update_dataset(d, row)
      BY <2>1 DEF HasDataset, MarkReady, Settle, ReadyRow
    <3>2. /\ datasets[d] \in DatasetRow
          /\ RawPath(req[h].org, d) \in Path
          /\ ParquetPath(req[h].org, d) \in Path
          /\ ParquetPath(req[h].org, d).file = "parquet"
      BY <3>1, <1>1, DatasetFacts, PathFacts
    <3>3. row \in DatasetRow /\ row.parquet_path.file = "parquet"
      BY <3>2, <1>1 DEF DatasetRow
    <3> QED
      BY <3>1, <3>3, UpdateDatasetStoreInv DEF MarkReady, Settle, ReadyRow, TypeInv
  <2>2. CASE ~HasDataset(d, req[h].org)
    BY <2>2, StoreFrame DEF MarkReady, Settle, ReadyRow, TypeInv, storeVars
  <2> QED
    BY <2>1, <2>2
<1> QED
  BY <1>2, <1>3, FaultFrame, RunnerFrame, ArqFrame DEF MarkReady, Settle, ReadyRow, TypeInv

(* delete_dataset remembers paths.                                          *)
LEMMA DeleteDatasetTyped ==
    ASSUME TypeInv, NEW h \in Handlers, NEW org \in Orgs, NEW d \in DatasetId,
           DeleteDataset(h, org, d), UNCHANGED <<runs, arqVars>>
    PROVE  TypeInv'
<1> DEFINE paths == {datasets[d].storage_path, datasets[d].parquet_path} \ {None}
           x == [IdleRequest EXCEPT
                   !.pc = IF paths # {} THEN "remove" ELSE "delete_row",
                   !.org = org, !.ds = d, !.paths = paths]
<1>1. paths \subseteq Path
  BY DatasetFacts DEF DeleteDataset, HasDataset, DatasetRow
<1>2. x \in Request /\ RequestTyped(x)
  BY <1>1 DEF IdleRequest, Request, RequestTyped, UploadPC, DeletePC, RowsPC, RunPC
<1>3. RequestInv'
  BY <1>2, ServeRequestInv DEF DeleteDataset, StoredPaths, TypeInv
<1> QED
  BY <1>3, StoreFrame, FaultFrame, RunnerFrame, ArqFrame DEF DeleteDataset, TypeInv

(* Removing objects changes no other one.                                   *)
LEMMA RemoveObjectsTyped ==
    ASSUME TypeInv, NEW h \in Handlers, RemoveObjects(h), UNCHANGED <<runs, arqVars>>
    PROVE  TypeInv'
<1> DEFINE x == [req[h] EXCEPT !.pc = "delete_row"]
<1>1. req[h] \in Request /\ RequestTyped(req[h]) /\ req[h].pc = "remove"
  BY RequestFacts DEF RemoveObjects, At
<1>2. x \in Request /\ RequestTyped(x)
  BY <1>1 DEF Request, RequestTyped, UploadPC, DeletePC, RunPC
<1>3. RequestInv'
  BY <1>2, ServeRequestInv DEF RemoveObjects, Proceed, TypeInv
<1>4. StoreInv'
  BY DeletePathsStoreInv DEF RemoveObjects, TypeInv
<1> QED
  BY <1>3, <1>4, FaultFrame, RunnerFrame, ArqFrame DEF RemoveObjects, TypeInv

(* Removing a row, and its jobs with it, changes no other one.              *)
LEMMA DeleteRowTyped ==
    ASSUME TypeInv, NEW h \in Handlers, DeleteRow(h), UNCHANGED <<runs, arqVars>>
    PROVE  TypeInv'
<1>1. RequestInv'
  BY RespondRequestInv DEF DeleteRow, TypeInv
<1>2. StoreInv'
  BY DeleteDatasetStoreInv DEF DeleteRow, TypeInv
<1>3. FaultTypeOK'
  <2>1. req[h].ds \in Nat \ {0}
    BY RequestFacts, StoreAssumption DEF DeleteRow, At, RequestTyped, DatasetId
  <2> QED
    BY <2>1 DEF DeleteRow, TypeInv, FaultTypeOK, Casualty
<1> QED
  BY <1>1, <1>2, <1>3, RunnerFrame, ArqFrame DEF DeleteRow, TypeInv

(* get_dataset_rows remembers a path.                                       *)
LEMMA GetRowsTyped ==
    ASSUME TypeInv, NEW h \in Handlers, NEW org \in Orgs, NEW d \in DatasetId,
           GetRows(h, org, d), UNCHANGED <<runs, arqVars>>
    PROVE  TypeInv'
<1> DEFINE x == [IdleRequest EXCEPT !.pc = "read_rows", !.org = org, !.ds = d,
                                    !.paths = {datasets[d].parquet_path}]
<1>1. datasets[d].parquet_path \in Path
  BY DatasetFacts DEF GetRows, Servable, HasDataset, DatasetRow
<1>2. x \in Request /\ RequestTyped(x)
  BY <1>1 DEF IdleRequest, Request, RequestTyped, UploadPC, DeletePC, RowsPC, RunPC
<1>3. RequestInv'
  BY <1>2, ServeRequestInv DEF GetRows, TypeInv
<1> QED
  BY <1>3, StoreFrame, FaultFrame, RunnerFrame, ArqFrame DEF GetRows, TypeInv

(* Answering changes only the request.                                      *)
LEMMA ReadRowsTyped ==
    ASSUME TypeInv, NEW h \in Handlers, ReadRows(h), UNCHANGED <<runs, arqVars>>
    PROVE  TypeInv'
  BY RespondRequestInv, StoreFrame, FaultFrame, RunnerFrame, ArqFrame
     DEF ReadRows, TypeInv

(* A dataset request that dies leaves a well-formed casualty.               *)
LEMMA DatasetRequestDiesTyped ==
    ASSUME TypeInv, NEW h \in Handlers, DatasetRequestDies(h), UNCHANGED <<runs, arqVars>>
    PROVE  TypeInv'
<1>1. RequestInv'
  BY RespondRequestInv DEF DatasetRequestDies, TypeInv
<1>2. FaultTypeOK'
  <2>1. req[h].ds \in Nat \ {0}
    BY RequestFacts, StoreAssumption
       DEF DatasetRequestDies, RequestTyped, DatasetId, UploadPC, DeletePC, RowsPC
  <2>2. casualties' \subseteq Casualty
    BY <2>1 DEF DatasetRequestDies, TypeInv, FaultTypeOK, Casualty
  <2> QED
    BY <2>2, SpendFaultTypeOK DEF DatasetRequestDies, TypeInv, FaultKinds
<1> QED
  BY <1>1, <1>2, StoreFrame, RunnerFrame, ArqFrame DEF DatasetRequestDies, TypeInv

----------------------------------------------------------------------------
(* The run requests.                                                        *)

(* start_module_job begins with a well-formed request.                      *)
LEMMA RunModuleTyped ==
    ASSUME TypeInv, NEW h \in Handlers, NEW org \in Orgs, NEW d \in DatasetId,
           NEW m \in Modules, NEW p \in Params, NEW force \in BOOLEAN,
           RunModule(h, org, d, m, p, force)
    PROVE  TypeInv'
<1> DEFINE x == [IdleRequest EXCEPT
                   !.pc = IF force THEN "create" ELSE "find",
                   !.org = org, !.ds = d, !.module = m, !.params = p,
                   !.force = force]
<1>1. x \in Request /\ RequestTyped(x)
  BY DEF IdleRequest, Request, RequestTyped, UploadPC, DeletePC, RowsPC, RunPC
<1>2. RequestInv'
  BY <1>1, ServeRequestInv DEF RunModule, TypeInv
<1> QED
  BY <1>2, StoreFrame, FaultFrame, RunnerFrame, ArqFrame DEF RunModule, TypeInv

(* The idempotency lookup changes only the request.                         *)
LEMMA FindExistingTyped ==
    ASSUME TypeInv, NEW h \in Handlers, FindExisting(h)
    PROVE  TypeInv'
<1> DEFINE x == [req[h] EXCEPT !.pc = "create"]
<1>1. req[h] \in Request /\ RequestTyped(req[h]) /\ req[h].pc = "find"
  BY RequestFacts DEF FindExisting, At
<1>2. x \in Request /\ RequestTyped(x)
  BY <1>1 DEF Request, RequestTyped, UploadPC, RunPC
<1>3. Respond(h) \/ Serve(h, x)
  BY DEF FindExisting, Proceed
<1>4. RequestInv'
  BY <1>2, <1>3, RespondRequestInv, ServeRequestInv DEF TypeInv
<1> QED
  BY <1>4, StoreFrame, FaultFrame, RunnerFrame, ArqFrame DEF FindExisting, TypeInv

(* create_job inserts a well-formed row, and SYNC_JOBS calls process_job on *)
(* it.                                                                      *)
LEMMA CreateJobTyped ==
    ASSUME TypeInv, NEW h \in Handlers, CreateJob(h)
    PROVE  TypeInv'
<1> DEFINE j == lastJob + 1
           x == [req[h] EXCEPT !.pc = IF SyncJobs THEN "sync" ELSE "enqueue", !.job = j]
<1>1. req[h] \in Request /\ RequestTyped(req[h]) /\ req[h].pc = "create"
  BY RequestFacts DEF CreateJob, At
<1>2. /\ req[h].org \in Orgs /\ req[h].ds \in DatasetId
      /\ req[h].module \in Modules /\ req[h].params \in Params
  BY <1>1 DEF RequestTyped, RunPC
<1>3. StoreInv' /\ j \in JobId
  BY <1>2, CreateJobStoreInv DEF CreateJob, TypeInv
<1>4. x \in Request /\ RequestTyped(x)
  BY <1>1, <1>3 DEF Request, RequestTyped, UploadPC, RunPC
<1>5. RequestInv'
  BY <1>4, ServeRequestInv DEF CreateJob, TypeInv
<1>6. RunnerInv'
  <2>1. CASE SyncJobs
    BY <2>1, <1>3, CalledTyped, ResumeRunnerInv, RunAssumption DEF CreateJob, TypeInv
  <2>2. CASE ~SyncJobs
    BY <2>2, RunnerFrame DEF CreateJob, TypeInv
  <2> QED
    BY <2>1, <2>2
<1> QED
  BY <1>3, <1>5, <1>6, FaultFrame, ArqFrame DEF CreateJob, TypeInv

(* A foreign key violation changes only the request.                        *)
LEMMA CreateRejectedTyped ==
    ASSUME TypeInv, NEW h \in Handlers, CreateRejected(h)
    PROVE  TypeInv'
  BY RespondRequestInv, StoreFrame, FaultFrame, RunnerFrame, ArqFrame
     DEF CreateRejected, TypeInv

(* Only jobs are enqueued.                                                  *)
LEMMA EnqueueTyped ==
    ASSUME TypeInv, NEW h \in Handlers, Enqueue(h)
    PROVE  TypeInv'
<1>1. req[h].job \in JobId
  BY RequestFacts DEF Enqueue, At, RequestTyped
<1>2. ArqTypeOK'
  BY <1>1 DEF Enqueue, enqueue_module_job, TypeInv, ArqTypeOK
<1>3. UNCHANGED <<storeVars, faultVars, runs>>
  BY DEF Enqueue, runnerVars
<1> QED
  BY <1>2, <1>3, RespondRequestInv, StoreFrame, FaultFrame, RunnerFrame
     DEF Enqueue, TypeInv

(* Both ways out of a SYNC_JOBS run end the request.                        *)
LEMMA SyncEndTyped ==
    ASSUME TypeInv, NEW h \in Handlers, SyncReturn(h) \/ SyncRaise(h)
    PROVE  TypeInv'
<1>1. Respond(h) /\ Resume(h, IdleRun) /\ UNCHANGED <<storeVars, faultVars, arqVars>>
  BY DEF SyncReturn, SyncRaise
<1>2. RunnerInv'
  BY <1>1, CalledTyped, ResumeRunnerInv, RunAssumption DEF TypeInv
<1> QED
  BY <1>1, <1>2, RespondRequestInv, StoreFrame, FaultFrame, ArqFrame DEF TypeInv

(* A run request that dies leaves a well-formed casualty.                   *)
LEMMA RunRequestDiesTyped ==
    ASSUME TypeInv, NEW h \in Handlers, RunRequestDies(h)
    PROVE  TypeInv'
<1>1. RunnerInv'
  BY CalledTyped, ResumeRunnerInv, RunAssumption DEF RunRequestDies, TypeInv
<1>2. FaultTypeOK'
  <2>1. At(h, "enqueue") \/ At(h, "sync") => req[h].job \in Nat \ {0}
    BY RequestFacts, StoreAssumption DEF At, RequestTyped, JobId
  <2>2. casualties' \subseteq Casualty
    BY <2>1 DEF RunRequestDies, TypeInv, FaultTypeOK, Casualty
  <2> QED
    BY <2>2, SpendFaultTypeOK DEF RunRequestDies, TypeInv, FaultKinds
<1> QED
  BY <1>1, <1>2, RespondRequestInv, StoreFrame, ArqFrame DEF RunRequestDies, TypeInv

----------------------------------------------------------------------------
(* process_job.                                                             *)

(* The runner goes to the except branch.                                    *)
LEMMA CatchRunnerInv ==
    ASSUME TypeInv, NEW r \in Runners, runs[r].pc \in WithRow,
           NEW e \in {"actionable", "generic"}, Catch(r, e)
    PROVE  RunnerInv'
<1> DEFINE x == [runs[r] EXCEPT !.pc = "mark_failed", !.error = e]
<1>1. runs[r] \in Run /\ RunTyped(runs[r])
  BY RunFacts
<1>2. x \in Run /\ RunTyped(x)
  BY <1>1 DEF Run, RunnerPC, RunTyped, WithRow
<1> QED
  BY <1>2, ResumeRunnerInv DEF Catch, TypeInv

(* The runner goes on to a call that needs no new local variable.           *)
LEMMA GotoRunnerInv ==
    ASSUME TypeInv, NEW r \in Runners, runs[r].pc # "idle",
           NEW pc \in {"load", "done", "raised"}, Goto(r, pc),
           pc = "load" => runs[r].pc \in WithRow
    PROVE  RunnerInv'
<1> DEFINE x == [runs[r] EXCEPT !.pc = pc]
<1>1. runs[r] \in Run /\ RunTyped(runs[r])
  BY RunFacts
<1>2. x \in Run /\ RunTyped(x)
  BY <1>1 DEF Run, RunnerPC, RunTyped, WithRow
<1> QED
  BY <1>2, ResumeRunnerInv DEF Goto, TypeInv

(* process_job fetches a well-formed row, or ends.                          *)
LEMMA FetchTyped ==
    ASSUME TypeInv, NEW r \in Runners, Fetch(r), UNCHANGED <<arqVars, req>>
    PROVE  TypeInv'
<1> DEFINE j == runs[r].job
           x == [runs[r] EXCEPT !.pc = "mark_running", !.row = Fetched(j)]
<1>1. runs[r] \in Run /\ RunTyped(runs[r]) /\ runs[r].pc = "fetch"
  BY RunFacts DEF Fetch
<1>2. RunnerInv'
  <2>1. CASE j \in DOMAIN jobs
    <3>1. Fetched(j) \in Snapshot
      BY <2>1, JobFacts DEF Fetched, Snapshot, JobRow
    <3>2. x \in Run /\ RunTyped(x)
      BY <1>1, <3>1 DEF Run, RunnerPC, RunTyped, WithRow
    <3> QED
      BY <2>1, <3>2, ResumeRunnerInv DEF Fetch, TypeInv
  <2>2. CASE j \notin DOMAIN jobs
    BY <2>2, <1>1, GotoRunnerInv DEF Fetch
  <2> QED
    BY <2>1, <2>2
<1> QED
  BY <1>2, StoreFrame, FaultFrame, RequestFrame, ArqFrame DEF Fetch, TypeInv

(* The writes of process_job keep the store's types.                        *)
LEMMA WriteStoreInv ==
    ASSUME TypeInv, NEW r \in Runners, RowThere(r),
           WriteRunning(r) \/ WriteSucceeded(r) \/ WriteFailed(r),
           UNCHANGED <<datasets, objects, lastDataset, lastJob>>
    PROVE  StoreInv'
<1> DEFINE j == runs[r].job
<1>1. j \in DOMAIN jobs /\ jobs[j] \in JobRow
  BY JobFacts DEF RowThere, HasJob
<1>2. runs[r] \in Run
  BY RunFacts
<1>3. CASE WriteRunning(r)
  <2>1. [jobs[j] EXCEPT !.status = "running"] \in JobRow
    BY <1>1 DEF JobRow
  <2> QED
    BY <1>1, <1>3, <2>1, UpdateJobStoreInv DEF WriteRunning, TypeInv
<1>4. CASE WriteSucceeded(r)
  <2>1. [jobs[j] EXCEPT !.status = "succeeded", !.result_summary = runs[r].result,
                        !.result_storage_path = runs[r].artifact] \in JobRow
    BY <1>1, <1>2 DEF JobRow, Run
  <2> QED
    BY <1>1, <1>4, <2>1, UpdateJobStoreInv DEF WriteSucceeded, TypeInv
<1>5. CASE WriteFailed(r)
  <2>1. [jobs[j] EXCEPT !.status = "failed", !.error = runs[r].error] \in JobRow
    BY <1>1, <1>2 DEF JobRow, Run
  <2> QED
    BY <1>1, <1>5, <2>1, UpdateJobStoreInv DEF WriteFailed, TypeInv
<1> QED
  BY <1>3, <1>4, <1>5

(* The upload of an artifact too.                                           *)
LEMMA WriteArtifactStoreInv ==
    ASSUME TypeInv, NEW r \in Runners, runs[r].pc = "upload", WriteArtifact(r),
           UNCHANGED <<datasets, jobs, lastDataset, lastJob>>
    PROVE  StoreInv'
<1>1. runs[r].row \in Snapshot /\ runs[r].job \in JobId /\ runs[r].result \in Result
  BY RunFacts DEF RunTyped, WithRow
<1> DEFINE p == ArtifactPath(runs[r].row.org_id, runs[r].row.dataset_id, runs[r].job)
<1>2. p \in Path /\ p.file = "artifact"
  BY <1>1, PathFacts DEF Snapshot
<1>3. runs[r].result \in Content
  BY <1>1 DEF Content
<1> QED
  BY <1>1, <1>2, <1>3, UploadBytesStoreInv DEF WriteArtifact, TypeInv

(* The update to running keeps the row well-formed, or raises.              *)
LEMMA MarkRunningTyped ==
    ASSUME TypeInv, NEW r \in Runners, MarkRunning(r), UNCHANGED <<arqVars, req>>
    PROVE  TypeInv'
<1>1. RunnerInv'
  BY GotoRunnerInv DEF MarkRunning, WithRow
<1>2. StoreInv'
  <2>1. CASE RowThere(r)
    BY <2>1, WriteStoreInv DEF MarkRunning
  <2>2. CASE ~RowThere(r)
    BY <2>2, StoreFrame DEF MarkRunning, TypeInv, storeVars
  <2> QED
    BY <2>1, <2>2
<1> QED
  BY <1>1, <1>2, FaultFrame, RequestFrame, ArqFrame DEF MarkRunning, TypeInv

(* The dataset's path, if it has one, is a parquet path.                    *)
LEMMA LoadTyped ==
    ASSUME TypeInv, NEW r \in Runners, Load(r), UNCHANGED <<arqVars, req>>
    PROVE  TypeInv'
<1> DEFINE d == runs[r].row.dataset_id
           ok == HasDataset(d, runs[r].row.org_id) /\ datasets[d].parquet_path # None
           x == [runs[r] EXCEPT !.pc = "download", !.path = datasets[d].parquet_path]
<1>1. runs[r] \in Run /\ RunTyped(runs[r]) /\ runs[r].pc = "load"
  BY RunFacts DEF Load
<1>2. RunnerInv'
  <2>1. CASE ok
    <3>1. datasets[d].parquet_path \in Path
      BY <2>1, DatasetFacts DEF HasDataset, DatasetRow
    <3>2. datasets[d].parquet_path.file = "parquet"
      BY <2>1 DEF HasDataset, TypeInv, StoreInv, ParquetTyped
    <3>3. x \in Run /\ RunTyped(x)
      BY <1>1, <3>1, <3>2 DEF Run, RunnerPC, RunTyped, WithRow
    <3> QED
      BY <2>1, <3>3, ResumeRunnerInv DEF Load, TypeInv
  <2>2. CASE ~ok
    BY <2>2, <1>1, CatchRunnerInv DEF Load, WithRow
  <2> QED
    BY <2>1, <2>2
<1> QED
  BY <1>2, StoreFrame, FaultFrame, RequestFrame, ArqFrame DEF Load, TypeInv

(* A module computes a result from what the parquet object holds.           *)
LEMMA ComputeTyped ==
    ASSUME TypeInv, NEW r \in Runners, Compute(r), UNCHANGED <<arqVars, req>>
    PROVE  TypeInv'
<1> DEFINE row == runs[r].row
           result == [data |-> objects[runs[r].path], module |-> row.module,
                      params |-> row.params]
           x == [runs[r] EXCEPT !.pc = IF Outcome[result] = "artifact"
                                       THEN "upload" ELSE "mark_succeeded",
                                !.result = result]
<1>1. runs[r] \in Run /\ RunTyped(runs[r]) /\ runs[r].pc = "download"
  BY RunFacts DEF Compute
<1>2. ASSUME runs[r].path \in DOMAIN objects, Resume(r, x)
      PROVE  RunnerInv'
  <2>1. runs[r].path.file = "parquet" /\ row \in Snapshot
    BY <1>1 DEF RunTyped, WithRow
  <2>2. objects[runs[r].path] \in Uploads
    BY <1>2, <2>1 DEF TypeInv, StoreInv, ObjectsTyped
  <2>3. result \in Result
    BY <2>1, <2>2 DEF Result, Snapshot
  <2>4. x \in Run /\ RunTyped(x)
    BY <1>1, <2>1, <2>3 DEF Run, RunnerPC, RunTyped, WithRow
  <2> QED
    BY <1>2, <2>4, ResumeRunnerInv DEF TypeInv
<1>3. RunnerInv'
  BY <1>1, <1>2, CatchRunnerInv DEF Compute, NoObject, Rejected, WithRow
<1> QED
  BY <1>3, StoreFrame, FaultFrame, RequestFrame, ArqFrame DEF Compute, TypeInv

(* An artifact goes under an artifact path and holds a result.              *)
LEMMA UploadArtifactTyped ==
    ASSUME TypeInv, NEW r \in Runners, UploadArtifact(r), UNCHANGED <<arqVars, req>>
    PROVE  TypeInv'
<1> DEFINE p == ArtifactPath(runs[r].row.org_id, runs[r].row.dataset_id, runs[r].job)
           x == [runs[r] EXCEPT !.pc = "mark_succeeded", !.artifact = p]
<1>1. runs[r] \in Run /\ RunTyped(runs[r]) /\ runs[r].pc = "upload"
  BY RunFacts DEF UploadArtifact
<1>2. p \in Path
  BY <1>1, PathFacts DEF RunTyped, WithRow, Snapshot
<1>3. x \in Run /\ RunTyped(x)
  BY <1>1, <1>2 DEF Run, RunnerPC, RunTyped, WithRow
<1>4. RunnerInv'
  BY <1>3, ResumeRunnerInv DEF UploadArtifact, TypeInv
<1>5. StoreInv'
  BY WriteArtifactStoreInv DEF UploadArtifact
<1> QED
  BY <1>4, <1>5, FaultFrame, RequestFrame, ArqFrame DEF UploadArtifact, TypeInv

(* The history of succeeded jobs gains a job.                               *)
LEMMA WriteSucceededHistory ==
    ASSUME TypeInv, NEW r \in Runners, WriteSucceeded(r), RowThere(r)
    PROVE  succeededOnce' \subseteq Nat
<1>1. runs[r].job \in Nat
  BY JobFacts, StoreAssumption DEF RowThere, HasJob, JobId
<1> QED
  BY <1>1 DEF WriteSucceeded, TypeInv, FaultTypeOK

(* The update to succeeded stores a result and a path.                      *)
LEMMA MarkSucceededTyped ==
    ASSUME TypeInv, NEW r \in Runners, MarkSucceeded(r), UNCHANGED <<arqVars, req>>
    PROVE  TypeInv'
<1>1. CASE RowThere(r)
  <2>1. RunnerInv'
    BY <1>1, GotoRunnerInv DEF MarkSucceeded
  <2>2. StoreInv'
    BY <1>1, WriteStoreInv DEF MarkSucceeded
  <2>3. FaultTypeOK'
    BY <1>1, WriteSucceededHistory DEF MarkSucceeded, TypeInv, FaultTypeOK
  <2> QED
    BY <2>1, <2>2, <2>3, RequestFrame, ArqFrame DEF TypeInv
<1>2. CASE ~RowThere(r)
  <2>1. RunnerInv'
    BY <1>2, CatchRunnerInv DEF MarkSucceeded, WithRow
  <2>2. UNCHANGED <<storeVars, faultVars>>
    BY <1>2 DEF MarkSucceeded, storeVars, faultVars
  <2> QED
    BY <2>1, <2>2, StoreFrame, FaultFrame, RequestFrame, ArqFrame DEF TypeInv
<1> QED
  BY <1>1, <1>2

(* The update to failed stores an error.                                    *)
LEMMA MarkFailedTyped ==
    ASSUME TypeInv, NEW r \in Runners, MarkFailed(r), UNCHANGED <<arqVars, req>>
    PROVE  TypeInv'
<1>1. RunnerInv'
  BY GotoRunnerInv DEF MarkFailed
<1>2. StoreInv'
  <2>1. CASE RowThere(r)
    BY <2>1, WriteStoreInv DEF MarkFailed
  <2>2. CASE ~RowThere(r)
    BY <2>2, StoreFrame DEF MarkFailed, TypeInv, storeVars
  <2> QED
    BY <2>1, <2>2
<1> QED
  BY <1>1, <1>2, FaultFrame, RequestFrame, ArqFrame DEF MarkFailed, TypeInv

(* A call of process_job raises, in the try or outside it.                  *)
LEMMA RaiseOrCatchTyped ==
    ASSUME TypeInv, NEW r \in Runners, RaiseOrCatch(r)
    PROVE  RunnerInv' /\ casualties' \subseteq Casualty
<1>1. CASE runs[r].pc \in InTry /\ Catch(r, "generic") /\ UNCHANGED casualties
  BY <1>1, CatchRunnerInv DEF InTry, WithRow, TypeInv, FaultTypeOK
<1>2. CASE /\ runs[r].pc \in OutsideTry
           /\ Goto(r, "raised")
           /\ casualties' = casualties \cup {<<"job", runs[r].job>>}
  <2>1. RunnerInv'
    BY <1>2, GotoRunnerInv DEF OutsideTry
  <2>2. runs[r].job \in Nat \ {0}
    BY <1>2, RunFacts, StoreAssumption DEF OutsideTry, RunTyped, JobId
  <2> QED
    BY <1>2, <2>1, <2>2 DEF TypeInv, FaultTypeOK, Casualty
<1> QED
  BY <1>1, <1>2 DEF RaiseOrCatch

(* A call that raises leads to the except branch or out of process_job.     *)
LEMMA CallFailsTyped ==
    ASSUME TypeInv, NEW r \in Runners, CallFails(r), UNCHANGED <<arqVars, req>>
    PROVE  TypeInv'
<1>1. RunnerInv' /\ casualties' \subseteq Casualty
  BY RaiseOrCatchTyped DEF CallFails
<1>2. FaultTypeOK'
  BY <1>1, SpendFaultTypeOK DEF CallFails, TypeInv, FaultKinds
<1> QED
  BY <1>1, <1>2, StoreFrame, RequestFrame, ArqFrame DEF CallFails, TypeInv

(* So does one whose answer is lost, after it took effect.                  *)
LEMMA AnswerLostTyped ==
    ASSUME TypeInv, NEW r \in Runners, AnswerLost(r), UNCHANGED <<arqVars, req>>
    PROVE  TypeInv'
<1>1. RunnerInv' /\ casualties' \subseteq Casualty
  BY RaiseOrCatchTyped DEF AnswerLost
<1>2. StoreInv'
  BY WriteArtifactStoreInv, WriteStoreInv DEF AnswerLost
<1>3. succeededOnce' \subseteq Nat
  BY WriteSucceededHistory DEF AnswerLost, TypeInv, FaultTypeOK
<1>4. FaultTypeOK'
  BY <1>1, <1>3 DEF AnswerLost, Spend, TypeInv, FaultTypeOK, FaultKinds
<1> QED
  BY <1>1, <1>2, <1>4, RequestFrame, ArqFrame DEF AnswerLost, TypeInv

----------------------------------------------------------------------------
(* arq.                                                                     *)

(* A worker claims tasks that exist.                                        *)
LEMMA ClaimTyped ==
    ASSUME TypeInv, NEW w \in Workers, NEW j \in JobId, Claim(w, j), UNCHANGED req
    PROVE  TypeInv'
<1>1. UNCHANGED <<storeVars, faultVars, runs>>
  BY DEF Claim, runnerVars
<1>2. ArqTypeOK'
  BY DEF Claim, TypeInv, ArqTypeOK
<1> QED
  BY <1>1, <1>2, StoreFrame, FaultFrame, RunnerFrame, RequestFrame DEF TypeInv

(* It calls process_job on a task it claimed.                               *)
LEMMA StartTyped ==
    ASSUME TypeInv, NEW w \in Workers, NEW j \in JobId, Start(w, j), UNCHANGED req
    PROVE  TypeInv'
<1>1. RunnerInv'
  BY CalledTyped, ResumeRunnerInv, ArqAssumption DEF Start, TypeInv
<1>2. ArqTypeOK'
  BY DEF Start, LeaveInQueue, TypeInv, ArqTypeOK
<1> QED
  BY <1>1, <1>2, StoreFrame, FaultFrame, RequestFrame DEF Start, TypeInv

(* It may drop one instead, which is a casualty then.                       *)
LEMMA DiscardTyped ==
    ASSUME TypeInv, NEW w \in Workers, NEW j \in JobId, Discard(w, j), UNCHANGED req
    PROVE  TypeInv'
<1>1. FaultTypeOK'
  BY StoreAssumption DEF Discard, TypeInv, FaultTypeOK, Casualty, JobId
<1>2. ArqTypeOK'
  BY DEF Discard, Drop, TypeInv, ArqTypeOK
<1> QED
  BY <1>1, <1>2, StoreFrame, RunnerFrame, RequestFrame DEF Discard, TypeInv

(* A finished task leaves queue and leases.                                 *)
LEMMA FinishTyped ==
    ASSUME TypeInv, NEW w \in Workers, Finish(w), UNCHANGED req
    PROVE  TypeInv'
<1>1. RunnerInv'
  BY CalledTyped, ResumeRunnerInv, ArqAssumption DEF Finish, TypeInv
<1>2. ArqTypeOK'
  BY DEF Finish, TypeInv, ArqTypeOK
<1> QED
  BY <1>1, <1>2, StoreFrame, FaultFrame, RequestFrame DEF Finish, TypeInv

(* A lease may go at any time.                                              *)
LEMMA LeaseTyped ==
    ASSUME TypeInv, NEW j \in JobId, LeaseExpires(j) \/ LeaseOverrun(j), UNCHANGED req
    PROVE  TypeInv'
<1>1. UNCHANGED <<storeVars, runs, casualties, succeededOnce>>
  BY DEF LeaseExpires, LeaseOverrun, runnerVars, faultVars
<1>2. ArqTypeOK'
  BY DEF LeaseExpires, LeaseOverrun, TypeInv, ArqTypeOK
<1>3. FaultTypeOK'
  BY <1>1, FaultFrame, SpendFaultTypeOK
     DEF LeaseExpires, LeaseOverrun, runnerVars, TypeInv, FaultTypeOK, FaultKinds
<1> QED
  BY <1>1, <1>2, <1>3, StoreFrame, RunnerFrame, RequestFrame DEF TypeInv

(* A worker that died starts again with nothing in hand.                    *)
LEMMA WorkerCrashTyped ==
    ASSUME TypeInv, NEW w \in Workers, WorkerCrash(w), UNCHANGED req
    PROVE  TypeInv'
<1>1. RunnerInv'
  BY CalledTyped, ResumeRunnerInv, ArqAssumption DEF WorkerCrash, TypeInv
<1>2. ArqTypeOK'
  BY DEF WorkerCrash, TypeInv, ArqTypeOK
<1>3. FaultTypeOK'
  BY SpendFaultTypeOK DEF WorkerCrash, TypeInv, FaultTypeOK, FaultKinds
<1> QED
  BY <1>1, <1>2, <1>3, StoreFrame, RequestFrame DEF WorkerCrash, TypeInv

----------------------------------------------------------------------------
(* Type correctness.                                                        *)

(* The types hold at the start, when there is nothing.                      *)
LEMMA InitTyped == Init => TypeInv
<1> SUFFICES ASSUME Init PROVE TypeInv
  OBVIOUS
<1>1. StoreInv
  BY StoreAssumption DEF Init, StoreInit, StoreInv, StoreTypeOK, ObjectsTyped, ParquetTyped
<1>2. FaultTypeOK
  BY DEF Init, FaultInit, FaultTypeOK
<1>3. RunnerInv
  BY CalledTyped DEF Init, RunnerInit, RunnerInv, RunnerTypeOK, RunsTyped
<1>4. ArqTypeOK
  BY DEF Init, ArqInit, ArqTypeOK
<1>5. RequestInv
  BY IdleRequestTyped DEF Init, RequestInit, RequestInv, RequestTypeOK, RequestsTyped
<1> QED
  BY <1>1, <1>2, <1>3, <1>4, <1>5 DEF TypeInv

(* Every step keeps the types.                                              *)
LEMMA NextTyped == TypeInv /\ [Next]_vars => TypeInv'
<1> SUFFICES ASSUME TypeInv, [Next]_vars PROVE TypeInv'
  OBVIOUS
<1>1. ASSUME NEW h \in Handlers, NewRequest(h) PROVE TypeInv'
  BY <1>1, UploadDatasetTyped, DeleteDatasetTyped, GetRowsTyped, RunModuleTyped
     DEF NewRequest, DatasetRequest, RunRequest
<1>2. ASSUME NEW h \in Handlers, DatasetStep(h), UNCHANGED <<runs, arqVars>>
      PROVE  TypeInv'
  BY <1>2, PutRawTyped, MarkInvalidTyped, PutParquetTyped, MarkReadyTyped,
     RemoveObjectsTyped, DeleteRowTyped, ReadRowsTyped DEF DatasetStep
<1>3. ASSUME NEW h \in Handlers, RunStep(h) PROVE TypeInv'
  BY <1>3, FindExistingTyped, CreateJobTyped, CreateRejectedTyped, EnqueueTyped,
     SyncEndTyped DEF RunStep
<1>4. ASSUME NEW h \in Handlers, RequestDies(h) PROVE TypeInv'
  BY <1>4, DatasetRequestDiesTyped, RunRequestDiesTyped DEF RequestDies
<1>5. ASSUME NEW r \in Runners, ProcessJob(r) PROVE TypeInv'
  BY <1>5, FetchTyped, MarkRunningTyped, LoadTyped, ComputeTyped, UploadArtifactTyped,
     MarkSucceededTyped, MarkFailedTyped DEF ProcessJob, RunnerStep
<1>6. ASSUME NEW r \in Runners, CallRaises(r) PROVE TypeInv'
  BY <1>6, CallFailsTyped, AnswerLostTyped DEF CallRaises
<1>7. ASSUME NEW w \in Workers, NEW j \in JobId, ArqStep(w, j), UNCHANGED req
      PROVE  TypeInv'
  BY <1>7, ClaimTyped, StartTyped, DiscardTyped DEF ArqStep
<1>8. CASE UNCHANGED vars
  BY <1>8, StoreFrame, FaultFrame, RunnerFrame, RequestFrame, ArqFrame DEF vars, TypeInv
<1> QED
  BY <1>1, <1>2, <1>3, <1>4, <1>5, <1>6, <1>7, <1>8, FinishTyped, LeaseTyped,
     WorkerCrashTyped DEF Next, HandlerStep

(* The local variables and the store always hold what their pc and their    *)
(* path promise.                                                            *)
THEOREM LocalTypesCorrect == Spec => []TypeInv
  BY InitTyped, NextTyped, PTL DEF Spec

(* Type correctness of the whole service.                                   *)
THEOREM TypeCorrect == Spec => []TypeOK
<1>1. TypeInv => TypeOK
  BY DEF TypeInv, TypeOK, StoreInv, RunnerInv, RequestInv
<1> QED
  BY <1>1, LocalTypesCorrect, PTL

----------------------------------------------------------------------------
(***************************************************************************)
(* The ways a step can change the two tables: most do not.                  *)
(***************************************************************************)
TableFrame == UNCHANGED <<datasets, jobs, lastDataset, lastJob>>

JobWrite(r) ==
    /\ RowThere(r)
    /\ \/ runs[r].pc = "mark_running" /\ WriteRunning(r)
       \/ runs[r].pc = "mark_succeeded" /\ WriteSucceeded(r)
       \/ runs[r].pc = "mark_failed" /\ WriteFailed(r)
    /\ UNCHANGED <<datasets, objects, lastDataset, lastJob>>

(* Only five kinds of step change a table: an insert or an update of either, *)
(* and a delete.                                                            *)
LEMMA TableSteps ==
    ASSUME [Next]_vars
    PROVE  \/ TableFrame
           \/ \E h \in Handlers, org \in Orgs, data \in Uploads :
                 UploadDataset(h, org, data)
           \/ \E h \in Handlers : MarkInvalid(h) \/ MarkReady(h)
           \/ \E h \in Handlers : DeleteRow(h)
           \/ \E h \in Handlers : CreateJob(h)
           \/ \E r \in Runners : JobWrite(r)
<1>1. ASSUME NEW h \in Handlers, RequestDies(h) PROVE TableFrame
  BY <1>1 DEF RequestDies, DatasetRequestDies, RunRequestDies, storeVars, TableFrame
<1>2. ASSUME NEW h \in Handlers, NewRequest(h)
      PROVE  \/ TableFrame
             \/ \E org \in Orgs, data \in Uploads : UploadDataset(h, org, data)
  BY <1>2 DEF NewRequest, DatasetRequest, RunRequest, DeleteDataset, GetRows, RunModule,
              storeVars, TableFrame
<1>3. ASSUME NEW h \in Handlers, DatasetStep(h)
      PROVE  TableFrame \/ MarkInvalid(h) \/ MarkReady(h) \/ DeleteRow(h)
  BY <1>3 DEF DatasetStep, PutRaw, PutParquet, RemoveObjects, ReadRows, storeVars,
              TableFrame
<1>4. ASSUME NEW h \in Handlers, RunStep(h)
      PROVE  TableFrame \/ CreateJob(h)
  BY <1>4 DEF RunStep, FindExisting, CreateRejected, Enqueue, SyncReturn, SyncRaise,
              storeVars, runnerVars, TableFrame
<1>5. ASSUME NEW r \in Runners, ProcessJob(r)
      PROVE  TableFrame \/ JobWrite(r)
  BY <1>5 DEF ProcessJob, RunnerStep, Fetch, MarkRunning, Load, Compute, UploadArtifact,
              MarkSucceeded, MarkFailed, storeVars, TableFrame, JobWrite
<1>6. ASSUME NEW r \in Runners, CallRaises(r)
      PROVE  TableFrame \/ JobWrite(r)
  BY <1>6 DEF CallRaises, CallFails, AnswerLost, storeVars, TableFrame, JobWrite
<1>7. ASSUME NEW w \in Workers, NEW j \in JobId, ArqStep(w, j)
      PROVE  TableFrame
  BY <1>7 DEF ArqStep, Claim, Start, Discard, runnerVars, storeVars, TableFrame
<1>8. ASSUME NEW w \in Workers, Finish(w) \/ WorkerCrash(w)
      PROVE  TableFrame
  BY <1>8 DEF Finish, WorkerCrash, storeVars, TableFrame
<1>9. ASSUME NEW j \in JobId, LeaseExpires(j) \/ LeaseOverrun(j)
      PROVE  TableFrame
  BY <1>9 DEF LeaseExpires, LeaseOverrun, runnerVars, storeVars, TableFrame
<1>10. CASE UNCHANGED vars
  BY <1>10 DEF vars, storeVars, TableFrame
<1> QED
  BY <1>1, <1>2, <1>3, <1>4, <1>5, <1>6, <1>7, <1>8, <1>9, <1>10
     DEF Next, HandlerStep

(***************************************************************************)
(* What each of them does to the rows.                                      *)
(***************************************************************************)
LEMMA UploadDatasetRows ==
    ASSUME TypeInv, NEW h \in Handlers, NEW org \in Orgs, NEW data \in Uploads,
           UploadDataset(h, org, data)
    PROVE  /\ lastDataset \in Nat /\ lastDataset' = lastDataset + 1
           /\ lastDataset + 1 \notin DOMAIN datasets
           /\ DOMAIN datasets' = DOMAIN datasets \cup {lastDataset + 1}
           /\ datasets'[lastDataset + 1].org_id = org
           /\ \A d \in DOMAIN datasets : datasets'[d] = datasets[d]
           /\ UNCHANGED <<jobs, lastJob>>
  BY StoreAssumption
     DEF UploadDataset, NewDatasetId, create_dataset, Put, TypeInv, StoreInv, StoreTypeOK

(* The end of an upload keeps the ids and owners of datasets.               *)
LEMMA MarkRows ==
    ASSUME TypeInv, NEW h \in Handlers, MarkInvalid(h) \/ MarkReady(h)
    PROVE  /\ DOMAIN datasets' = DOMAIN datasets
           /\ \A d \in DOMAIN datasets : datasets'[d].org_id = datasets[d].org_id
           /\ UNCHANGED <<jobs, lastDataset, lastJob>>
<1> DEFINE d == req[h].ds
<1>1. UNCHANGED <<jobs, lastDataset, lastJob>>
  BY DEF MarkInvalid, Settle, FailedRow, MarkReady, ReadyRow
<1>2. CASE HasDataset(d, req[h].org)
  <2>1. PICK row : datasets' = [datasets EXCEPT ![d] = row] /\ row.org_id = datasets[d].org_id
    <3>1. datasets[d] \in DatasetRow
      BY <1>2, DatasetFacts DEF HasDataset
    <3>2. CASE MarkInvalid(h)
      <4> DEFINE row == [datasets[d] EXCEPT !.status = "failed",
                                            !.storage_path = RawPath(req[h].org, d),
                                            !.report = req[h].data]
      <4>1. datasets' = [datasets EXCEPT ![d] = row]
        BY <1>2, <3>2 DEF MarkInvalid, Settle, FailedRow, update_dataset
      <4>2. row.org_id = datasets[d].org_id
        BY <3>1 DEF DatasetRow
      <4> QED
        BY <4>1, <4>2
    <3>3. CASE MarkReady(h)
      <4> DEFINE row == [datasets[d] EXCEPT !.status = "ready",
                                            !.storage_path = RawPath(req[h].org, d),
                                            !.parquet_path = ParquetPath(req[h].org, d),
                                            !.report = req[h].data]
      <4>1. datasets' = [datasets EXCEPT ![d] = row]
        BY <1>2, <3>3 DEF MarkReady, Settle, ReadyRow, update_dataset
      <4>2. row.org_id = datasets[d].org_id
        BY <3>1 DEF DatasetRow
      <4> QED
        BY <4>1, <4>2
    <3> QED
      BY <3>2, <3>3
  <2> QED
    BY <1>1, <2>1
<1>3. CASE ~HasDataset(d, req[h].org)
  BY <1>1, <1>3 DEF MarkInvalid, Settle, FailedRow, MarkReady, ReadyRow
<1> QED
  BY <1>2, <1>3

(* A delete takes a dataset and its jobs, and changes no row that stays.    *)
LEMMA DeleteRowRows ==
    ASSUME TypeInv, NEW h \in Handlers, DeleteRow(h)
    PROVE  /\ DOMAIN datasets' \subseteq DOMAIN datasets
           /\ \A d \in DOMAIN datasets' : datasets'[d] = datasets[d]
           /\ DOMAIN jobs' \subseteq DOMAIN jobs
           /\ \A j \in DOMAIN jobs' :
                 /\ jobs'[j] = jobs[j]
                 /\ jobs[j].dataset_id \in DOMAIN datasets
                       => jobs[j].dataset_id \in DOMAIN datasets'
           /\ UNCHANGED <<lastDataset, lastJob>>
  BY DEF DeleteRow, delete_dataset, Without

(* An insert of a job uses the next id and changes no other row.            *)
LEMMA CreateJobRows ==
    ASSUME TypeInv, NEW h \in Handlers, CreateJob(h)
    PROVE  /\ lastJob \in Nat /\ lastJob' = lastJob + 1
           /\ lastJob + 1 \notin DOMAIN jobs
           /\ DOMAIN jobs' = DOMAIN jobs \cup {lastJob + 1}
           /\ jobs'[lastJob + 1].org_id = req[h].org
           /\ jobs'[lastJob + 1].dataset_id = req[h].ds
           /\ req[h].ds \in DOMAIN datasets
           /\ \A j \in DOMAIN jobs : jobs'[j] = jobs[j]
           /\ UNCHANGED <<datasets, lastDataset>>
  BY StoreAssumption DEF CreateJob, create_job, Put, TypeInv, StoreInv, StoreTypeOK

(* process_job changes no column that says what a job is about.             *)
LEMMA JobWriteRows ==
    ASSUME TypeInv, NEW r \in Runners, JobWrite(r)
    PROVE  /\ DOMAIN jobs' = DOMAIN jobs
           /\ \A j \in DOMAIN jobs : Identity(jobs'[j]) = Identity(jobs[j])
           /\ UNCHANGED <<datasets, lastDataset, lastJob>>
<1> DEFINE j == runs[r].job
<1>1. j \in DOMAIN jobs /\ jobs[j] \in JobRow
  BY JobFacts DEF JobWrite, RowThere, HasJob
<1>2. PICK row : jobs' = [jobs EXCEPT ![j] = row] /\ Identity(row) = Identity(jobs[j])
  <2>1. CASE WriteRunning(r)
    <3> DEFINE row == [jobs[j] EXCEPT !.status = "running"]
    <3>1. jobs' = [jobs EXCEPT ![j] = row]
      BY <2>1 DEF WriteRunning, update_job
    <3>2. Identity(row) = Identity(jobs[j])
      BY <1>1 DEF JobRow, Identity
    <3> QED
      BY <3>1, <3>2
  <2>2. CASE WriteSucceeded(r)
    <3> DEFINE row == [jobs[j] EXCEPT !.status = "succeeded",
                                      !.result_summary = runs[r].result,
                                      !.result_storage_path = runs[r].artifact]
    <3>1. jobs' = [jobs EXCEPT ![j] = row]
      BY <2>2 DEF WriteSucceeded, update_job
    <3>2. Identity(row) = Identity(jobs[j])
      BY <1>1 DEF JobRow, Identity
    <3> QED
      BY <3>1, <3>2
  <2>3. CASE WriteFailed(r)
    <3> DEFINE row == [jobs[j] EXCEPT !.status = "failed", !.error = runs[r].error]
    <3>1. jobs' = [jobs EXCEPT ![j] = row]
      BY <2>3 DEF WriteFailed, update_job
    <3>2. Identity(row) = Identity(jobs[j])
      BY <1>1 DEF JobRow, Identity
    <3> QED
      BY <3>1, <3>2
  <2> QED
    BY <2>1, <2>2, <2>3 DEF JobWrite
<1> QED
  BY <1>1, <1>2 DEF JobWrite

(***************************************************************************)
(* Identities.                                                              *)
(***************************************************************************)
LEMMA NextKeepsIdentities ==
    ASSUME TypeInv, [Next]_vars
    PROVE  RowsKeepTheirIdentity
<1>1. /\ lastDataset \in Nat /\ DOMAIN datasets \subseteq 1..lastDataset
      /\ lastJob \in Nat /\ DOMAIN jobs \subseteq 1..lastJob
  BY StoreAssumption DEF TypeInv, StoreInv, StoreTypeOK
<1>2. CASE TableFrame
  BY <1>2 DEF TableFrame, RowsKeepTheirIdentity
<1>3. ASSUME NEW h \in Handlers, NEW org \in Orgs, NEW data \in Uploads,
             UploadDataset(h, org, data)
      PROVE  RowsKeepTheirIdentity
  BY <1>1, <1>3, UploadDatasetRows DEF RowsKeepTheirIdentity
<1>4. ASSUME NEW h \in Handlers, MarkInvalid(h) \/ MarkReady(h)
      PROVE  RowsKeepTheirIdentity
  BY <1>4, MarkRows DEF RowsKeepTheirIdentity
<1>5. ASSUME NEW h \in Handlers, DeleteRow(h) PROVE RowsKeepTheirIdentity
  BY <1>5, DeleteRowRows DEF RowsKeepTheirIdentity
<1>6. ASSUME NEW h \in Handlers, CreateJob(h) PROVE RowsKeepTheirIdentity
  BY <1>1, <1>6, CreateJobRows DEF RowsKeepTheirIdentity
<1>7. ASSUME NEW r \in Runners, JobWrite(r) PROVE RowsKeepTheirIdentity
  BY <1>7, JobWriteRows DEF RowsKeepTheirIdentity
<1> QED
  BY <1>2, <1>3, <1>4, <1>5, <1>6, <1>7, TableSteps

(* No row is ever given another row's id, organization, dataset, module or  *)
(* params: db.py updates rows but never these columns.                      *)
THEOREM IdentitiesStable == Spec => IdentitiesAreStable
<1>1. TypeInv /\ [Next]_vars => [RowsKeepTheirIdentity]_vars
  BY NextKeepsIdentities
<1> QED
  BY <1>1, LocalTypesCorrect, PTL DEF Spec, IdentitiesAreStable

----------------------------------------------------------------------------
(* Whose data it is and what it comes from.                                 *)

(***************************************************************************)
(* What a step may do to a request: end it, leave its organization and      *)
(* dataset alone, or be its first, with a dataset of its organization.      *)
(***************************************************************************)
Home(q) == q.ds \in DOMAIN datasets /\ datasets[q.ds].org_id = q.org

RequestKept(k) ==
    \/ req'[k].pc = "idle"
    \/ req[k].pc # "idle" /\ req'[k].org = req[k].org /\ req'[k].ds = req[k].ds
    \/ Home(req[k])'

(* Serve writes the handler's own variables.                                *)
LEMMA ServeKept ==
    ASSUME TypeInv, NEW h \in Handlers, NEW x, Serve(h, x), NEW k \in Handlers,
           k = h => \/ x.pc = "idle"
                    \/ req[h].pc # "idle" /\ x.org = req[h].org /\ x.ds = req[h].ds
                    \/ x.ds \in DOMAIN datasets' /\ datasets'[x.ds].org_id = x.org
    PROVE  RequestKept(k)
<1>1. req'[k] = IF k = h THEN x ELSE req[k]
  BY DEF Serve, TypeInv, RequestInv, RequestTypeOK
<1> QED
  BY <1>1 DEF RequestKept, Home

(* The response ends the request.                                           *)
LEMMA RespondKept ==
    ASSUME TypeInv, NEW h \in Handlers, Respond(h), NEW k \in Handlers
    PROVE  RequestKept(k)
  BY ServeKept DEF Respond, IdleRequest

(* Going on to the next call keeps the organization and the dataset.        *)
LEMMA ProceedKept ==
    ASSUME TypeInv, NEW h \in Handlers, req[h].pc # "idle", NEW pc, Proceed(h, pc),
           NEW k \in Handlers
    PROVE  RequestKept(k)
<1>1. req[h] \in Request
  BY RequestFacts
<1>2. /\ [req[h] EXCEPT !.pc = pc].org = req[h].org
      /\ [req[h] EXCEPT !.pc = pc].ds = req[h].ds
  BY <1>1 DEF Request
<1> QED
  BY <1>2, ServeKept DEF Proceed

(* Nothing happens to any request.                                          *)
LEMMA FrameKept ==
    ASSUME UNCHANGED req, NEW k \in Handlers
    PROVE  RequestKept(k)
  BY DEF RequestKept

(* A new request is about a dataset it has just created or found.           *)
LEMMA NewRequestKept ==
    ASSUME TypeInv, NEW h \in Handlers, NewRequest(h), NEW k \in Handlers
    PROVE  RequestKept(k)
<1>1. ASSUME NEW org \in Orgs, NEW data \in Uploads, UploadDataset(h, org, data)
      PROVE  RequestKept(k)
  <2> DEFINE x == [IdleRequest EXCEPT !.pc = "put_raw", !.org = org,
                                      !.ds = lastDataset + 1, !.data = data]
  <2>1. x.ds = lastDataset + 1 /\ x.org = org
    BY DEF IdleRequest
  <2>2. x.ds \in DOMAIN datasets' /\ datasets'[x.ds].org_id = x.org
    BY <1>1, <2>1, UploadDatasetRows
  <2> QED
    BY <1>1, <2>2, ServeKept DEF UploadDataset, NewDatasetId
<1>2. ASSUME NEW org \in Orgs, NEW d \in DatasetId, DeleteDataset(h, org, d)
      PROVE  RequestKept(k)
  <2> DEFINE paths == {datasets[d].storage_path, datasets[d].parquet_path} \ {None}
             x == [IdleRequest EXCEPT
                     !.pc = IF paths # {} THEN "remove" ELSE "delete_row",
                     !.org = org, !.ds = d, !.paths = paths]
  <2>1. x.ds = d /\ x.org = org
    BY DEF IdleRequest
  <2>2. Serve(h, x) /\ UNCHANGED datasets /\ HasDataset(d, org)
    BY <1>2 DEF DeleteDataset, StoredPaths, storeVars
  <2> HIDE DEF x
  <2> QED
    BY <2>1, <2>2, ServeKept DEF HasDataset
<1>3. ASSUME NEW org \in Orgs, NEW d \in DatasetId, GetRows(h, org, d)
      PROVE  RequestKept(k)
  <2> DEFINE x == [IdleRequest EXCEPT !.pc = "read_rows", !.org = org, !.ds = d,
                                      !.paths = {datasets[d].parquet_path}]
  <2>1. x.ds = d /\ x.org = org
    BY DEF IdleRequest
  <2>2. Serve(h, x) /\ UNCHANGED datasets /\ HasDataset(d, org)
    BY <1>3 DEF GetRows, storeVars
  <2> HIDE DEF x
  <2> QED
    BY <2>1, <2>2, ServeKept DEF HasDataset
<1>4. ASSUME NEW org \in Orgs, NEW d \in DatasetId, NEW m \in Modules, NEW p \in Params,
             NEW force \in BOOLEAN, RunModule(h, org, d, m, p, force)
      PROVE  RequestKept(k)
  <2> DEFINE x == [IdleRequest EXCEPT !.pc = IF force THEN "create" ELSE "find",
                                      !.org = org, !.ds = d, !.module = m,
                                      !.params = p, !.force = force]
  <2>1. x.ds = d /\ x.org = org
    BY DEF IdleRequest
  <2>2. Serve(h, x) /\ UNCHANGED datasets /\ HasDataset(d, org)
    BY <1>4 DEF RunModule, storeVars
  <2> HIDE DEF x
  <2> QED
    BY <2>1, <2>2, ServeKept DEF HasDataset
<1> QED
  BY <1>1, <1>2, <1>3, <1>4 DEF NewRequest, DatasetRequest, RunRequest

(* A handler's next call keeps what the request is about.                   *)
LEMMA HandlerStepKept ==
    ASSUME TypeInv, NEW h \in Handlers, HandlerStep(h), NEW k \in Handlers
    PROVE  RequestKept(k)
<1>1. CASE PutRaw(h)
  BY <1>1, ProceedKept DEF PutRaw, At
<1>2. CASE PutParquet(h)
  BY <1>2, ProceedKept DEF PutParquet, At
<1>3. CASE RemoveObjects(h)
  BY <1>3, ProceedKept DEF RemoveObjects, At
<1>4. CASE MarkInvalid(h) \/ MarkReady(h) \/ DeleteRow(h) \/ ReadRows(h)
  BY <1>4, RespondKept DEF MarkInvalid, Settle, FailedRow, MarkReady, ReadyRow, DeleteRow, ReadRows
<1>5. CASE FindExisting(h)
  BY <1>5, RespondKept, ProceedKept DEF FindExisting, At
<1>6. CASE CreateJob(h)
  <2> DEFINE x == [req[h] EXCEPT !.pc = IF SyncJobs THEN "sync" ELSE "enqueue",
                                 !.job = lastJob + 1]
  <2>1. req[h] \in Request
    BY RequestFacts
  <2>2. x.org = req[h].org /\ x.ds = req[h].ds
    BY <2>1 DEF Request
  <2>3. Serve(h, x) /\ req[h].pc # "idle"
    BY <1>6 DEF CreateJob, At
  <2> HIDE DEF x
  <2> QED
    BY <2>2, <2>3, ServeKept
<1>7. CASE CreateRejected(h) \/ Enqueue(h) \/ SyncReturn(h) \/ SyncRaise(h)
  BY <1>7, RespondKept DEF CreateRejected, Enqueue, SyncReturn, SyncRaise
<1> QED
  BY <1>1, <1>2, <1>3, <1>4, <1>5, <1>6, <1>7 DEF HandlerStep, DatasetStep, RunStep

(* So does every step of the service.                                       *)
LEMMA RequestSteps ==
    ASSUME TypeInv, [Next]_vars, NEW k \in Handlers
    PROVE  RequestKept(k)
<1>1. ASSUME NEW h \in Handlers, RequestDies(h) PROVE RequestKept(k)
  BY <1>1, RespondKept DEF RequestDies, DatasetRequestDies, RunRequestDies
<1>2. CASE UNCHANGED req
  BY <1>2, FrameKept
<1> QED
  BY <1>1, <1>2, NewRequestKept, HandlerStepKept
     DEF Next, ProcessJob, CallRaises, vars

(***************************************************************************)
(* What a step may do to a run that has fetched its job: leave the job and  *)
(* the row alone, or be the fetch.                                          *)
(***************************************************************************)
RunKept(r) ==
    runs'[r].pc \in WithRow =>
        \/ runs[r].pc \in WithRow /\ runs'[r].job = runs[r].job /\ runs'[r].row = runs[r].row
        \/ /\ runs'[r].job \in DOMAIN jobs
           /\ runs'[r].row = Fetched(runs'[r].job)
           /\ UNCHANGED <<datasets, jobs>>

(* Resume writes the runner's own variables.                                *)
LEMMA ResumeKept ==
    ASSUME TypeInv, NEW q \in Runners, NEW x, Resume(q, x), NEW r \in Runners,
           \/ x.pc \notin WithRow
           \/ runs[q].pc \in WithRow /\ x.job = runs[q].job /\ x.row = runs[q].row
    PROVE  RunKept(r)
<1>1. runs'[r] = IF r = q THEN x ELSE runs[r]
  BY DEF Resume, TypeInv, RunnerInv, RunnerTypeOK
<1> QED
  BY <1>1 DEF RunKept

(* Going on, or catching an exception, keeps the job and the row.           *)
LEMMA MovedKept ==
    ASSUME TypeInv, NEW q \in Runners, NEW r \in Runners, NEW pc, NEW e,
           \/ Goto(q, pc) /\ (pc \notin WithRow \/ runs[q].pc \in WithRow)
           \/ Catch(q, e) /\ runs[q].pc \in WithRow
    PROVE  RunKept(r)
<1>1. runs[q] \in Run
  BY RunFacts
<1>2. CASE Goto(q, pc) /\ (pc \notin WithRow \/ runs[q].pc \in WithRow)
  <2> DEFINE x == [runs[q] EXCEPT !.pc = pc]
  <2>1. x.pc = pc /\ x.job = runs[q].job /\ x.row = runs[q].row
    BY <1>1 DEF Run
  <2>2. Resume(q, x)
    BY <1>2 DEF Goto
  <2> HIDE DEF x
  <2> QED
    BY <1>2, <2>1, <2>2, ResumeKept
<1>3. CASE Catch(q, e) /\ runs[q].pc \in WithRow
  <2> DEFINE x == [runs[q] EXCEPT !.pc = "mark_failed", !.error = e]
  <2>1. x.job = runs[q].job /\ x.row = runs[q].row
    BY <1>1 DEF Run
  <2>2. Resume(q, x)
    BY <1>3 DEF Catch
  <2> HIDE DEF x
  <2> QED
    BY <1>3, <2>1, <2>2, ResumeKept
<1> QED
  BY <1>2, <1>3

(* A run that ends or begins has no row in hand.                            *)
LEMMA IdleKept ==
    ASSUME TypeInv, NEW q \in Runners, NEW r \in Runners,
           Resume(q, IdleRun) \/ \E j \in JobId : Resume(q, Called(j))
    PROVE  RunKept(r)
<1>1. IdleRun.pc \notin WithRow /\ \A j \in JobId : Called(j).pc \notin WithRow
  BY DEF IdleRun, Called, WithRow
<1> QED
  BY <1>1, ResumeKept

(* A step of process_job keeps its row, or has just fetched it.             *)
LEMMA RunnerStepKept ==
    ASSUME TypeInv, NEW q \in Runners, RunnerStep(q), NEW r \in Runners
    PROVE  RunKept(r)
<1>0. runs[q] \in Run
  BY RunFacts
<1>1. CASE Fetch(q)
  <2> DEFINE j == runs[q].job
             x == [runs[q] EXCEPT !.pc = "mark_running", !.row = Fetched(j)]
  <2>1. CASE j \in DOMAIN jobs
    <3>1. x.job = j /\ x.row = Fetched(j)
      BY <1>0 DEF Run
    <3>2. runs' = [runs EXCEPT ![q] = x] /\ UNCHANGED <<datasets, jobs>>
      BY <1>1, <2>1 DEF Fetch, Resume, storeVars
    <3> HIDE DEF x
    <3>3. runs'[r] = IF r = q THEN x ELSE runs[r]
      BY <3>2 DEF TypeInv, RunnerInv, RunnerTypeOK
    <3> QED
      BY <2>1, <3>1, <3>2, <3>3 DEF RunKept
  <2>2. CASE j \notin DOMAIN jobs
    BY <1>1, <2>2, MovedKept DEF Fetch, WithRow
  <2> QED
    BY <2>1, <2>2
<1>2. CASE MarkRunning(q) \/ MarkSucceeded(q) \/ MarkFailed(q)
  BY <1>2, MovedKept DEF MarkRunning, MarkSucceeded, MarkFailed, WithRow
<1>3. CASE Load(q)
  <2> DEFINE x == [runs[q] EXCEPT !.pc = "download",
                     !.path = datasets[runs[q].row.dataset_id].parquet_path]
  <2>1. x.job = runs[q].job /\ x.row = runs[q].row
    BY <1>0 DEF Run
  <2>2. runs[q].pc \in WithRow /\ (Resume(q, x) \/ Catch(q, "actionable"))
    BY <1>3 DEF Load, WithRow
  <2> HIDE DEF x
  <2> QED
    BY <2>1, <2>2, ResumeKept, MovedKept
<1>4. CASE Compute(q)
  <2> DEFINE result == [data |-> objects[runs[q].path], module |-> runs[q].row.module,
                        params |-> runs[q].row.params]
             x == [runs[q] EXCEPT
                     !.pc = IF Outcome[result] = "artifact"
                            THEN "upload" ELSE "mark_succeeded",
                     !.result = result]
  <2>1. x.job = runs[q].job /\ x.row = runs[q].row
    BY <1>0 DEF Run
  <2>2. /\ runs[q].pc \in WithRow
        /\ Resume(q, x) \/ Catch(q, "actionable") \/ Catch(q, "generic")
    BY <1>4 DEF Compute, NoObject, Rejected, WithRow
  <2> HIDE DEF x
  <2> QED
    BY <2>1, <2>2, ResumeKept, MovedKept
<1>5. CASE UploadArtifact(q)
  <2> DEFINE x == [runs[q] EXCEPT
                     !.pc = "mark_succeeded",
                     !.artifact = ArtifactPath(runs[q].row.org_id,
                                               runs[q].row.dataset_id, runs[q].job)]
  <2>1. x.job = runs[q].job /\ x.row = runs[q].row
    BY <1>0 DEF Run
  <2>2. runs[q].pc \in WithRow /\ Resume(q, x)
    BY <1>5 DEF UploadArtifact, WithRow
  <2> HIDE DEF x
  <2> QED
    BY <2>1, <2>2, ResumeKept
<1> QED
  BY <1>1, <1>2, <1>3, <1>4, <1>5 DEF RunnerStep

(* So does every step of the service.                                       *)
LEMMA RunSteps ==
    ASSUME TypeInv, [Next]_vars, NEW r \in Runners
    PROVE  RunKept(r)
<1>1. CASE UNCHANGED runs
  BY <1>1 DEF RunKept
<1>2. ASSUME NEW h \in Handlers, CreateJob(h) PROVE RunKept(r)
  <2>1. lastJob + 1 \in JobId
    BY <1>2, StoreAssumption
       DEF CreateJob, create_job, TypeInv, StoreInv, StoreTypeOK, JobId
  <2>2. h \in Runners
    BY RunAssumption
  <2> QED
    BY <1>1, <1>2, <2>1, <2>2, IdleKept DEF CreateJob
<1>3. ASSUME NEW h \in Handlers, SyncReturn(h) \/ SyncRaise(h) \/ RunRequestDies(h)
      PROVE  RunKept(r)
  BY <1>3, IdleKept, RunAssumption DEF SyncReturn, SyncRaise, RunRequestDies
<1>4. ASSUME NEW q \in Runners, ProcessJob(q) PROVE RunKept(r)
  BY <1>4, RunnerStepKept DEF ProcessJob
<1>5. ASSUME NEW q \in Runners, CallRaises(q) PROVE RunKept(r)
  BY <1>5, MovedKept DEF CallRaises, CallFails, AnswerLost, RaiseOrCatch, InTry, WithRow
<1>6. ASSUME NEW w \in Workers, Finish(w) \/ WorkerCrash(w) PROVE RunKept(r)
  BY <1>6, IdleKept, ArqAssumption DEF Finish, WorkerCrash
<1>7. ASSUME NEW w \in Workers, NEW j \in JobId, Start(w, j) PROVE RunKept(r)
  BY <1>7, IdleKept, ArqAssumption DEF Start
<1> QED
  BY <1>1, <1>2, <1>3, <1>4, <1>5, <1>6, <1>7
     DEF Next, NewRequest, RunRequest, RunModule, HandlerStep, RunStep, FindExisting,
         CreateRejected, Enqueue, RequestDies, ArqStep, Claim, Discard, LeaseExpires,
         LeaseOverrun, vars, runnerVars

(***************************************************************************)
(* What a step may add to the bucket.                                       *)
(***************************************************************************)
ObjectAdded(p) ==
    \/ \E h \in Handlers :
          /\ req[h].pc # "idle"
          /\ p.file # "artifact" /\ p.org = req[h].org /\ p.ds = req[h].ds
    \/ \E r \in Runners :
          /\ runs[r].pc \in WithRow
          /\ p.file = "artifact" /\ p.job = runs[r].job
          /\ p.org = runs[r].row.org_id /\ p.ds = runs[r].row.dataset_id

ObjectsKept ==
    \/ DOMAIN objects' \subseteq DOMAIN objects
    \/ /\ UNCHANGED <<datasets, lastDataset, lastJob>>
       /\ DOMAIN jobs' = DOMAIN jobs
       /\ \A p \in DOMAIN objects' \ DOMAIN objects : ObjectAdded(p)

(* Every step removes objects, or adds one for the request or run that      *)
(* takes it.                                                                *)
LEMMA ObjectSteps ==
    ASSUME TypeInv, [Next]_vars
    PROVE  ObjectsKept
<1>1. CASE UNCHANGED objects
  BY <1>1 DEF ObjectsKept
<1>2. ASSUME NEW h \in Handlers, PutRaw(h) \/ PutParquet(h) PROVE ObjectsKept
  BY <1>2 DEF PutRaw, PutParquet, At, upload_bytes, Put, RawPath, ParquetPath,
              ObjectsKept, ObjectAdded
<1>3. ASSUME NEW h \in Handlers, RemoveObjects(h) PROVE ObjectsKept
  BY <1>3 DEF RemoveObjects, delete_paths, Without, ObjectsKept
<1>4. ASSUME NEW r \in Runners, runs[r].pc = "upload", WriteArtifact(r),
             UNCHANGED <<datasets, jobs, lastDataset, lastJob>>
      PROVE  ObjectsKept
  BY <1>4 DEF WriteArtifact, upload_bytes, Put, ArtifactPath, WithRow, ObjectsKept,
              ObjectAdded
<1>5. ASSUME NEW h \in Handlers, DatasetStep(h) PROVE ObjectsKept
  BY <1>1, <1>2, <1>3, <1>5
     DEF DatasetStep, MarkInvalid, Settle, FailedRow, MarkReady, ReadyRow, DeleteRow,
         ReadRows, storeVars
<1>6. ASSUME NEW h \in Handlers, RunStep(h) PROVE ObjectsKept
  BY <1>1, <1>6 DEF RunStep, FindExisting, CreateJob, CreateRejected, Enqueue,
                    SyncReturn, SyncRaise, storeVars, runnerVars
<1>7. ASSUME NEW r \in Runners, ProcessJob(r) \/ CallRaises(r) PROVE ObjectsKept
  BY <1>1, <1>4, <1>7
     DEF ProcessJob, RunnerStep, Fetch, MarkRunning, Load, Compute, UploadArtifact,
         MarkSucceeded, MarkFailed, CallRaises, CallFails, AnswerLost, storeVars
<1> QED
  BY <1>1, <1>5, <1>6, <1>7
     DEF Next, HandlerStep, NewRequest, DatasetRequest, UploadDataset, DeleteDataset,
         GetRows, RunRequest, RunModule, RequestDies, DatasetRequestDies, RunRequestDies,
         Finish, WorkerCrash, ArqStep, Claim, Start, Discard, LeaseExpires, LeaseOverrun,
         vars, storeVars, runnerVars

(***************************************************************************)
(* The inductive step, part by part.                                        *)
(***************************************************************************)
LEMMA CountersGrow ==
    ASSUME TypeInv, [Next]_vars
    PROVE  /\ lastDataset \in Nat /\ lastDataset' \in Nat /\ lastDataset <= lastDataset'
           /\ lastJob \in Nat /\ lastJob' \in Nat /\ lastJob <= lastJob'
           /\ DOMAIN datasets \subseteq 1..lastDataset /\ DOMAIN datasets' \subseteq 1..lastDataset'
           /\ DOMAIN jobs \subseteq 1..lastJob /\ DOMAIN jobs' \subseteq 1..lastJob'
<1>1. TypeInv'
  BY NextTyped
<1>2. /\ lastDataset \in Nat /\ lastDataset' \in Nat
      /\ lastJob \in Nat /\ lastJob' \in Nat
      /\ DOMAIN datasets \subseteq 1..lastDataset /\ DOMAIN datasets' \subseteq 1..lastDataset'
      /\ DOMAIN jobs \subseteq 1..lastJob /\ DOMAIN jobs' \subseteq 1..lastJob'
  BY <1>1, StoreAssumption DEF TypeInv, StoreInv, StoreTypeOK
<1>3. /\ lastDataset' = lastDataset \/ lastDataset' = lastDataset + 1
      /\ lastJob' = lastJob \/ lastJob' = lastJob + 1
  BY TableSteps
     DEF TableFrame, UploadDataset, NewDatasetId, create_dataset, MarkInvalid, Settle,
         FailedRow, MarkReady, ReadyRow, DeleteRow, CreateJob, create_job, JobWrite
<1> QED
  BY <1>2, <1>3

(* Jobs stay with the organization of their dataset: inserts by the         *)
(* request's invariant, deletes by the cascade.                             *)
LEMMA JobsStayHome ==
    ASSUME TypeInv, TenancyInv, [Next]_vars
    PROVE  JobsBelongToTheirDatasets'
<1>1. JobsBelongToTheirDatasets /\ RequestsAreAtHome
  BY DEF TenancyInv
<1>2. CASE TableFrame
  BY <1>1, <1>2 DEF TableFrame, JobsBelongToTheirDatasets
<1>3. ASSUME NEW h \in Handlers, NEW org \in Orgs, NEW data \in Uploads,
             UploadDataset(h, org, data)
      PROVE  JobsBelongToTheirDatasets'
  BY <1>1, <1>3, UploadDatasetRows DEF JobsBelongToTheirDatasets
<1>4. ASSUME NEW h \in Handlers, MarkInvalid(h) \/ MarkReady(h)
      PROVE  JobsBelongToTheirDatasets'
  BY <1>1, <1>4, MarkRows DEF JobsBelongToTheirDatasets
<1>5. ASSUME NEW h \in Handlers, DeleteRow(h)
      PROVE  JobsBelongToTheirDatasets'
  BY <1>1, <1>5, DeleteRowRows DEF JobsBelongToTheirDatasets
<1>6. ASSUME NEW h \in Handlers, CreateJob(h)
      PROVE  JobsBelongToTheirDatasets'
  <2>1. req[h].ds \in DOMAIN datasets /\ datasets[req[h].ds].org_id = req[h].org
    BY <1>1, <1>6 DEF CreateJob, At, RequestsAreAtHome
  <2> QED
    BY <1>1, <1>6, <2>1, CreateJobRows DEF JobsBelongToTheirDatasets
<1>7. ASSUME NEW r \in Runners, JobWrite(r)
      PROVE  JobsBelongToTheirDatasets'
  BY <1>1, <1>7, JobWriteRows DEF JobsBelongToTheirDatasets, Identity
<1> QED
  BY <1>2, <1>3, <1>4, <1>5, <1>6, <1>7, TableSteps

(* Requests keep agreeing with the datasets they are about, since ids are   *)
(* never given out again.                                                   *)
LEMMA RequestsStayHome ==
    ASSUME TypeInv, TenancyInv, [Next]_vars
    PROVE  RequestsAreAtHome'
<1> SUFFICES ASSUME NEW h \in Handlers, req'[h].pc # "idle"
             PROVE  /\ req'[h].ds \in 1..lastDataset'
                    /\ req'[h].ds \in DOMAIN datasets'
                          => datasets'[req'[h].ds].org_id = req'[h].org
  BY DEF RequestsAreAtHome
<1>1. RequestsAreAtHome
  BY DEF TenancyInv
<1>2. CASE req[h].pc # "idle" /\ req'[h].org = req[h].org /\ req'[h].ds = req[h].ds
  BY <1>1, <1>2, CountersGrow, NextKeepsIdentities
     DEF RequestsAreAtHome, RowsKeepTheirIdentity
<1>3. CASE Home(req[h])'
  BY <1>3, CountersGrow DEF Home
<1> QED
  BY <1>2, <1>3, RequestSteps DEF RequestKept

(* Runs keep agreeing with the rows they fetched, for the same reason.      *)
LEMMA RunsStayHome ==
    ASSUME TypeInv, TenancyInv, [Next]_vars
    PROVE  RunsAreAtHome'
<1> DEFINE AtHome(j, row) ==
             /\ j \in 1..lastJob /\ row.dataset_id \in 1..lastDataset
             /\ j \in DOMAIN jobs => row = Fetched(j)
             /\ row.dataset_id \in DOMAIN datasets
                   => datasets[row.dataset_id].org_id = row.org_id
<1> SUFFICES ASSUME NEW r \in Runners, runs'[r].pc \in WithRow
             PROVE  /\ runs'[r].job \in 1..lastJob'
                    /\ runs'[r].row.dataset_id \in 1..lastDataset'
                    /\ runs'[r].job \in DOMAIN jobs'
                          => runs'[r].row = Fetched(runs[r].job)'
                    /\ runs'[r].row.dataset_id \in DOMAIN datasets'
                          => datasets'[runs'[r].row.dataset_id].org_id = runs'[r].row.org_id
  BY DEF RunsAreAtHome
<1>1. RunsAreAtHome /\ JobsBelongToTheirDatasets
  BY DEF TenancyInv
<1>2. ASSUME NEW j \in DOMAIN jobs, j \in DOMAIN jobs'
      PROVE  Fetched(j)' = Fetched(j)
  BY <1>2, NextKeepsIdentities DEF RowsKeepTheirIdentity, Identity, Fetched
<1>3. CASE runs[r].pc \in WithRow /\ runs'[r].job = runs[r].job /\ runs'[r].row = runs[r].row
  <2>1. AtHome(runs[r].job, runs[r].row)
    BY <1>1, <1>3 DEF RunsAreAtHome
  <2>2. runs'[r].job \in DOMAIN jobs' => runs'[r].row = Fetched(runs[r].job)'
    <3>1. runs[r].job \in DOMAIN jobs' => runs[r].job \in DOMAIN jobs
      BY <2>1, CountersGrow, NextKeepsIdentities DEF RowsKeepTheirIdentity
    <3> QED
      BY <1>2, <1>3, <2>1, <3>1 DEF Fetched
  <2>3. runs'[r].row.dataset_id \in DOMAIN datasets'
           => datasets'[runs'[r].row.dataset_id].org_id = runs'[r].row.org_id
    BY <1>3, <2>1, CountersGrow, NextKeepsIdentities DEF RowsKeepTheirIdentity
  <2> QED
    BY <1>3, <2>1, <2>2, <2>3, CountersGrow
<1>4. CASE /\ runs'[r].job \in DOMAIN jobs
           /\ runs'[r].row = Fetched(runs'[r].job)
           /\ UNCHANGED <<datasets, jobs>>
  <2> DEFINE j == runs'[r].job
  <2>1. /\ runs'[r].row.org_id = jobs[j].org_id
        /\ runs'[r].row.dataset_id = jobs[j].dataset_id
    BY <1>4 DEF Fetched
  <2>2. /\ jobs[j].dataset_id \in DOMAIN datasets
        /\ datasets[jobs[j].dataset_id].org_id = jobs[j].org_id
    BY <1>1, <1>4 DEF JobsBelongToTheirDatasets
  <2>3. runs'[r].row = Fetched(runs[r].job)'
    BY <1>4 DEF Fetched
  <2> QED
    BY <1>4, <2>1, <2>2, <2>3, CountersGrow
<1> QED
  BY <1>3, <1>4, RunSteps DEF RunKept

(* Objects stay under the organization of their ids.                        *)
LEMMA ObjectsStayHome ==
    ASSUME TypeInv, TenancyInv, [Next]_vars
    PROVE  ObjectsHaveIds' /\ ObjectsBelongToTheirOrg'
<1> SUFFICES ASSUME NEW p \in DOMAIN objects'
             PROVE  /\ p.ds \in 1..lastDataset'
                    /\ p.file = "artifact" => p.job \in 1..lastJob'
                    /\ p.ds \in DOMAIN datasets' => p.org = datasets'[p.ds].org_id
                    /\ p.file = "artifact" /\ p.job \in DOMAIN jobs'
                          => p.org = jobs'[p.job].org_id /\ p.ds = jobs'[p.job].dataset_id
  BY DEF ObjectsHaveIds, ObjectsBelongToTheirOrg
(* An object that is there now, or will be, and what it says of the rows.   *)
<1>1. /\ p.ds \in 1..lastDataset
      /\ p.file = "artifact" => p.job \in 1..lastJob
      /\ p.ds \in DOMAIN datasets => p.org = datasets[p.ds].org_id
      /\ p.file = "artifact" /\ p.job \in DOMAIN jobs
            => p.org = jobs[p.job].org_id /\ p.ds = jobs[p.job].dataset_id
  <2>1. CASE p \in DOMAIN objects
    BY <2>1 DEF TenancyInv, ObjectsHaveIds, ObjectsBelongToTheirOrg
  <2>2. CASE p \notin DOMAIN objects
    <3> DEFINE Placed == /\ p.ds \in 1..lastDataset
                         /\ p.file = "artifact" => p.job \in 1..lastJob
                         /\ p.ds \in DOMAIN datasets => p.org = datasets[p.ds].org_id
                         /\ p.file = "artifact" /\ p.job \in DOMAIN jobs
                               => /\ p.org = jobs[p.job].org_id
                                  /\ p.ds = jobs[p.job].dataset_id
    <3>1. ObjectAdded(p)
      BY <2>2, ObjectSteps DEF ObjectsKept
    <3>2. ASSUME NEW h \in Handlers, req[h].pc # "idle",
                 p.file # "artifact", p.org = req[h].org, p.ds = req[h].ds
          PROVE  Placed
      BY <3>2 DEF TenancyInv, RequestsAreAtHome
    <3>3. ASSUME NEW r \in Runners, runs[r].pc \in WithRow, p.file = "artifact",
                 p.job = runs[r].job, p.org = runs[r].row.org_id,
                 p.ds = runs[r].row.dataset_id
          PROVE  Placed
      <4>1. /\ p.job \in 1..lastJob /\ p.ds \in 1..lastDataset
            /\ p.job \in DOMAIN jobs => runs[r].row = Fetched(p.job)
            /\ p.ds \in DOMAIN datasets => datasets[p.ds].org_id = p.org
        BY <3>3 DEF TenancyInv, RunsAreAtHome
      <4>2. /\ Fetched(p.job).org_id = jobs[p.job].org_id
            /\ Fetched(p.job).dataset_id = jobs[p.job].dataset_id
        BY DEF Fetched
      <4> QED
        BY <3>3, <4>1, <4>2
    <3> HIDE DEF Placed
    <3>4. Placed
      BY <3>1, <3>2, <3>3 DEF ObjectAdded
    <3> QED
      BY <3>4 DEF Placed
  <2> QED
    BY <2>1, <2>2
<1> QED
  BY <1>1, CountersGrow, NextKeepsIdentities DEF RowsKeepTheirIdentity, Identity

(* Every step keeps the tenancy invariant.                                  *)
LEMMA NextKeepsTenancy ==
    ASSUME TypeInv, TenancyInv, [Next]_vars
    PROVE  TenancyInv'
  BY JobsStayHome, RequestsStayHome, RunsStayHome, ObjectsStayHome DEF TenancyInv

(* It holds at the start, when there is nothing.                            *)
LEMMA InitTenancy == Init => TenancyInv
  BY DEF Init, StoreInit, RequestInit, RunnerInit, IdleRequest, IdleRun, WithRow, TenancyInv,
         JobsBelongToTheirDatasets, RequestsAreAtHome, RunsAreAtHome, ObjectsHaveIds,
         ObjectsBelongToTheirOrg

(* The tenancy invariant holds throughout.                                  *)
THEOREM TenancyInvariant == Spec => []TenancyInv
<1>1. TypeInv /\ TenancyInv /\ [Next]_vars => TenancyInv'
  BY NextKeepsTenancy
<1> QED
  BY <1>1, InitTenancy, LocalTypesCorrect, PTL DEF Spec

(* No interleaving of requests, runs, crashes and deletes gives a job to    *)
(* another organization than its dataset's (app/run_helpers.py, app/db.py). *)
THEOREM JobsBelong == Spec => []JobsBelongToTheirDatasets
  BY TenancyInvariant, PTL DEF TenancyInv

(* No object is written under another organization than that of its dataset *)
(* and job (app/storage.py, app/worker.py).                                 *)
THEOREM ObjectsBelong == Spec => []ObjectsBelongToTheirOrg
  BY TenancyInvariant, PTL DEF TenancyInv

----------------------------------------------------------------------------
(* What a step may do to a row of datasets: insert it without paths, or, by *)
(* the request that uploads it, set its paths and its report.               *)

UploadsTo(h, d) == req[h].pc \in UploadPC /\ req[h].ds = d

RowSettled(h, d) ==
    /\ UploadsTo(h, d)
    /\ datasets'[d].storage_path = RawPath(req[h].org, d)
    /\ \/ /\ datasets'[d].parquet_path = datasets[d].parquet_path
          /\ datasets'[d].status = "failed"
       \/ /\ req[h].pc = "mark_ready" /\ datasets'[d].status = "ready"
          /\ datasets'[d].parquet_path = ParquetPath(req[h].org, d)
          /\ datasets'[d].report = req[h].data
    /\ req'[h].pc = "idle"
    /\ UNCHANGED <<jobs, objects>>

RowChange(d) ==
    \/ d \in DOMAIN datasets /\ datasets'[d] = datasets[d]
    \/ /\ d = lastDataset + 1
       /\ datasets'[d].storage_path = None /\ datasets'[d].parquet_path = None
       /\ datasets'[d].status = "validating"
       /\ UNCHANGED <<jobs, objects>>
    \/ d \in DOMAIN datasets /\ \E h \in Handlers : RowSettled(h, d)

(* The end of an upload writes one row.                                     *)
LEMMA SettleChanges ==
    ASSUME TypeInv, NEW h \in Handlers, MarkInvalid(h) \/ MarkReady(h), NEW d \in DOMAIN datasets'
    PROVE  RowChange(d)
<1> DEFINE e == req[h].ds
<1>1. /\ req[h].pc \in UploadPC /\ UNCHANGED <<jobs, objects>> /\ Respond(h)
      /\ req' = [req EXCEPT ![h] = IdleRequest]
  BY DEF MarkInvalid, MarkReady, Settle, At, UploadPC, Respond, Serve
<1>2. req'[h].pc = "idle"
  BY <1>1 DEF IdleRequest, TypeInv, RequestInv, RequestTypeOK
<1>3. CASE ~HasDataset(e, req[h].org)
  BY <1>3 DEF MarkInvalid, MarkReady, Settle, RowChange
<1>4. CASE HasDataset(e, req[h].org)
  <2>1. datasets[e] \in DatasetRow
    BY <1>4, DatasetFacts DEF HasDataset
  <2>2. CASE MarkInvalid(h)
    <3> DEFINE row == FailedRow(h)
    <3>1. /\ row.storage_path = RawPath(req[h].org, e)
          /\ row.parquet_path = datasets[e].parquet_path /\ row.status = "failed"
      BY <2>1 DEF FailedRow, DatasetRow
    <3>2. datasets' = [datasets EXCEPT ![e] = row]
      BY <1>4, <2>2 DEF MarkInvalid, Settle, update_dataset
    <3> HIDE DEF row
    <3> QED
      BY <1>1, <1>2, <3>1, <3>2 DEF RowChange, RowSettled, UploadsTo
  <2>3. CASE MarkReady(h)
    <3> DEFINE row == ReadyRow(h)
    <3>1. /\ row.storage_path = RawPath(req[h].org, e)
          /\ row.parquet_path = ParquetPath(req[h].org, e)
          /\ row.report = req[h].data /\ row.status = "ready"
      BY <2>1 DEF ReadyRow, DatasetRow
    <3>2. datasets' = [datasets EXCEPT ![e] = row] /\ req[h].pc = "mark_ready"
      BY <1>4, <2>3 DEF MarkReady, Settle, update_dataset, At
    <3> HIDE DEF row
    <3> QED
      BY <1>1, <1>2, <3>1, <3>2 DEF RowChange, RowSettled, UploadsTo
  <2> QED
    BY <2>2, <2>3
<1> QED
  BY <1>3, <1>4

(* So does every step.                                                      *)
LEMMA RowChanges ==
    ASSUME TypeInv, [Next]_vars, NEW d \in DOMAIN datasets'
    PROVE  RowChange(d)
<1>1. CASE UNCHANGED datasets
  BY <1>1 DEF RowChange
<1>2. ASSUME NEW h \in Handlers, NEW org \in Orgs, NEW data \in Uploads,
             UploadDataset(h, org, data)
      PROVE  RowChange(d)
  <2>1. datasets'[lastDataset + 1] =
           [org_id |-> org, status |-> "validating", storage_path |-> None,
            parquet_path |-> None, report |-> None]
    BY <1>2 DEF UploadDataset, create_dataset, Put, NewDatasetId
  <2>2. /\ d \in DOMAIN datasets => datasets'[d] = datasets[d]
        /\ d \in DOMAIN datasets \/ d = lastDataset + 1
    BY <1>2, UploadDatasetRows
  <2>3. UNCHANGED <<jobs, objects>>
    BY <1>2 DEF UploadDataset
  <2> QED
    BY <2>1, <2>2, <2>3 DEF RowChange
<1>3. ASSUME NEW h \in Handlers, DeleteRow(h) PROVE RowChange(d)
  BY <1>3, DeleteRowRows DEF RowChange
<1> QED
  BY <1>1, <1>2, <1>3, SettleChanges, TableSteps DEF TableFrame, CreateJob, JobWrite

(* The report of a row that has a parquet path is final.                    *)
LEMMA ReportsStay ==
    ASSUME TypeInv, TraceInv, [Next]_vars, NEW d \in DOMAIN datasets', d <= lastDataset
    PROVE  /\ d \in DOMAIN datasets
           /\ HasParquet(d) => HasParquet(d)' /\ datasets'[d].report = datasets[d].report
<1>1. lastDataset \in Nat
  BY CountersGrow
<1>2. RowChange(d)
  BY RowChanges
<1>3. ASSUME NEW h \in Handlers, RowSettled(h, d), d \in DOMAIN datasets
      PROVE  ~HasParquet(d)
  BY <1>3 DEF TraceInv, RequestTraced, RowSettled, UploadsTo, HasParquet
<1> QED
  BY <1>1, <1>2, <1>3 DEF RowChange, HasParquet

----------------------------------------------------------------------------
(* What a step may do to an object: it stays, is overwritten or added by    *)
(* the upload of its dataset or by a run of its job, or is removed by a     *)
(* request that has read its path.                                          *)

ArtifactOf(r) ==
    ArtifactPath(runs[r].row.org_id, runs[r].row.dataset_id, runs[r].job)

ObjectChange(p) ==
    \/ p \in DOMAIN objects /\ objects'[p] = objects[p]
    \/ /\ UNCHANGED <<datasets, jobs>>
       /\ p.file # "artifact"
       /\ \E h \in Handlers : UploadsTo(h, p.ds) /\ objects'[p] = req[h].data
    \/ /\ UNCHANGED <<datasets, jobs>>
       /\ \E r \in Runners :
             runs[r].pc = "upload" /\ p = ArtifactOf(r) /\ objects'[p] = runs[r].result

ArtifactsStay ==
    \A p \in DOMAIN objects : p.file = "artifact" => p \in DOMAIN objects'

(* Every step does that, and none removes an artifact.                      *)
LEMMA ObjectChanges ==
    ASSUME TypeInv, TraceInv, [Next]_vars
    PROVE  ArtifactsStay /\ \A p \in DOMAIN objects' : ObjectChange(p)
<1> DEFINE Goal == ArtifactsStay /\ \A p \in DOMAIN objects' : ObjectChange(p)
<1>1. ASSUME UNCHANGED objects PROVE Goal
  BY <1>1 DEF ArtifactsStay, ObjectChange
<1>2. ASSUME NEW h \in Handlers, PutRaw(h) \/ PutParquet(h) PROVE Goal
  <2>1. /\ req[h].pc \in UploadPC /\ UNCHANGED <<datasets, jobs>>
        /\ \/ upload_bytes(RawPath(req[h].org, req[h].ds), req[h].data)
           \/ upload_bytes(ParquetPath(req[h].org, req[h].ds), req[h].data)
    BY <1>2 DEF PutRaw, PutParquet, At, UploadPC
  <2> QED
    BY <2>1 DEF upload_bytes, Put, RawPath, ParquetPath, ArtifactsStay, ObjectChange, UploadsTo
<1>3. ASSUME NEW h \in Handlers, RemoveObjects(h) PROVE Goal
  <2>1. \A p \in req[h].paths : p.file # "artifact"
    BY DEF TraceInv, RequestTraced
  <2> QED
    BY <1>3, <2>1 DEF RemoveObjects, delete_paths, Without, ArtifactsStay, ObjectChange
<1>4. ASSUME NEW r \in Runners, runs[r].pc = "upload", WriteArtifact(r),
             UNCHANGED <<datasets, jobs>>
      PROVE  Goal
  <2>1. upload_bytes(ArtifactOf(r), runs[r].result)
    BY <1>4 DEF WriteArtifact, ArtifactOf
  <2> QED
    BY <1>4, <2>1 DEF upload_bytes, Put, ArtifactsStay, ObjectChange
<1>5. ASSUME NEW h \in Handlers, DatasetStep(h) PROVE Goal
  BY <1>1, <1>2, <1>3, <1>5
     DEF DatasetStep, MarkInvalid, Settle, MarkReady, DeleteRow, ReadRows, storeVars
<1>6. ASSUME NEW h \in Handlers, RunStep(h) PROVE Goal
  BY <1>1, <1>6 DEF RunStep, FindExisting, CreateJob, CreateRejected, Enqueue,
                    SyncReturn, SyncRaise, storeVars, runnerVars
<1>7. ASSUME NEW r \in Runners, ProcessJob(r) \/ CallRaises(r) PROVE Goal
  BY <1>1, <1>4, <1>7
     DEF ProcessJob, RunnerStep, Fetch, MarkRunning, Load, Compute, UploadArtifact,
         MarkSucceeded, MarkFailed, CallRaises, CallFails, AnswerLost, storeVars
<1> HIDE DEF Goal
<1>8. ASSUME NEW h \in Handlers, NewRequest(h) \/ RequestDies(h) PROVE UNCHANGED objects
  BY <1>8 DEF NewRequest, DatasetRequest, UploadDataset, DeleteDataset, GetRows, RunRequest,
              RunModule, RequestDies, DatasetRequestDies, RunRequestDies, storeVars
<1>9. ASSUME NEW w \in Workers, NEW j \in JobId,
             ArqStep(w, j)
      PROVE  UNCHANGED objects
  BY <1>9 DEF ArqStep, Claim, Start, Discard, runnerVars, storeVars
<1>10. ASSUME NEW w \in Workers, Finish(w) \/ WorkerCrash(w) PROVE UNCHANGED objects
  BY <1>10 DEF Finish, WorkerCrash, storeVars
<1>11. ASSUME NEW j \in JobId, LeaseExpires(j) \/ LeaseOverrun(j) PROVE UNCHANGED objects
  BY <1>11 DEF LeaseExpires, LeaseOverrun, runnerVars, storeVars
<1>12. UNCHANGED vars => UNCHANGED objects
  BY DEF vars, storeVars
<1>13. ASSUME NEW h \in Handlers, NewRequest(h) \/ HandlerStep(h) \/ RequestDies(h)
       PROVE  Goal
  BY <1>1, <1>5, <1>6, <1>8, <1>13 DEF HandlerStep
<1>14. Goal
  BY <1>1, <1>7, <1>9, <1>10, <1>11, <1>12, <1>13 DEF Next
<1> QED
  BY <1>14 DEF Goal

----------------------------------------------------------------------------
(* What a step may do to a request.                                         *)

RequestMove(h) ==
    \/ req'[h].pc \notin UploadPC /\ req'[h].paths \subseteq req[h].paths
    \/ /\ req'[h].pc \notin UploadPC
       /\ \E d \in DOMAIN datasets : req'[h].paths \subseteq StoredPaths(d)
    \/ /\ req[h].pc \in UploadPC /\ req'[h].ds = req[h].ds
       /\ req'[h].data = req[h].data /\ req'[h].paths = req[h].paths
    \/ /\ req'[h].ds = lastDataset + 1 /\ req'[h].paths = {}
       /\ lastDataset' = lastDataset + 1 /\ UNCHANGED objects

Moved(h) == (\A k \in Handlers \ {h} : req'[k] = req[k]) /\ RequestMove(h)

(* Serve writes the handler's own variables.                                *)
LEMMA Served ==
    ASSUME TypeInv, NEW h \in Handlers, NEW x, Serve(h, x)
    PROVE  req'[h] = x /\ \A k \in Handlers \ {h} : req'[k] = req[k]
  BY DEF Serve, TypeInv, RequestInv, RequestTypeOK

(* An answer forgets what was read.                                         *)
LEMMA RespondMoves ==
    ASSUME TypeInv, NEW h \in Handlers, Respond(h)
    PROVE  Moved(h)
  BY Served DEF Respond, IdleRequest, UploadPC, Moved, RequestMove

(* Going on from one call to the next keeps what the request is about.      *)
LEMMA ProceedMoves ==
    ASSUME TypeInv, NEW h \in Handlers, NEW pc, Proceed(h, pc),
           pc \in UploadPC => req[h].pc \in UploadPC
    PROVE  Moved(h)
<1> DEFINE x == [req[h] EXCEPT !.pc = pc]
<1>1. req[h] \in Request
  BY RequestFacts
<1>2. x.pc = pc /\ x.ds = req[h].ds /\ x.data = req[h].data /\ x.paths = req[h].paths
  BY <1>1 DEF Request
<1>3. Serve(h, x)
  BY DEF Proceed
<1> HIDE DEF x
<1> QED
  BY <1>2, <1>3, Served DEF Moved, RequestMove

(* A step moves one request at most.                                        *)
LEMMA RequestMoves ==
    ASSUME TypeInv, [Next]_vars
    PROVE  UNCHANGED req \/ \E h \in Handlers : Moved(h)
<1>1. ASSUME NEW h \in Handlers, RequestDies(h) PROVE Moved(h)
  BY <1>1, RespondMoves DEF RequestDies, DatasetRequestDies, RunRequestDies
<1>2. ASSUME NEW h \in Handlers, DatasetStep(h) PROVE Moved(h)
  <2>1. CASE PutRaw(h) \/ PutParquet(h) \/ RemoveObjects(h)
    BY <2>1, ProceedMoves DEF PutRaw, PutParquet, RemoveObjects, At, UploadPC
  <2>2. CASE MarkInvalid(h) \/ MarkReady(h) \/ DeleteRow(h) \/ ReadRows(h)
    BY <2>2, RespondMoves DEF MarkInvalid, MarkReady, Settle, DeleteRow, ReadRows
  <2> QED
    BY <1>2, <2>1, <2>2 DEF DatasetStep
<1>3. ASSUME NEW h \in Handlers, RunStep(h) PROVE Moved(h)
  <2>1. CASE CreateJob(h)
    <3> DEFINE x == [req[h] EXCEPT !.pc = IF SyncJobs THEN "sync" ELSE "enqueue",
                                   !.job = lastJob + 1]
    <3>1. req[h] \in Request
      BY RequestFacts
    <3>2. x.pc \notin UploadPC /\ x.paths = req[h].paths
      BY <3>1 DEF Request, UploadPC
    <3>3. Serve(h, x)
      BY <2>1 DEF CreateJob
    <3> HIDE DEF x
    <3> QED
      BY <3>2, <3>3, Served DEF Moved, RequestMove
  <2>2. CASE ~CreateJob(h)
    BY <1>3, <2>2, RespondMoves, ProceedMoves
       DEF RunStep, FindExisting, CreateRejected, Enqueue, SyncReturn, SyncRaise, UploadPC
  <2> QED
    BY <2>1, <2>2
<1>4. ASSUME NEW h \in Handlers, NEW org \in Orgs, NEW data \in Uploads,
             UploadDataset(h, org, data)
      PROVE  Moved(h)
  <2> DEFINE x == [IdleRequest EXCEPT !.pc = "put_raw", !.org = org,
                                      !.ds = NewDatasetId, !.data = data]
  <2>1. x.ds = lastDataset + 1 /\ x.paths = {}
    BY DEF IdleRequest, NewDatasetId
  <2>2. Serve(h, x) /\ UNCHANGED objects /\ lastDataset' = lastDataset + 1
    BY <1>4 DEF UploadDataset, create_dataset, NewDatasetId
  <2> HIDE DEF x
  <2> QED
    BY <2>1, <2>2, Served DEF Moved, RequestMove
<1>5. ASSUME NEW h \in Handlers, NEW org \in Orgs, NEW d \in DatasetId,
             DeleteDataset(h, org, d)
      PROVE  Moved(h)
  <2> DEFINE paths == StoredPaths(d)
             x == [IdleRequest EXCEPT
                     !.pc = IF paths # {} THEN "remove" ELSE "delete_row",
                     !.org = org, !.ds = d, !.paths = paths]
  <2>1. x.paths = StoredPaths(d) /\ x.pc \notin UploadPC
    BY DEF IdleRequest, UploadPC
  <2>2. Serve(h, x) /\ d \in DOMAIN datasets
    BY <1>5 DEF DeleteDataset, HasDataset
  <2> HIDE DEF x
  <2> QED
    BY <2>1, <2>2, Served DEF Moved, RequestMove
<1>6. ASSUME NEW h \in Handlers, NEW org \in Orgs, NEW d \in DatasetId,
             GetRows(h, org, d)
      PROVE  Moved(h)
  <2> DEFINE x == [IdleRequest EXCEPT !.pc = "read_rows", !.org = org, !.ds = d,
                                      !.paths = {datasets[d].parquet_path}]
  <2>1. x.paths = {datasets[d].parquet_path} /\ x.pc \notin UploadPC
    BY DEF IdleRequest, UploadPC
  <2>2. Serve(h, x) /\ d \in DOMAIN datasets /\ datasets[d].parquet_path # None
    BY <1>6 DEF GetRows, HasDataset, Servable
  <2> HIDE DEF x
  <2> QED
    BY <2>1, <2>2, Served DEF Moved, RequestMove, StoredPaths
<1>7. ASSUME NEW h \in Handlers, RunRequest(h) PROVE Moved(h)
  <2>1. PICK org \in Orgs, d \in DatasetId, m \in Modules, p \in Params, force \in BOOLEAN :
           RunModule(h, org, d, m, p, force)
    BY <1>7 DEF RunRequest
  <2> DEFINE x == [IdleRequest EXCEPT !.pc = IF force THEN "create" ELSE "find",
                                      !.org = org, !.ds = d, !.module = m,
                                      !.params = p, !.force = force]
  <2>2. x.paths = {} /\ x.pc \notin UploadPC
    BY DEF IdleRequest, UploadPC
  <2>3. Serve(h, x)
    BY <2>1 DEF RunModule
  <2> HIDE DEF x
  <2> QED
    BY <2>2, <2>3, Served DEF Moved, RequestMove
<1>8. CASE UNCHANGED req
  BY <1>8
<1> QED
  BY <1>1, <1>2, <1>3, <1>4, <1>5, <1>6, <1>7, <1>8
     DEF Next, NewRequest, DatasetRequest, HandlerStep, ProcessJob, CallRaises, vars

----------------------------------------------------------------------------
(* What a step may do to a run: most leave it, end it, or have no artifact  *)
(* yet.                                                                     *)

RunLoads(r) ==
    LET d == runs[r].row.dataset_id IN
    /\ runs'[r].pc = "download"
    /\ d \in DOMAIN datasets /\ HasParquet(d)
    /\ runs'[r].path = datasets[d].parquet_path
    /\ runs'[r].artifact = runs[r].artifact

RunComputes(r) ==
    LET row == runs[r].row
        result == runs'[r].result IN
    /\ runs[r].pc = "download" /\ runs[r].path \in DOMAIN objects
    /\ result = [data |-> objects[runs[r].path], module |-> row.module,
                 params |-> row.params]
    /\ \/ runs'[r].pc = "upload" /\ Outcome[result] = "artifact"
       \/ runs'[r].pc = "mark_succeeded" /\ Outcome[result] # "artifact"
    /\ runs'[r].artifact = runs[r].artifact

RunUploads(r) ==
    /\ runs[r].pc = "upload" /\ runs'[r].pc = "mark_succeeded"
    /\ runs'[r].result = runs[r].result
    /\ runs'[r].artifact = ArtifactOf(r) /\ ArtifactOf(r) \in DOMAIN objects'

RunMove(r) ==
    \/ runs'[r] = runs[r]
    \/ runs'[r].pc \in {"idle", "mark_failed", "done", "raised"}
    \/ /\ runs'[r].pc \in {"fetch", "mark_running", "load"}
       /\ runs'[r].artifact = None
    \/ /\ UNCHANGED <<datasets, jobs>>
       /\ runs[r].pc \in WithRow
       /\ runs'[r].row = runs[r].row /\ runs'[r].job = runs[r].job
       /\ \/ runs[r].pc = "load" /\ RunLoads(r)
          \/ RunComputes(r)
          \/ RunUploads(r)

(* Resume writes the local variables of one run.                            *)
LEMMA Resumed ==
    ASSUME TypeInv, NEW q \in Runners, NEW x, Resume(q, x)
    PROVE  runs'[q] = x /\ \A r \in Runners \ {q} : runs'[r] = runs[r]
  BY DEF Resume, TypeInv, RunnerInv, RunnerTypeOK

(* Going on without a result, or ending, keeps what a run has.              *)
LEMMA GotoMoves ==
    ASSUME TypeInv, NEW q \in Runners, NEW pc, NEW e, Goto(q, pc) \/ Catch(q, e)
    PROVE  /\ \A r \in Runners \ {q} : runs'[r] = runs[r]
           /\ runs'[q].pc \in {pc, "mark_failed"}
           /\ runs'[q].artifact = runs[q].artifact
           /\ Catch(q, e) \/ runs'[q].pc = pc
<1>1. runs[q] \in Run
  BY DEF TypeInv, RunnerInv, RunnerTypeOK
<1>2. CASE Goto(q, pc)
  BY <1>1, <1>2, Resumed DEF Goto, Run
<1>3. CASE Catch(q, e)
  <2> DEFINE x == [runs[q] EXCEPT !.pc = "mark_failed", !.error = e]
  <2>1. x.pc = "mark_failed" /\ x.artifact = runs[q].artifact
    BY <1>1 DEF Run
  <2>2. Resume(q, x)
    BY <1>3 DEF Catch
  <2> HIDE DEF x
  <2> QED
    BY <1>3, <2>1, <2>2, Resumed
<1> QED
  BY <1>2, <1>3

(* process_job moves its own run.                                           *)
LEMMA RunnerStepMoves ==
    ASSUME TypeInv, TraceInv, NEW q \in Runners, RunnerStep(q), NEW r \in Runners
    PROVE  RunMove(r)
<1>1. runs[q] \in Run /\ RunTraced(q)
  BY DEF TypeInv, RunnerInv, RunnerTypeOK, TraceInv
<1>2. CASE r # q
  <2>1. \E x : Resume(q, x)
    BY DEF RunnerStep, Fetch, MarkRunning, Load, Compute, UploadArtifact, MarkSucceeded,
           MarkFailed, NoObject, Rejected, Goto, Catch
  <2> QED
    BY <1>2, <2>1, Resumed DEF RunMove
<1>3. CASE Fetch(q)
  <2> DEFINE x == [runs[q] EXCEPT !.pc = "mark_running", !.row = Fetched(runs[q].job)]
  <2>1. x.pc = "mark_running" /\ x.artifact = None
    BY <1>1, <1>3 DEF Fetch, Run, RunTraced
  <2>2. Resume(q, x) \/ Goto(q, "done")
    BY <1>3 DEF Fetch
  <2> HIDE DEF x
  <2> QED
    BY <1>2, <2>1, <2>2, Resumed, GotoMoves DEF RunMove
<1>4. CASE MarkRunning(q)
  <2>1. (Goto(q, "load") \/ Goto(q, "raised")) /\ runs[q].artifact = None
    BY <1>1, <1>4 DEF MarkRunning, RunTraced
  <2> QED
    BY <1>2, <2>1, GotoMoves DEF RunMove
<1>5. CASE Load(q)
  <2> DEFINE d == runs[q].row.dataset_id
             x == [runs[q] EXCEPT !.pc = "download", !.path = datasets[d].parquet_path]
  <2>1. /\ x.pc = "download" /\ x.path = datasets[d].parquet_path
        /\ x.artifact = runs[q].artifact /\ x.row = runs[q].row /\ x.job = runs[q].job
    BY <1>1 DEF Run
  <2>2. CASE Catch(q, "actionable")
    BY <1>2, <2>2, GotoMoves DEF RunMove
  <2>3. CASE ~Catch(q, "actionable")
    <3>1. /\ Resume(q, x) /\ runs[q].pc = "load" /\ UNCHANGED <<datasets, jobs>>
          /\ d \in DOMAIN datasets /\ HasParquet(d)
      BY <1>5, <2>3 DEF Load, HasDataset, HasParquet, storeVars
    <3> HIDE DEF x
    <3>2. runs'[q] = x
      BY <3>1, Resumed
    <3> QED
      BY <1>2, <2>1, <3>1, <3>2 DEF RunMove, RunLoads, WithRow
  <2> QED
    BY <2>2, <2>3
<1>6. CASE Compute(q)
  <2> DEFINE row == runs[q].row
             result == [data |-> objects[runs[q].path], module |-> row.module,
                        params |-> row.params]
             next == IF Outcome[result] = "artifact" THEN "upload" ELSE "mark_succeeded"
             x == [runs[q] EXCEPT !.pc = next, !.result = result]
  <2>1. /\ x.pc = next /\ x.result = result
        /\ x.artifact = runs[q].artifact /\ x.row = row /\ x.job = runs[q].job
    BY <1>1 DEF Run
  <2>2. CASE Catch(q, "actionable") \/ Catch(q, "generic")
    BY <1>2, <2>2, GotoMoves DEF RunMove
  <2>3. CASE ~(Catch(q, "actionable") \/ Catch(q, "generic"))
    <3>1. /\ Resume(q, x) /\ runs[q].pc = "download" /\ UNCHANGED <<datasets, jobs>>
          /\ runs[q].path \in DOMAIN objects
      BY <1>6, <2>3 DEF Compute, NoObject, Rejected, storeVars
    <3> HIDE DEF x
    <3>2. runs'[q] = x
      BY <3>1, Resumed
    <3> QED
      BY <1>2, <2>1, <3>1, <3>2 DEF RunMove, RunComputes, WithRow
  <2> QED
    BY <2>2, <2>3
<1>7. CASE UploadArtifact(q)
  <2> DEFINE x == [runs[q] EXCEPT !.pc = "mark_succeeded", !.artifact = ArtifactOf(q)]
  <2>1. /\ x.pc = "mark_succeeded" /\ x.artifact = ArtifactOf(q)
        /\ x.result = runs[q].result /\ x.row = runs[q].row /\ x.job = runs[q].job
    BY <1>1 DEF Run
  <2>2. /\ Resume(q, x) /\ runs[q].pc = "upload" /\ UNCHANGED <<datasets, jobs>>
        /\ ArtifactOf(q) \in DOMAIN objects'
    BY <1>7 DEF UploadArtifact, ArtifactOf, WriteArtifact, upload_bytes, Put
  <2> HIDE DEF x
  <2>3. runs'[q] = x
    BY <2>2, Resumed
  <2> QED
    BY <1>2, <2>1, <2>2, <2>3 DEF RunMove, RunUploads, WithRow
<1>8. CASE MarkSucceeded(q) \/ MarkFailed(q)
  BY <1>2, <1>8, GotoMoves DEF MarkSucceeded, MarkFailed, RunMove
<1> QED
  BY <1>3, <1>4, <1>5, <1>6, <1>7, <1>8 DEF RunnerStep

(* A step moves a run as process_job does, starts it or ends it.            *)
LEMMA RunMoves ==
    ASSUME TypeInv, TraceInv, [Next]_vars, NEW r \in Runners
    PROVE  RunMove(r)
<1>1. CASE UNCHANGED runs
  BY <1>1 DEF RunMove
<1>2. ASSUME NEW q \in Runners, Resume(q, IdleRun) \/ \E j \in JobId : Resume(q, Called(j))
      PROVE  RunMove(r)
  <2>1. /\ IdleRun.pc = "idle"
        /\ \A j \in JobId : Called(j).pc = "fetch" /\ Called(j).artifact = None
    BY DEF IdleRun, Called
  <2> QED
    BY <1>2, <2>1, Resumed DEF RunMove
<1>3. ASSUME NEW h \in Handlers, CreateJob(h) PROVE RunMove(r)
  <2>1. lastJob + 1 \in JobId
    BY <1>3, StoreAssumption
       DEF CreateJob, create_job, TypeInv, StoreInv, StoreTypeOK, JobId
  <2> QED
    BY <1>1, <1>2, <1>3, <2>1, RunAssumption DEF CreateJob
<1>4. ASSUME NEW h \in Handlers, SyncReturn(h) \/ SyncRaise(h) \/ RunRequestDies(h)
      PROVE  RunMove(r)
  BY <1>2, <1>4, RunAssumption DEF SyncReturn, SyncRaise, RunRequestDies
<1>5. ASSUME NEW q \in Runners, ProcessJob(q) PROVE RunMove(r)
  BY <1>5, RunnerStepMoves DEF ProcessJob
<1>6. ASSUME NEW q \in Runners, CallRaises(q) PROVE RunMove(r)
  BY <1>6, GotoMoves DEF CallRaises, CallFails, AnswerLost, RaiseOrCatch, RunMove
<1>7. ASSUME NEW w \in Workers, Finish(w) \/ WorkerCrash(w) PROVE RunMove(r)
  BY <1>2, <1>7, ArqAssumption DEF Finish, WorkerCrash
<1>8. ASSUME NEW w \in Workers, NEW j \in JobId, Start(w, j) PROVE RunMove(r)
  BY <1>2, <1>8, ArqAssumption DEF Start
<1> QED
  BY <1>1, <1>3, <1>4, <1>5, <1>6, <1>7, <1>8
     DEF Next, NewRequest, RunRequest, RunModule, HandlerStep, RunStep, FindExisting,
         CreateRejected, Enqueue, RequestDies, ArqStep, Claim, Discard, LeaseExpires,
         LeaseOverrun, vars, runnerVars

----------------------------------------------------------------------------
(* What a step may do to a row of jobs: insert it, write a status or an     *)
(* error, or write the result of a run.                                     *)

Succeeds(r, j) ==
    /\ runs[r].pc = "mark_succeeded" /\ runs[r].job = j
    /\ jobs'[j].result_summary = runs[r].result
    /\ jobs'[j].result_storage_path = runs[r].artifact
    /\ UNCHANGED <<datasets, objects>>

JobChange(j) ==
    \/ /\ j \in DOMAIN jobs
       /\ jobs'[j].result_summary = jobs[j].result_summary
       /\ jobs'[j].result_storage_path = jobs[j].result_storage_path
       /\ jobs'[j].status \in {jobs[j].status, "running", "failed"}
    \/ /\ jobs'[j].status = "queued"
       /\ jobs'[j].result_summary = None /\ jobs'[j].result_storage_path = None
    \/ j \in DOMAIN jobs /\ \E r \in Runners : Succeeds(r, j)

(* Every step does.                                                         *)
LEMMA JobChanges ==
    ASSUME TypeInv, [Next]_vars, NEW j \in DOMAIN jobs'
    PROVE  JobChange(j)
<1>1. CASE j \in DOMAIN jobs /\ jobs'[j] = jobs[j]
  BY <1>1 DEF JobChange
<1>2. ASSUME NEW h \in Handlers, CreateJob(h) PROVE JobChange(j)
  <2>1. CASE j = lastJob + 1
    BY <1>2, <2>1 DEF CreateJob, create_job, Put, JobChange
  <2> QED
    BY <1>1, <1>2, <2>1, CreateJobRows
<1>3. ASSUME NEW r \in Runners, JobWrite(r) PROVE JobChange(j)
  <2> DEFINE k == runs[r].job
  <2>1. k \in DOMAIN jobs /\ jobs[k] \in JobRow
    BY <1>3, JobFacts DEF JobWrite, RowThere, HasJob
  <2>2. CASE WriteRunning(r)
    BY <1>1, <2>1, <2>2 DEF WriteRunning, update_job, JobRow, JobChange
  <2>3. CASE runs[r].pc = "mark_succeeded" /\ WriteSucceeded(r)
    BY <1>1, <1>3, <2>1, <2>3 DEF WriteSucceeded, update_job, JobRow, JobChange, Succeeds, JobWrite
  <2>4. CASE WriteFailed(r)
    BY <1>1, <2>1, <2>4 DEF WriteFailed, update_job, JobRow, JobChange
  <2> QED
    BY <1>3, <2>2, <2>3, <2>4 DEF JobWrite
<1>4. ASSUME NEW h \in Handlers, DeleteRow(h) PROVE JobChange(j)
  BY <1>1, <1>4, DeleteRowRows
<1> QED
  BY <1>1, <1>2, <1>3, <1>4, TableSteps, UploadDatasetRows, MarkRows DEF TableFrame

----------------------------------------------------------------------------
(* Every step keeps the trace of each row, request, run and object.         *)

(* Ids in hand are not those of rows that will be inserted.                 *)
LEMMA HomeFacts ==
    ASSUME TypeInv, TenancyInv
    PROVE  /\ lastDataset \in Nat /\ DOMAIN datasets \subseteq 1..lastDataset
           /\ lastJob \in Nat /\ DOMAIN jobs \subseteq 1..lastJob
           /\ \A h \in Handlers : req[h].pc \in UploadPC => req[h].ds \in 1..lastDataset
           /\ \A p \in DOMAIN objects : p.ds \in 1..lastDataset
           /\ \A p \in DOMAIN objects : p.file = "artifact" => p.job \in 1..lastJob
<1>1. /\ lastDataset \in Nat /\ DOMAIN datasets \subseteq 1..lastDataset
      /\ lastJob \in Nat /\ DOMAIN jobs \subseteq 1..lastJob
  BY StoreAssumption DEF TypeInv, StoreInv, StoreTypeOK
<1>2. \A h \in Handlers : req[h].pc \in UploadPC => req[h].ds \in 1..lastDataset
  BY DEF TenancyInv, RequestsAreAtHome, UploadPC
<1> QED
  BY <1>1, <1>2 DEF TenancyInv, ObjectsHaveIds

(* A row.                                                                   *)
LEMMA RowsStayTraced ==
    ASSUME TypeInv, TenancyInv, TraceInv, [Next]_vars, NEW d \in DOMAIN datasets'
    PROVE  RowTraced(d)'
<1>1. RowChange(d)
  BY RowChanges
<1>2. CASE d \in DOMAIN datasets /\ datasets'[d] = datasets[d]
  <2>1. RowTraced(d) /\ StoredPaths(d)' = StoredPaths(d)
    BY <1>2 DEF TraceInv, StoredPaths
  <2>2. ASSUME NEW p \in DOMAIN objects', p.file = "parquet", p.ds = d,
               datasets[d].parquet_path # None
        PROVE  objects'[p] = datasets[d].report
    <3>1. ObjectChange(p)
      BY ObjectChanges
    <3>2. p \in DOMAIN objects => objects[p] = datasets[d].report
      BY <2>1, <2>2 DEF RowTraced
    <3>3. \A h \in Handlers : ~UploadsTo(h, d)
      BY <1>2, <2>2 DEF TraceInv, RequestTraced, UploadsTo
    <3>4. \A r \in Runners : p # ArtifactOf(r)
      BY <2>2 DEF ArtifactOf, ArtifactPath
    <3> QED
      BY <2>2, <3>1, <3>2, <3>3, <3>4 DEF ObjectChange
  <2> QED
    BY <1>2, <2>1, <2>2 DEF RowTraced
<1>3. CASE datasets'[d].storage_path = None /\ datasets'[d].parquet_path = None
  BY <1>3 DEF RowTraced, StoredPaths
<1>4. ASSUME d \in DOMAIN datasets, NEW h \in Handlers, RowSettled(h, d)
      PROVE  RowTraced(d)'
  <2>1. /\ datasets[d].parquet_path = None
        /\ \A p \in DOMAIN objects :
              p.file = "parquet" /\ p.ds = d => objects[p] = req[h].data
    BY <1>4 DEF RowSettled, UploadsTo, TraceInv, RequestTraced
  <2>2. /\ RawPath(req[h].org, d).file # "artifact" /\ RawPath(req[h].org, d).ds = d
        /\ ParquetPath(req[h].org, d).file # "artifact" /\ ParquetPath(req[h].org, d).ds = d
    BY DEF RawPath, ParquetPath
  <2>3. UNCHANGED objects
    BY <1>4 DEF RowSettled
  <2> QED
    BY <1>4, <2>1, <2>2, <2>3 DEF RowSettled, RowTraced, StoredPaths
<1> QED
  BY <1>1, <1>2, <1>3, <1>4 DEF RowChange

(* A request that uploads was uploading before, or has just begun.          *)
LEMMA UploadersStayTraced ==
    ASSUME TypeInv, TenancyInv, TraceInv, [Next]_vars, NEW h \in Handlers,
           req'[h].pc \in UploadPC
    PROVE  \/ /\ req[h].pc \in UploadPC /\ req'[h].ds = req[h].ds
              /\ req'[h].data = req[h].data
           \/ /\ req'[h].ds = lastDataset + 1 /\ UNCHANGED objects
              /\ \A k \in Handlers \ {h} : req'[k] = req[k]
  BY RequestMoves DEF Moved, RequestMove

(* A request.                                                               *)
LEMMA RequestsStayTraced ==
    ASSUME TypeInv, TenancyInv, TraceInv, [Next]_vars, NEW h \in Handlers
    PROVE  RequestTraced(h)'
<1> DEFINE e == req'[h].ds
<1>1. \A p \in req'[h].paths : p.file # "artifact"
  <2>1. \A k \in Handlers : \A p \in req[k].paths : p.file # "artifact"
    BY DEF TraceInv, RequestTraced
  <2>2. \A d \in DOMAIN datasets : \A p \in StoredPaths(d) : p.file # "artifact"
    BY DEF TraceInv, RowTraced
  <2> QED
    BY <2>1, <2>2, RequestMoves DEF Moved, RequestMove
<1>2. CASE req'[h].pc \in UploadPC /\ req[h].pc \in UploadPC
           /\ req'[h].ds = req[h].ds /\ req'[h].data = req[h].data
  <2>1. /\ e \in DOMAIN datasets => datasets[e].parquet_path = None
        /\ \A g \in Handlers : UploadsTo(g, e) => g = h
        /\ \A p \in DOMAIN objects :
              p.file = "parquet" /\ p.ds = e => objects[p] = req'[h].data
    BY <1>2 DEF TraceInv, RequestTraced, UploadsTo
  <2>2. e \in 1..lastDataset /\ e # lastDataset + 1
    BY <1>2, HomeFacts
  <2>3. e \in DOMAIN datasets' => datasets'[e].parquet_path = None
    <3> SUFFICES ASSUME e \in DOMAIN datasets' PROVE datasets'[e].parquet_path = None
      OBVIOUS
    <3>1. RowChange(e)
      BY RowChanges
    <3>2. \A g \in Handlers : ~RowSettled(g, e)
      <4>1. "idle" \notin UploadPC
        BY DEF UploadPC
      <4> QED
        BY <1>2, <2>1, <4>1 DEF RowSettled
    <3> QED
      BY <2>1, <2>2, <3>1, <3>2 DEF RowChange
  <2>4. ASSUME NEW g \in Handlers, req'[g].pc \in UploadPC, req'[g].ds = e PROVE g = h
    BY <2>1, <2>2, <2>4, UploadersStayTraced DEF UploadsTo
  <2>5. ASSUME NEW p \in DOMAIN objects', p.file = "parquet", p.ds = e
        PROVE  objects'[p] = req'[h].data
    <3>1. ObjectChange(p)
      BY ObjectChanges
    <3>2. \A r \in Runners : p # ArtifactOf(r)
      BY <2>5 DEF ArtifactOf, ArtifactPath
    <3> QED
      BY <1>2, <2>1, <2>5, <3>1, <3>2 DEF ObjectChange
  <2> QED
    BY <1>1, <2>3, <2>4, <2>5 DEF RequestTraced
<1>3. CASE /\ req'[h].pc \in UploadPC
           /\ req'[h].ds = lastDataset + 1 /\ UNCHANGED objects
           /\ \A k \in Handlers \ {h} : req'[k] = req[k]
  <2>1. /\ e \notin DOMAIN datasets
        /\ \A p \in DOMAIN objects : p.ds # e
        /\ \A g \in Handlers : req[g].pc \in UploadPC => req[g].ds # e
    BY <1>3, HomeFacts
  <2>2. e \in DOMAIN datasets' => datasets'[e].parquet_path = None
    BY <2>1, RowChanges DEF RowChange
  <2> QED
    BY <1>1, <1>3, <2>1, <2>2 DEF RequestTraced
<1> QED
  BY <1>1, <1>2, <1>3, UploadersStayTraced DEF RequestTraced

(* What a run knows of its job and dataset, which are not new.              *)
LEMMA RunHomeFacts ==
    ASSUME TypeInv, TenancyInv, NEW r \in Runners, runs[r].pc \in WithRow
    PROVE  /\ runs[r].row.dataset_id \in 1..lastDataset
           /\ runs[r].job \in 1..lastJob
           /\ runs[r].job \in DOMAIN jobs =>
                 LET job == jobs[runs[r].job] IN
                 /\ job.dataset_id \in DOMAIN datasets
                 /\ runs[r].row.org_id = job.org_id
                 /\ runs[r].row.dataset_id = job.dataset_id
                 /\ runs[r].row.module = job.module
                 /\ runs[r].row.params = job.params
<1>1. /\ runs[r].row.dataset_id \in 1..lastDataset
      /\ runs[r].job \in 1..lastJob
      /\ runs[r].job \in DOMAIN jobs => runs[r].row = Fetched(runs[r].job)
  BY DEF TenancyInv, RunsAreAtHome
<1> QED
  BY <1>1 DEF Fetched, TenancyInv, JobsBelongToTheirDatasets

(* A run that computes has the result of what its dataset reports.          *)
LEMMA ComputedIsTraced ==
    ASSUME TypeInv, TraceInv, NEW r \in Runners, RunComputes(r)
    PROVE  LET result == runs'[r].result
               row == runs[r].row IN
           /\ result \in Result /\ result.module = row.module /\ result.params = row.params
           /\ row.dataset_id \in DOMAIN datasets =>
                 HasParquet(row.dataset_id) /\ result.data = datasets[row.dataset_id].report
<1> DEFINE d == runs[r].row.dataset_id
           path == runs[r].path
           result == runs'[r].result
<1>1. /\ runs[r].pc = "download" /\ path \in DOMAIN objects
      /\ result = [data |-> objects[path], module |-> runs[r].row.module,
                   params |-> runs[r].row.params]
  BY DEF RunComputes
<1>2. path.file = "parquet" /\ runs[r].row \in Snapshot
  BY <1>1, RunFacts DEF RunTyped, WithRow
<1>3. objects[path] \in Uploads
  BY <1>1, <1>2 DEF TypeInv, StoreInv, ObjectsTyped
<1>4. path.ds = d /\ (d \in DOMAIN datasets => HasParquet(d))
  BY <1>1 DEF TraceInv, RunTraced
<1>5. d \in DOMAIN datasets => objects[path] = datasets[d].report
  BY <1>1, <1>2, <1>4 DEF TraceInv, RowTraced, HasParquet
<1> QED
  BY <1>1, <1>2, <1>3, <1>4, <1>5 DEF Result, Snapshot

(* A run.                                                                   *)
LEMMA RunsStayTraced ==
    ASSUME TypeInv, TenancyInv, TraceInv, [Next]_vars, NEW r \in Runners
    PROVE  RunTraced(r)'
<1> DEFINE row == runs[r].row
           d == row.dataset_id
           path == ArtifactPath(row.org_id, d, runs[r].job)
<1>1. RunTraced(r)
  BY DEF TraceInv
<1>2. path.file = "artifact" /\ path = ArtifactOf(r)
  BY DEF ArtifactPath, ArtifactOf
<1>3. CASE runs'[r] = runs[r]
  <2>1. ASSUME runs[r].pc \in {"download", "upload", "mark_succeeded"},
               d \in DOMAIN datasets', d \in DOMAIN datasets => HasParquet(d)
        PROVE  d \in DOMAIN datasets /\ HasParquet(d)' /\ datasets'[d].report = datasets[d].report
    <3>1. d <= lastDataset
      BY <2>1, RunHomeFacts, HomeFacts DEF WithRow
    <3> QED
      BY <1>3, <2>1, <3>1, ReportsStay DEF HasParquet
  <2>2. path \in DOMAIN objects => path \in DOMAIN objects'
    BY <1>2, ObjectChanges DEF ArtifactsStay
  <2> HIDE DEF path
  <2>3. RunTraced(r)' <=>
           LET result == runs[r].result IN
           /\ runs[r].pc \in {"fetch", "mark_running", "load", "download", "upload"} =>
                 runs[r].artifact = None
           /\ runs[r].pc = "download" =>
                 runs[r].path.ds = d /\ (d \in DOMAIN datasets' => HasParquet(d)')
           /\ runs[r].pc \in {"upload", "mark_succeeded"} =>
                 /\ result \in Result /\ result.module = row.module /\ result.params = row.params
                 /\ d \in DOMAIN datasets' => HasParquet(d)' /\ result.data = datasets'[d].report
           /\ runs[r].pc = "upload" => Outcome[result] = "artifact"
           /\ runs[r].pc = "mark_succeeded" =>
                 IF Outcome[result] = "artifact"
                 THEN runs[r].artifact = path /\ path \in DOMAIN objects'
                 ELSE runs[r].artifact = None
    BY <1>3 DEF RunTraced, HasParquet, path
  <2> QED
    BY <1>1, <2>1, <2>2, <2>3 DEF RunTraced, path
<1>4. CASE runs'[r].pc \in {"idle", "mark_failed", "done", "raised"}
  BY <1>4 DEF RunTraced
<1>5. CASE runs'[r].pc \in {"fetch", "mark_running", "load"} /\ runs'[r].artifact = None
  BY <1>5 DEF RunTraced
<1>6. CASE UNCHANGED <<datasets, jobs>> /\ runs'[r].row = row /\ runs'[r].job = runs[r].job
  <2>1. CASE runs[r].pc = "load" /\ RunLoads(r)
    <3>1. datasets[d].parquet_path.ds = d
      BY <2>1 DEF RunLoads, TraceInv, RowTraced, StoredPaths, HasParquet
    <3> QED
      BY <1>1, <1>6, <2>1, <3>1 DEF RunLoads, RunTraced, HasParquet
  <2>2. CASE RunComputes(r)
    <3>1. /\ runs'[r].artifact = None
          /\ \/ runs'[r].pc = "upload" /\ Outcome[runs'[r].result] = "artifact"
             \/ runs'[r].pc = "mark_succeeded" /\ Outcome[runs'[r].result] # "artifact"
      BY <1>1, <2>2 DEF RunComputes, RunTraced
    <3> QED
      BY <1>6, <2>2, <3>1, ComputedIsTraced DEF RunTraced, HasParquet
  <2>3. CASE RunUploads(r)
    BY <1>1, <1>2, <1>6, <2>3 DEF RunUploads, RunTraced, HasParquet
  <2> QED
    BY <2>1, <2>2, <2>3, RunMoves, <1>3, <1>4, <1>5 DEF RunMove
<1> QED
  BY <1>3, <1>4, <1>5, <1>6, RunMoves DEF RunMove

(* What a job was expected to yield it will be, if it is still there.       *)
LEMMA ExpectedStays ==
    ASSUME TypeInv, TenancyInv, TraceInv, [Next]_vars, NEW j \in DOMAIN jobs',
           j <= lastJob,
           j \in DOMAIN jobs => HasParquet(jobs[j].dataset_id)
    PROVE  /\ j \in DOMAIN jobs
           /\ jobs'[j].org_id = jobs[j].org_id
           /\ jobs'[j].dataset_id = jobs[j].dataset_id
           /\ HasParquet(jobs[j].dataset_id)'
           /\ Expected(j)' = Expected(j)
<1>1. /\ j \in DOMAIN jobs /\ Identity(jobs'[j]) = Identity(jobs[j])
  BY CountersGrow, NextKeepsIdentities DEF RowsKeepTheirIdentity
<1> DEFINE d == jobs[j].dataset_id
<1>2. d \in DOMAIN datasets /\ d <= lastDataset
  BY <1>1, HomeFacts DEF TenancyInv, JobsBelongToTheirDatasets
<1>3. jobs'[j].dataset_id \in DOMAIN datasets'
  BY NextKeepsTenancy DEF TenancyInv, JobsBelongToTheirDatasets
<1>4. /\ jobs'[j].org_id = jobs[j].org_id /\ jobs'[j].dataset_id = d
      /\ jobs'[j].module = jobs[j].module /\ jobs'[j].params = jobs[j].params
  BY <1>1 DEF Identity
<1>5. HasParquet(d)' /\ datasets'[d].report = datasets[d].report
  BY <1>1, <1>2, <1>3, <1>4, ReportsStay
<1> QED
  BY <1>1, <1>4, <1>5 DEF Expected

(* An artifact.                                                             *)
LEMMA ArtifactsStayTraced ==
    ASSUME TypeInv, TenancyInv, TraceInv, [Next]_vars, NEW p \in DOMAIN objects'
    PROVE  ArtifactTraced(p)'
<1> SUFFICES ASSUME p.file = "artifact", p.job \in DOMAIN jobs'
             PROVE  HasParquet(jobs[p.job].dataset_id)' /\ objects'[p] = Expected(p.job)'
  BY DEF ArtifactTraced
<1>1. CASE p \in DOMAIN objects /\ objects'[p] = objects[p]
  <2>1. /\ p.job \in DOMAIN jobs => HasParquet(jobs[p.job].dataset_id)
        /\ p.job \in DOMAIN jobs => objects[p] = Expected(p.job)
    BY <1>1 DEF TraceInv, ArtifactTraced
  <2>2. p.job <= lastJob
    BY <1>1, HomeFacts
  <2>3. /\ p.job \in DOMAIN jobs /\ HasParquet(jobs[p.job].dataset_id)'
        /\ Expected(p.job)' = Expected(p.job)
    BY <2>1, <2>2, ExpectedStays DEF HasParquet
  <2> QED
    BY <1>1, <2>1, <2>3
<1>2. ASSUME NEW r \in Runners, UNCHANGED <<datasets, jobs>>, runs[r].pc = "upload",
             p = ArtifactOf(r), objects'[p] = runs[r].result
      PROVE  HasParquet(jobs[p.job].dataset_id)' /\ objects'[p] = Expected(p.job)'
  <2> DEFINE j == runs[r].job
             d == jobs[j].dataset_id
  <2>1. p.job = j /\ j \in DOMAIN jobs
    BY <1>2 DEF ArtifactOf, ArtifactPath
  <2>2. /\ d \in DOMAIN datasets /\ runs[r].row.dataset_id = d
        /\ runs[r].row.module = jobs[j].module /\ runs[r].row.params = jobs[j].params
    BY <1>2, <2>1, RunHomeFacts DEF WithRow
  <2>3. /\ HasParquet(d) /\ runs[r].result \in Result
        /\ runs[r].result.data = datasets[d].report
        /\ runs[r].result.module = jobs[j].module /\ runs[r].result.params = jobs[j].params
    BY <1>2, <2>2 DEF TraceInv, RunTraced
  <2>4. runs[r].result = Expected(j)
    BY <2>3 DEF Result, Expected
  <2> QED
    BY <1>2, <2>1, <2>3, <2>4 DEF Expected, HasParquet
<1> QED
  BY <1>1, <1>2, ObjectChanges DEF ObjectChange

(* A job.                                                                   *)
LEMMA JobsStayTraced ==
    ASSUME TypeInv, TenancyInv, TraceInv, [Next]_vars, NEW j \in DOMAIN jobs'
    PROVE  JobTraced(j)'
<1> DEFINE job == jobs'[j]
           path == ArtifactPath(job.org_id, job.dataset_id, j)
<1>1. JobTraced(j)' <=>
        /\ job.status = "succeeded" => job.result_summary # None
        /\ job.result_summary = None => job.result_storage_path = None
        /\ job.result_summary # None =>
             /\ datasets'[job.dataset_id].parquet_path # None
             /\ job.result_summary = Expected(j)'
             /\ IF Outcome[job.result_summary] = "artifact"
                THEN job.result_storage_path = path /\ path \in DOMAIN objects'
                ELSE job.result_storage_path = None
  BY DEF JobTraced, HasParquet
<1>2. path.file = "artifact"
  BY DEF ArtifactPath
<1> HIDE DEF job
<1>3. JobChange(j)
  BY JobChanges
<1>4. CASE /\ j \in DOMAIN jobs
           /\ job.result_summary = jobs[j].result_summary
           /\ job.result_storage_path = jobs[j].result_storage_path
           /\ job.status \in {jobs[j].status, "running", "failed"}
  <2>1. JobTraced(j)
    BY <1>4 DEF TraceInv
  <2>2. CASE jobs[j].result_summary = None
    BY <1>1, <1>4, <2>1, <2>2 DEF JobTraced
  <2>3. CASE jobs[j].result_summary # None
    <3>1. HasParquet(jobs[j].dataset_id) /\ j <= lastJob
      BY <1>4, <2>1, <2>3, HomeFacts DEF JobTraced
    <3>2. /\ job.org_id = jobs[j].org_id /\ job.dataset_id = jobs[j].dataset_id
          /\ datasets'[job.dataset_id].parquet_path # None
          /\ Expected(j)' = Expected(j)
      BY <3>1, ExpectedStays DEF HasParquet, job
    <3>3. path \in DOMAIN objects => path \in DOMAIN objects'
      BY <1>2, ObjectChanges DEF ArtifactsStay
    <3> QED
      BY <1>1, <1>4, <2>1, <2>3, <3>2, <3>3 DEF JobTraced
  <2> QED
    BY <2>2, <2>3
<1>5. CASE job.status = "queued" /\ job.result_summary = None /\ job.result_storage_path = None
  BY <1>1, <1>5
<1>6. ASSUME j \in DOMAIN jobs, NEW r \in Runners, Succeeds(r, j)
      PROVE  JobTraced(j)'
  <2> DEFINE d == jobs[j].dataset_id
             result == runs[r].result
  <2>1. /\ runs[r].pc = "mark_succeeded" /\ runs[r].job = j
        /\ job.result_summary = result /\ job.result_storage_path = runs[r].artifact
        /\ UNCHANGED <<datasets, objects>>
    BY <1>6 DEF Succeeds, job
  <2>2. /\ d \in DOMAIN datasets /\ runs[r].row.dataset_id = d
        /\ runs[r].row.org_id = jobs[j].org_id
        /\ runs[r].row.module = jobs[j].module /\ runs[r].row.params = jobs[j].params
    BY <1>6, <2>1, RunHomeFacts DEF WithRow
  <2>3. Identity(job) = Identity(jobs[j])
    BY <1>6, NextKeepsIdentities DEF RowsKeepTheirIdentity, job
  <2>4. /\ HasParquet(d) /\ result \in Result
        /\ result.data = datasets[d].report
        /\ result.module = jobs[j].module /\ result.params = jobs[j].params
        /\ IF Outcome[result] = "artifact"
           THEN /\ runs[r].artifact = ArtifactPath(jobs[j].org_id, d, j)
                /\ runs[r].artifact \in DOMAIN objects
           ELSE runs[r].artifact = None
    BY <2>1, <2>2 DEF TraceInv, RunTraced
  <2>5. job.org_id = jobs[j].org_id /\ job.dataset_id = d
        /\ job.module = jobs[j].module /\ job.params = jobs[j].params
    BY <2>3 DEF Identity
  <2>6. result = Expected(j)' /\ result # None
    BY <2>1, <2>4, <2>5, NoneFacts DEF Result, Expected, job
  <2> QED
    BY <1>1, <2>1, <2>4, <2>5, <2>6 DEF HasParquet
<1> QED
  BY <1>3, <1>4, <1>5, <1>6 DEF JobChange, job

(* At the start there is nothing to trace.                                  *)
LEMMA InitTraced == Init => TraceInv
  BY DEF Init, StoreInit, RequestInit, RunnerInit, IdleRequest, IdleRun, UploadPC,
         TraceInv, RequestTraced, RunTraced

(* What is stored, held and reported can be traced throughout.              *)
THEOREM TraceInvariant == Spec => []TraceInv
<1>1. TypeInv /\ TenancyInv /\ TraceInv /\ [Next]_vars => TraceInv'
  BY RowsStayTraced, RequestsStayTraced, RunsStayTraced, ArtifactsStayTraced,
     JobsStayTraced DEF TraceInv
<1> QED
  BY <1>1, InitTraced, LocalTypesCorrect, TenancyInvariant, PTL DEF Spec

(* The artifact a job points at is there, and is the one the job's module   *)
(* makes of its dataset (app/worker.py, app/routers/jobs.py).               *)
THEOREM ArtifactsServed == Spec => []ArtifactsAreServed
<1>1. TraceInv => ArtifactsAreServed
  BY DEF TraceInv, JobTraced, ArtifactTraced, ArtifactsAreServed, HasArtifact, Expected,
         ArtifactPath
<1> QED
  BY <1>1, TraceInvariant, PTL

(* A succeeded job has a result, and every result is the one the job's      *)
(* module computes from its dataset (app/worker.py).                        *)
THEOREM ResultsRight == Spec => []ResultsAreRight
<1>1. TypeInv /\ TraceInv => ResultsAreRight
  <2> SUFFICES ASSUME TypeInv, TraceInv, NEW j \in DOMAIN jobs
               PROVE  LET row == jobs[j] IN
                      /\ HasResults(j) => row.result_summary # None
                      /\ row.result_summary # None =>
                            /\ row.result_summary = Expected(j)
                            /\ row.result_storage_path # None
                                 <=> Outcome[row.result_summary] = "artifact"
    BY DEF ResultsAreRight, Expected
  <2>1. None \notin DOMAIN objects
    BY NoneFacts DEF TypeInv, StoreInv, StoreTypeOK
  <2>2. JobTraced(j)
    BY DEF TraceInv
  <2> QED
    BY <2>1, <2>2 DEF JobTraced, HasResults
<1> QED
  BY <1>1, LocalTypesCorrect, TraceInvariant, PTL

----------------------------------------------------------------------------
(* Readiness: what a step may do to a request that has been checked.        *)

Checked == {"find", "create"}

RequestChecked(k) ==
    req'[k].pc \in Checked =>
        \/ req[k].pc \in Checked /\ req'[k].ds = req[k].ds
        \/ /\ UNCHANGED datasets
           /\ req'[k].ds \in DOMAIN datasets /\ datasets[req'[k].ds].status = "ready"

(* A request that is elsewhere.                                             *)
LEMMA ServeElsewhere ==
    ASSUME TypeInv, NEW h \in Handlers, NEW x, Serve(h, x), x.pc \notin Checked,
           NEW k \in Handlers
    PROVE  RequestChecked(k)
  BY Served DEF RequestChecked

(* One that has ended or goes on elsewhere.                                 *)
LEMMA GoElsewhere ==
    ASSUME TypeInv, NEW h \in Handlers, NEW pc,
           Respond(h) \/ (Proceed(h, pc) /\ pc \notin Checked), NEW k \in Handlers
    PROVE  RequestChecked(k)
<1>1. IdleRequest.pc \notin Checked
  BY DEF IdleRequest, Checked
<1>2. [req[h] EXCEPT !.pc = pc].pc = pc
  BY RequestFacts DEF Request
<1> QED
  BY <1>1, <1>2, ServeElsewhere DEF Respond, Proceed

(* A run request is checked when it comes; none comes unchecked.            *)
LEMMA ChecksPrecedeJobs ==
    ASSUME TypeInv, [Next]_vars, NEW k \in Handlers
    PROVE  RequestChecked(k)
<1>1. CASE UNCHANGED req
  BY <1>1 DEF RequestChecked
<1>2. ASSUME NEW h \in Handlers, RequestDies(h) PROVE RequestChecked(k)
  BY <1>2, GoElsewhere DEF RequestDies, DatasetRequestDies, RunRequestDies
<1>3. ASSUME NEW h \in Handlers, DatasetRequest(h) PROVE RequestChecked(k)
  <2>1. ASSUME NEW org \in Orgs, NEW data \in Uploads, UploadDataset(h, org, data)
        PROVE  RequestChecked(k)
    <3> DEFINE x == [IdleRequest EXCEPT !.pc = "put_raw", !.org = org,
                                        !.ds = lastDataset + 1, !.data = data]
    <3>1. x.pc \notin Checked
      BY DEF IdleRequest, Checked
    <3>2. Serve(h, x)
      BY <2>1 DEF UploadDataset, NewDatasetId
    <3> HIDE DEF x
    <3> QED
      BY <3>1, <3>2, ServeElsewhere
  <2>2. ASSUME NEW org \in Orgs, NEW d \in DatasetId, DeleteDataset(h, org, d)
        PROVE  RequestChecked(k)
    <3> DEFINE paths == {datasets[d].storage_path, datasets[d].parquet_path} \ {None}
               x == [IdleRequest EXCEPT
                       !.pc = IF paths # {} THEN "remove" ELSE "delete_row",
                       !.org = org, !.ds = d, !.paths = paths]
    <3>1. x.pc \notin Checked
      BY DEF IdleRequest, Checked
    <3>2. Serve(h, x)
      BY <2>2 DEF DeleteDataset, StoredPaths
    <3> HIDE DEF x
    <3> QED
      BY <3>1, <3>2, ServeElsewhere
  <2>3. ASSUME NEW org \in Orgs, NEW d \in DatasetId, GetRows(h, org, d)
        PROVE  RequestChecked(k)
    <3> DEFINE x == [IdleRequest EXCEPT !.pc = "read_rows", !.org = org, !.ds = d,
                                        !.paths = {datasets[d].parquet_path}]
    <3>1. x.pc \notin Checked
      BY DEF IdleRequest, Checked
    <3>2. Serve(h, x)
      BY <2>3 DEF GetRows
    <3> HIDE DEF x
    <3> QED
      BY <3>1, <3>2, ServeElsewhere
  <2> QED
    BY <1>3, <2>1, <2>2, <2>3 DEF DatasetRequest
<1>4. ASSUME NEW h \in Handlers, RunRequest(h) PROVE RequestChecked(k)
  <2>1. PICK org \in Orgs, d \in DatasetId, m \in Modules, p \in Params, force \in BOOLEAN :
           RunModule(h, org, d, m, p, force)
    BY <1>4 DEF RunRequest
  <2> DEFINE x == [IdleRequest EXCEPT !.pc = IF force THEN "create" ELSE "find",
                                      !.org = org, !.ds = d, !.module = m,
                                      !.params = p, !.force = force]
  <2>2. x.ds = d
    BY DEF IdleRequest
  <2>3. /\ Serve(h, x) /\ UNCHANGED datasets
        /\ d \in DOMAIN datasets /\ datasets[d].status = "ready"
    BY <2>1 DEF RunModule, HasDataset, storeVars
  <2> HIDE DEF x
  <2> QED
    BY <2>2, <2>3, Served DEF RequestChecked
<1>5. ASSUME NEW h \in Handlers, DatasetStep(h) PROVE RequestChecked(k)
  <2>1. \A data : AfterRaw(data) \notin Checked
    BY DEF AfterRaw, Checked
  <2>2. CASE PutRaw(h)
    BY <2>1, <2>2, GoElsewhere DEF PutRaw
  <2>3. CASE PutParquet(h)
    BY <2>3, GoElsewhere, "mark_ready" \notin Checked DEF PutParquet, Checked
  <2>4. CASE RemoveObjects(h)
    BY <2>4, GoElsewhere, "delete_row" \notin Checked DEF RemoveObjects, Checked
  <2>5. CASE MarkInvalid(h) \/ MarkReady(h) \/ DeleteRow(h) \/ ReadRows(h)
    BY <2>5, GoElsewhere DEF MarkInvalid, MarkReady, Settle, DeleteRow, ReadRows
  <2> QED
    BY <1>5, <2>2, <2>3, <2>4, <2>5 DEF DatasetStep
<1>6. ASSUME NEW h \in Handlers, RunStep(h) PROVE RequestChecked(k)
  <2>1. req[h] \in Request
    BY RequestFacts
  <2>2. CASE FindExisting(h)
    <3>1. CASE Respond(h)
      BY <3>1, GoElsewhere
    <3>2. CASE Proceed(h, "create")
      <4> DEFINE x == [req[h] EXCEPT !.pc = "create"]
      <4>1. x.ds = req[h].ds /\ req[h].pc \in Checked
        BY <2>1, <2>2 DEF Request, FindExisting, At, Checked
      <4>2. Serve(h, x)
        BY <3>2 DEF Proceed
      <4> HIDE DEF x
      <4> QED
        BY <4>1, <4>2, Served DEF RequestChecked
    <3> QED
      BY <2>2, <3>1, <3>2 DEF FindExisting
  <2>3. CASE CreateJob(h)
    <3> DEFINE x == [req[h] EXCEPT !.pc = IF SyncJobs THEN "sync" ELSE "enqueue",
                                   !.job = lastJob + 1]
    <3>1. x.pc \notin Checked
      BY <2>1 DEF Request, Checked
    <3>2. Serve(h, x)
      BY <2>3 DEF CreateJob
    <3> HIDE DEF x
    <3> QED
      BY <3>1, <3>2, ServeElsewhere
  <2>4. CASE CreateRejected(h) \/ Enqueue(h) \/ SyncReturn(h) \/ SyncRaise(h)
    BY <2>4, GoElsewhere DEF CreateRejected, Enqueue, SyncReturn, SyncRaise
  <2> QED
    BY <1>6, <2>2, <2>3, <2>4 DEF RunStep
<1> QED
  BY <1>1, <1>2, <1>3, <1>4, <1>5, <1>6
     DEF Next, NewRequest, HandlerStep, ProcessJob, CallRaises, vars

(* A row that an upload is not working on is not updated.                   *)
LEMMA SettledRowsStay ==
    ASSUME TypeInv, ReadinessInv, [Next]_vars, NEW d \in DOMAIN datasets',
           d \in DOMAIN datasets
    PROVE  datasets'[d] = datasets[d] \/ datasets[d].status = "validating"
<1>1. RowChange(d)
  BY RowChanges
<1>2. lastDataset + 1 \notin DOMAIN datasets
  BY CountersGrow
<1>3. ASSUME NEW h \in Handlers, RowSettled(h, d) PROVE datasets[d].status = "validating"
  BY <1>3 DEF RowSettled, UploadsTo, ReadinessInv, RequestReady, HasStatus
<1> QED
  BY <1>1, <1>2, <1>3 DEF RowChange

(* So a ready one remains ready while it exists.                           *)
LEMMA ReadyStays ==
    ASSUME TypeInv, ReadinessInv, [Next]_vars, NEW d \in DOMAIN datasets',
           d <= lastDataset, HasStatus(d, "ready")
    PROVE  datasets'[d].status = "ready"
<1>1. RowChange(d) /\ lastDataset \in Nat
  BY RowChanges, CountersGrow
<1>2. d \in DOMAIN datasets
  BY <1>1 DEF RowChange
<1>3. datasets[d].status = "ready"
  BY <1>2 DEF HasStatus
<1> QED
  BY <1>2, <1>3, SettledRowsStay

(* A step keeps readiness.                                                  *)
LEMMA NextKeepsReadiness ==
    ASSUME TypeInv, TenancyInv, TraceInv, ReadinessInv, [Next]_vars
    PROVE  ReadinessInv'
<1>1. ASSUME NEW d \in DOMAIN datasets'
      PROVE  datasets'[d].status = "ready" <=> HasParquet(d)'
  <2>1. RowChange(d)
    BY RowChanges
  <2>2. CASE d \in DOMAIN datasets /\ datasets'[d] = datasets[d]
    BY <2>2 DEF ReadinessInv, HasParquet
  <2>3. ASSUME d \in DOMAIN datasets, NEW h \in Handlers, RowSettled(h, d)
        PROVE  datasets'[d].status = "ready" <=> HasParquet(d)'
    <3>1. datasets[d].parquet_path = None
      BY <2>3 DEF TraceInv, RequestTraced, RowSettled, UploadsTo
    <3>2. /\ datasets'[d].status = "ready"
             /\ datasets'[d].parquet_path = ParquetPath(req[h].org, d)
          \/ /\ datasets'[d].status = "failed"
             /\ datasets'[d].parquet_path = datasets[d].parquet_path
      BY <2>3 DEF RowSettled
    <3>3. ParquetPath(req[h].org, d) # None
      <4>1. req[h].org \in Orgs /\ d \in DatasetId
        BY <2>3
           DEF RowSettled, UploadsTo, UploadPC, TypeInv, RequestInv, RequestsTyped, RequestTyped
      <4> QED
        BY <4>1, PathFacts, NoneFacts
    <3> QED
      BY <3>1, <3>2, <3>3 DEF HasParquet
  <2> QED
    BY <2>1, <2>2, <2>3 DEF RowChange, HasParquet
<1>2. ASSUME NEW h \in Handlers PROVE RequestReady(h)'
  <2> DEFINE d == req'[h].ds
  <2>1. CASE req'[h].pc \in UploadPC
    <3>1. CASE req[h].pc \in UploadPC /\ d = req[h].ds
      <4> SUFFICES ASSUME d \in DOMAIN datasets' PROVE datasets'[d].status = "validating"
        BY <2>1 DEF RequestReady, HasStatus, UploadPC
      <4>1. RowChange(d)
        BY RowChanges
      <4>2. d \in DOMAIN datasets => datasets[d].status = "validating"
        BY <3>1 DEF ReadinessInv, RequestReady, HasStatus
      <4>3. ASSUME NEW g \in Handlers, RowSettled(g, d), d \in DOMAIN datasets PROVE FALSE
        <5>1. g = h
          BY <3>1, <4>3 DEF TraceInv, RequestTraced, RowSettled, UploadsTo
        <5> QED
          BY <2>1, <4>3, <5>1 DEF RowSettled, UploadPC
      <4> QED
        BY <4>1, <4>2, <4>3 DEF RowChange
    <3>2. CASE d = lastDataset + 1
      <4>1. d \in DOMAIN datasets' => datasets'[d].status = "validating"
        BY <3>2, RowChanges, CountersGrow DEF RowChange
      <4> QED
        BY <2>1, <4>1 DEF RequestReady, HasStatus, UploadPC
    <3> QED
      BY <2>1, <3>1, <3>2, UploadersStayTraced
  <2>2. CASE req'[h].pc \in Checked
    <3>1. ASSUME d \in DOMAIN datasets' PROVE datasets'[d].status = "ready"
      <4>1. CASE req[h].pc \in Checked /\ d = req[h].ds
        <5>1. d \in 1..lastDataset /\ lastDataset \in Nat
          BY <4>1, CountersGrow DEF TenancyInv, RequestsAreAtHome, Checked
        <5>2. HasStatus(d, "ready")
          BY <4>1 DEF ReadinessInv, RequestReady, Checked
        <5> HIDE DEF d
        <5> QED
          BY <3>1, <5>1, <5>2, ReadyStays
      <4>2. CASE UNCHANGED datasets /\ d \in DOMAIN datasets /\ datasets[d].status = "ready"
        BY <4>2
      <4> QED
        BY <2>2, <4>1, <4>2, ChecksPrecedeJobs DEF RequestChecked
    <3>2. req'[h].pc \notin UploadPC
      BY <2>2 DEF Checked, UploadPC
    <3> QED
      BY <3>1, <3>2 DEF RequestReady, HasStatus
  <2> QED
    BY <2>1, <2>2 DEF RequestReady, Checked
<1>3. ASSUME NEW j \in DOMAIN jobs', jobs'[j].dataset_id \in DOMAIN datasets'
      PROVE  datasets'[jobs'[j].dataset_id].status = "ready"
  <2>1. CASE j \in DOMAIN jobs
    <3> DEFINE d == jobs[j].dataset_id
    <3>1. jobs'[j].dataset_id = d
      BY <2>1, NextKeepsIdentities DEF RowsKeepTheirIdentity, Identity
    <3>2. d \in DOMAIN datasets
      BY <2>1 DEF TenancyInv, JobsBelongToTheirDatasets
    <3>3. HasStatus(d, "ready") /\ d <= lastDataset
      BY <2>1, <3>2, CountersGrow DEF ReadinessInv
    <3> HIDE DEF d
    <3> QED
      BY <1>3, <3>1, <3>3, ReadyStays
  <2>2. CASE j \notin DOMAIN jobs
    <3>1. PICK h \in Handlers : CreateJob(h)
      BY <2>2, TableSteps, UploadDatasetRows, MarkRows, DeleteRowRows, JobWriteRows
         DEF TableFrame
    <3>2. /\ j = lastJob + 1 /\ jobs'[j].dataset_id = req[h].ds
          /\ UNCHANGED datasets
      BY <1>3, <2>2, <3>1, CreateJobRows
    <3>3. req[h].pc = "create"
      BY <3>1 DEF CreateJob, At
    <3>4. HasStatus(req[h].ds, "ready")
      BY <3>3 DEF ReadinessInv, RequestReady
    <3> QED
      BY <1>3, <3>2, <3>4 DEF HasStatus
  <2> QED
    BY <2>1, <2>2
<1> QED
  BY <1>1, <1>2, <1>3 DEF ReadinessInv, HasStatus

(* And there is nothing to be ready at first.                               *)
LEMMA InitReady == Init => ReadinessInv
  BY DEF Init, StoreInit, RequestInit, IdleRequest, UploadPC, ReadinessInv, RequestReady

(* Rows are ready once and for all, and jobs are those of ready datasets.   *)
THEOREM ReadinessInvariant == Spec => []ReadinessInv
  BY NextKeepsReadiness, InitReady, LocalTypesCorrect, TenancyInvariant, TraceInvariant, PTL
     DEF Spec

----------------------------------------------------------------------------
(***************************************************************************)
(* The datasets endpoints in the service.  What run requests, runs and arq  *)
(* do is beside them, so they keep rows, objects and requests in step here  *)
(* as they do on their own.                                                 *)
(***************************************************************************)

(* A step that is no handler's and writes no object.                        *)
LEMMA BesideFrame ==
    ASSUME TypeInv, UNCHANGED <<datasets, lastDataset, objects, req>>,
           casualties \subseteq casualties'
    PROVE  Beside
BY DEF TypeInv, RequestInv, RequestTypeOK, Beside, SameObjects, ObjectsOf

(* A step of one handler that serves a run request and writes no object.    *)
LEMMA BesideHandler ==
    ASSUME TypeInv, NEW h \in Handlers, NEW x \in Request, Serve(h, x),
           UNCHANGED <<datasets, lastDataset, objects>>, casualties \subseteq casualties',
           req'[h] = x => RunBegins(h) \/ RunGoesOn(h) \/ RunEnds(h)
    PROVE  Beside
<1>1. DatasetsTyped
      BY DEF TypeInv, StoreInv, StoreTypeOK, RequestInv, DatasetsTyped
<1>2. /\ RequestTypeOK' /\ req'[h] = x
      /\ \A g \in Handlers \ {h} : req'[g] = req[g]
      BY <1>1, ServeFacts
<1> QED BY <1>2 DEF Beside, SameObjects, ObjectsOf

(* It answers.                                                              *)
LEMMA BesideAnswer ==
    ASSUME TypeInv, NEW h \in Handlers, req[h].pc \in RunPC, Respond(h),
           UNCHANGED <<datasets, lastDataset, objects>>, casualties \subseteq casualties'
    PROVE  Beside
BY IdleRequestTyped, BesideHandler DEF Respond, RunEnds

(* An artifact is no object of a dataset.                                   *)
LEMMA BesideArtifact ==
    ASSUME TypeInv, NEW r \in Runners, WriteArtifact(r),
           UNCHANGED <<datasets, lastDataset, req>>, casualties \subseteq casualties'
    PROVE  Beside
<1> DEFINE p == ArtifactPath(runs[r].row.org_id, runs[r].row.dataset_id, runs[r].job)
<1>1. p.file = "artifact" /\ upload_bytes(p, runs[r].result)
      BY DEF ArtifactPath, WriteArtifact
<1> HIDE DEF p
<1>2. /\ DOMAIN objects' = DOMAIN objects \cup {p}
      /\ \A q \in DOMAIN objects \ {p} : objects'[q] = objects[q]
      BY <1>1, UploadFacts
<1>3. \A d : SameObjects(d)
      BY <1>1, <1>2 DEF SameObjects, ObjectsOf
<1> QED BY <1>3 DEF TypeInv, RequestInv, RequestTypeOK, Beside

(* The run requests.                                                        *)
LEMMA RunRequestsAreBeside ==
    ASSUME TypeInv, NEW h \in Handlers, RunRequest(h) \/ RunStep(h) \/ RunRequestDies(h)
    PROVE  Beside
<1>0. req[h] \in Request /\ req \in [Handlers -> Request]
      BY RequestFacts DEF TypeInv, RequestInv, RequestTypeOK
<1>1. CASE RunRequest(h)
  <2>1. PICK org \in Orgs, d \in DatasetId, m \in Modules, q \in Params, force \in BOOLEAN :
          RunModule(h, org, d, m, q, force)
        BY <1>1 DEF RunRequest
  <2> DEFINE x == [IdleRequest EXCEPT
                   !.pc = IF force THEN "create" ELSE "find",
                   !.org = org, !.ds = d, !.module = m, !.params = q, !.force = force]
  <2>2. /\ x \in Request /\ x.pc \in RunPC /\ x.ds = d /\ x.org = org /\ x.paths = {}
        BY DEF IdleRequest, Request, RunPC
  <2>3. /\ Serve(h, x) /\ Idle(h) /\ HasDataset(d, org)
        /\ UNCHANGED <<datasets, lastDataset, objects, casualties>>
        BY <2>1 DEF RunModule, storeVars, faultVars
  <2> HIDE DEF x
  <2> QED BY <2>2, <2>3, BesideHandler DEF RunBegins, HasDataset
<1>2. ASSUME NEW pc \in RunPC, req[h].pc \in RunPC, Proceed(h, pc),
             UNCHANGED <<datasets, lastDataset, objects, casualties>>
      PROVE  Beside
  <2> DEFINE x == [req[h] EXCEPT !.pc = pc]
  <2>1. /\ x \in Request /\ x.pc = pc /\ x.ds = req[h].ds /\ x.org = req[h].org
        /\ x.paths = req[h].paths
        BY <1>0 DEF Request
  <2>2. Serve(h, x)
        BY <1>2 DEF Proceed
  <2> HIDE DEF x
  <2> QED BY <1>2, <2>1, <2>2, BesideHandler DEF RunGoesOn
<1>3. CASE FindExisting(h)
  <2>1. req[h].pc \in RunPC /\ UNCHANGED <<datasets, lastDataset, objects, casualties>>
        BY <1>3 DEF FindExisting, At, RunPC, storeVars, faultVars
  <2>2. Respond(h) \/ Proceed(h, "create")
        BY <1>3 DEF FindExisting
  <2> QED BY <1>2, <2>1, <2>2, BesideAnswer DEF RunPC
<1>4. CASE CreateJob(h)
  <2> DEFINE pc == IF SyncJobs THEN "sync" ELSE "enqueue"
             j == lastJob + 1
             x == [req[h] EXCEPT !.pc = pc, !.job = j]
  <2>1. j \in JobId
        BY <1>4, StoreAssumption
           DEF CreateJob, create_job, TypeInv, StoreInv, StoreTypeOK, JobId
  <2>2. pc \in RunPC
        BY DEF RunPC
  <2>3. /\ Serve(h, x) /\ req[h].pc \in RunPC
        /\ UNCHANGED <<datasets, lastDataset, objects, casualties>>
        BY <1>4 DEF CreateJob, At, RunPC, faultVars
  <2> HIDE DEF pc, j
  <2>4. /\ x \in Request /\ x.pc \in RunPC /\ x.ds = req[h].ds /\ x.org = req[h].org
        /\ x.paths = req[h].paths
        BY <1>0, <2>1, <2>2 DEF Request
  <2> HIDE DEF x
  <2> QED BY <2>3, <2>4, BesideHandler DEF RunGoesOn
<1>5. CASE CreateRejected(h) \/ Enqueue(h) \/ SyncReturn(h) \/ SyncRaise(h)
  <2>1. /\ req[h].pc \in RunPC /\ Respond(h)
        /\ UNCHANGED <<datasets, lastDataset, objects, casualties>>
        BY <1>5 DEF CreateRejected, Enqueue, SyncReturn, SyncRaise, At, RunPC, storeVars,
           faultVars, runnerVars
  <2> QED BY <2>1, BesideAnswer
<1>6. CASE RunRequestDies(h)
  <2>1. /\ req[h].pc \in RunPC /\ Respond(h) /\ casualties \subseteq casualties'
        /\ UNCHANGED <<datasets, lastDataset, objects>>
        BY <1>6 DEF RunRequestDies, storeVars
  <2> QED BY <2>1, BesideAnswer
<1> QED BY <1>1, <1>3, <1>4, <1>5, <1>6 DEF RunStep

(* The runs, calls that raise included.                                     *)
LEMMA RunsAreBeside ==
    ASSUME TypeInv, NEW r \in Runners, ProcessJob(r) \/ CallRaises(r)
    PROVE  Beside
<1>1. /\ UNCHANGED <<datasets, lastDataset, req>> /\ casualties \subseteq casualties'
      /\ UNCHANGED objects \/ WriteArtifact(r)
  <2>1. CASE ProcessJob(r)
        BY <2>1 DEF ProcessJob, RunnerStep, Fetch, MarkRunning, Load, Compute,
           UploadArtifact, MarkSucceeded, MarkFailed, storeVars, faultVars
  <2>2. CASE CallRaises(r)
    <3>1. /\ casualties \subseteq casualties' \/ UNCHANGED casualties
          /\ UNCHANGED req
          BY <2>2 DEF CallRaises, CallFails, AnswerLost, RaiseOrCatch
    <3>2. UNCHANGED <<datasets, lastDataset>> /\ (UNCHANGED objects \/ WriteArtifact(r))
          BY <2>2 DEF CallRaises, CallFails, AnswerLost, storeVars
    <3> QED BY <3>1, <3>2
  <2> QED BY <2>1, <2>2
<1> QED BY <1>1, BesideFrame, BesideArtifact

(* The queue and its workers.                                               *)
LEMMA ArqIsBeside ==
    ASSUME TypeInv, UNCHANGED req,
           \/ \E w \in Workers : Finish(w) \/ WorkerCrash(w)
           \/ \E w \in Workers, j \in JobId : ArqStep(w, j)
           \/ \E j \in JobId : LeaseExpires(j) \/ LeaseOverrun(j)
    PROVE  Beside
<1>1. UNCHANGED <<datasets, lastDataset, objects>> /\ casualties \subseteq casualties'
      BY DEF Finish, WorkerCrash, ArqStep, Claim, Start, Discard, LeaseExpires, LeaseOverrun,
         storeVars, faultVars, runnerVars
<1> QED BY <1>1, BesideFrame

(* The service starts as the endpoints do on their own, and a step of it is *)
(* one of theirs or beside them.                                            *)
LEMMA NextKeepsDatasets == TypeInv /\ DatasetsInv /\ [Next]_vars => DatasetsInv'
<1> SUFFICES ASSUME TypeInv, DatasetsInv, [Next]_vars PROVE DatasetsInv'
    OBVIOUS
<1>1. ASSUME NEW h \in Handlers,
             DatasetRequest(h) \/ DatasetStep(h) \/ DatasetRequestDies(h)
      PROVE  DatasetsInv'
      BY <1>1, NextAgrees DEF DatasetsNext
<1>2. ASSUME NEW h \in Handlers, NewRequest(h) \/ HandlerStep(h) \/ RequestDies(h)
      PROVE  DatasetsInv'
      BY <1>1, <1>2, RunRequestsAreBeside, BesideKeeps DEF NewRequest, HandlerStep, RequestDies
<1>3. ASSUME NEW r \in Runners, ProcessJob(r) \/ CallRaises(r) PROVE DatasetsInv'
      BY <1>3, RunsAreBeside, BesideKeeps
<1>4. CASE UNCHANGED vars
  <2>1. Beside
        BY <1>4, BesideFrame DEF vars, storeVars, faultVars
  <2> QED BY <2>1, BesideKeeps
<1>5. CASE \/ \E w \in Workers : (Finish(w) \/ WorkerCrash(w)) /\ UNCHANGED req
           \/ \E w \in Workers, j \in JobId : ArqStep(w, j) /\ UNCHANGED req
           \/ \E j \in JobId : (LeaseExpires(j) \/ LeaseOverrun(j)) /\ UNCHANGED req
  <2>1. Beside
        BY <1>5, ArqIsBeside
  <2> QED BY <2>1, BesideKeeps
<1> QED BY <1>2, <1>3, <1>4, <1>5 DEF Next

(* Rows, objects and requests are in step whatever jobs do.                 *)
THEOREM ServiceKeepsDatasetsInStep == Spec => []DatasetsInv
<1>1. Init => DatasetsInv
      BY InitAgrees DEF Init, DatasetsInit
<1> QED BY <1>1, NextKeepsDatasets, LocalTypesCorrect, PTL DEF Spec

(* The service keeps the promises of its datasets endpoints while jobs read *)
(* and write the same tables and the same bucket.                           *)
THEOREM ServiceKeepsThePromises ==
    Spec => [](/\ ReadyDatasetsHaveTheirObjects
               /\ RowsAreThereUnlessDeleted
               /\ OrphansComeFromBlindDeletes
               /\ NoDatasetIsForgotten)
BY InvKeepsThePromises, ServiceKeepsDatasetsInStep, PTL
=============================================================================
