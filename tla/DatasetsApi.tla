---------------------------- MODULE DatasetsApi ----------------------------
(***************************************************************************)
(* The requests of app/routers/datasets.py that change state, and the one   *)
(* that reads twice.  A handler runs in one of several API processes and is *)
(* interleaved with everything else between any two of its calls.  What a   *)
(* request decides before its first call that changes state (the content    *)
(* checks of an upload, a 404 or 409) changes nothing and is a guard.       *)
(***************************************************************************)
EXTENDS Store, Faults

CONSTANT Handlers   \* bound: the requests in flight at one time

VARIABLE req        \* req[h]: the local variables of the request h serves

(***************************************************************************)
(* pc names the call the handler is about to make.  org is the caller's     *)
(* organization, as get_current_user resolved it.                           *)
(***************************************************************************)
UploadPC == {"put_raw", "mark_invalid", "put_parquet", "mark_ready"}
DeletePC == {"remove", "delete_row"}
RowsPC == {"read_rows"}
RunPC == {"find", "create", "enqueue", "sync"}

Request == [pc: {"idle"} \cup UploadPC \cup DeletePC \cup RowsPC \cup RunPC,
            org: Orgs \cup {None}, ds: DatasetId \cup {0}, job: JobId \cup {0},
            data: Uploads \cup {None}, paths: SUBSET Path,
            module: Modules \cup {None}, params: Params \cup {None},
            force: BOOLEAN]

IdleRequest == [pc |-> "idle", org |-> None, ds |-> 0, job |-> 0,
                data |-> None, paths |-> {}, module |-> None, params |-> None,
                force |-> FALSE]

RequestTypeOK == req \in [Handlers -> Request]

RequestInit == req = [h \in Handlers |-> IdleRequest]

Idle(h) == req[h].pc = "idle"
At(h, pc) == req[h].pc = pc

Serve(h, request) == req' = [req EXCEPT ![h] = request]
Proceed(h, pc) == Serve(h, [req[h] EXCEPT !.pc = pc])
Respond(h) == Serve(h, IdleRequest)

----------------------------------------------------------------------------
(* POST /datasets                                                           *)

(* The file has been read, checked and validated: insert the row.           *)
UploadDataset(h, org, data) ==
    /\ Idle(h)
    /\ create_dataset(org)
    /\ Serve(h, [IdleRequest EXCEPT
                 !.pc = "put_raw", !.org = org, !.ds = NewDatasetId,
                 !.data = data])
    /\ UNCHANGED <<jobs, objects, lastJob, faultVars>>

(* Mutant: the row is made ready before the parquet object is uploaded.     *)
AfterRawReady(data) ==
    IF data \in ValidUploads THEN "mark_ready" ELSE "mark_invalid"

AfterRaw(data) ==
    IF data \in ValidUploads THEN "put_parquet" ELSE "mark_invalid"

PutRaw(h) ==
    /\ At(h, "put_raw")
    /\ upload_bytes(RawPath(req[h].org, req[h].ds), req[h].data)
    /\ Proceed(h, AfterRaw(req[h].data))
    /\ UNCHANGED <<datasets, jobs, lastDataset, lastJob, faultVars>>

(* Both ends of an upload update the row: LookupError, a 500, if it is gone.*)
Settle(h, row) ==
    /\ IF HasDataset(req[h].ds, req[h].org)
       THEN update_dataset(req[h].ds, row)
       ELSE UNCHANGED datasets
    /\ Respond(h)
    /\ UNCHANGED <<jobs, objects, lastDataset, lastJob, faultVars>>

(* Mutant: the row of an invalid upload is not updated.                     *)
SameRow(h) == datasets[req[h].ds]

FailedRow(h) ==
    [datasets[req[h].ds] EXCEPT !.status = "failed",
                                !.storage_path = RawPath(req[h].org, req[h].ds),
                                !.report = req[h].data]

MarkInvalid(h) == At(h, "mark_invalid") /\ Settle(h, FailedRow(h))

PutParquet(h) ==
    /\ At(h, "put_parquet")
    /\ upload_bytes(ParquetPath(req[h].org, req[h].ds), req[h].data)
    /\ Proceed(h, "mark_ready")
    /\ UNCHANGED <<datasets, jobs, lastDataset, lastJob, faultVars>>

(* Mutant: the update does not set the status.                              *)
SilentRow(h) ==
    [datasets[req[h].ds] EXCEPT !.storage_path = RawPath(req[h].org, req[h].ds),
                                !.parquet_path = ParquetPath(req[h].org, req[h].ds),
                                !.report = req[h].data]

ReadyRow(h) ==
    [datasets[req[h].ds] EXCEPT !.status = "ready",
                                !.storage_path = RawPath(req[h].org, req[h].ds),
                                !.parquet_path = ParquetPath(req[h].org, req[h].ds),
                                !.report = req[h].data]

MarkReady(h) == At(h, "mark_ready") /\ Settle(h, ReadyRow(h))

----------------------------------------------------------------------------
(* DELETE /datasets/{id}                                                    *)

(* Mutant: the parquet object is forgotten.                                 *)
RawPathOnly(d) == {datasets[d].storage_path} \ {None}

StoredPaths(d) == {datasets[d].storage_path, datasets[d].parquet_path} \ {None}

(* The paths are read once, here.                                           *)
DeleteDataset(h, org, d) ==
    LET paths == StoredPaths(d) IN
    /\ Idle(h)
    /\ HasDataset(d, org)
    /\ Serve(h, [IdleRequest EXCEPT
                 !.pc = IF paths # {} THEN "remove" ELSE "delete_row",
                 !.org = org, !.ds = d, !.paths = paths])
    /\ UNCHANGED <<storeVars, faultVars>>

(* Mutant: everything under the dataset's prefix goes, its artifacts too.   *)
RemovePrefix(h) ==
    /\ At(h, "remove")
    /\ delete_paths({p \in DOMAIN objects : p.ds = req[h].ds})
    /\ Proceed(h, "delete_row")
    /\ UNCHANGED <<datasets, jobs, lastDataset, lastJob, faultVars>>

RemoveObjects(h) ==
    /\ At(h, "remove")
    /\ delete_paths(req[h].paths)
    /\ Proceed(h, "delete_row")
    /\ UNCHANGED <<datasets, jobs, lastDataset, lastJob, faultVars>>

DeleteRow(h) ==
    /\ At(h, "delete_row")
    /\ delete_dataset(req[h].ds, req[h].org)
    /\ casualties' = IF req[h].paths = {} THEN casualties \cup {<<"blind", req[h].ds>>}
                                          ELSE casualties
    /\ Respond(h)
    /\ UNCHANGED <<objects, lastDataset, lastJob, faults, succeededOnce>>

----------------------------------------------------------------------------
(* GET /datasets/{id}/rows: the row is read, then the object it names.      *)

(* Mutant: the readiness check is missing.                                  *)
Anything(d) == TRUE

Servable(d) == datasets[d].status = "ready" /\ datasets[d].parquet_path # None

GetRows(h, org, d) ==
    /\ Idle(h)
    /\ HasDataset(d, org)
    /\ Servable(d)
    /\ Serve(h, [IdleRequest EXCEPT
                 !.pc = "read_rows", !.org = org, !.ds = d,
                 !.paths = {datasets[d].parquet_path}])
    /\ UNCHANGED <<storeVars, faultVars>>

(* 200 if the object is there, 500 otherwise.                               *)
ReadRows(h) ==
    /\ At(h, "read_rows")
    /\ Respond(h)
    /\ UNCHANGED <<storeVars, faultVars>>

----------------------------------------------------------------------------
(* A call raises, or the process dies: the request ends, with whatever it   *)
(* had done so far.                                                         *)

DatasetRequestDies(h) ==
    /\ Spend("request")
    /\ req[h].pc \in UploadPC \cup DeletePC \cup RowsPC
    /\ casualties' = casualties \cup
         (IF req[h].pc \in UploadPC THEN {<<"upload", req[h].ds>>} ELSE {}) \cup
         (IF At(h, "delete_row") /\ req[h].paths # {}
          THEN {<<"delete", req[h].ds>>} ELSE {})
    /\ Respond(h)
    /\ UNCHANGED <<storeVars, succeededOnce>>

DatasetStep(h) ==
    \/ PutRaw(h) \/ MarkInvalid(h) \/ PutParquet(h) \/ MarkReady(h)
    \/ RemoveObjects(h) \/ DeleteRow(h)
    \/ ReadRows(h)

DatasetRequest(h) ==
    \/ \E org \in Orgs, data \in Uploads : UploadDataset(h, org, data)
    \/ \E org \in Orgs, d \in DatasetId : DeleteDataset(h, org, d) \/ GetRows(h, org, d)

----------------------------------------------------------------------------
(* The datasets endpoints on their own.                                     *)

datasetVars == <<storeVars, faultVars, req>>

DatasetsInit == StoreInit /\ FaultInit /\ RequestInit

DatasetsNext ==
    \E h \in Handlers : DatasetRequest(h) \/ DatasetStep(h) \/ DatasetRequestDies(h)

DatasetsSpec == DatasetsInit /\ [][DatasetsNext]_datasetVars

(* A ready dataset has both its objects, with the content its report        *)
(* describes; or neither, and then a delete of it is under way or died      *)
(* between the objects and the row.                                         *)
Deleting(d) == \E h \in Handlers : At(h, "delete_row") /\ req[h].ds = d

ReadyDatasetsHaveTheirObjects ==
    \A d \in DOMAIN datasets :
        datasets[d].status = "ready" =>
            LET row == datasets[d]
                raw == row.storage_path
                parquet == row.parquet_path IN
            \/ /\ {raw, parquet} \subseteq DOMAIN objects
               /\ objects[raw] = row.report
               /\ objects[parquet] = row.report
            \/ /\ {raw, parquet} \cap DOMAIN objects = {}
               /\ Deleting(d) \/ <<"delete", d>> \in casualties

(* A request for rows that passed the readiness check finds the object, or  *)
(* a delete came between its two reads.                                     *)
RowsAreThereUnlessDeleted ==
    \A h \in Handlers :
        At(h, "read_rows") =>
            LET d == req[h].ds IN
            \/ req[h].paths \subseteq DOMAIN objects
            \/ d \notin DOMAIN datasets
            \/ Deleting(d)
            \/ <<"delete", d>> \in casualties

(* An object of an upload whose row is gone is never garbage nobody knows:  *)
(* the row was removed by a delete that had read it before the upload set   *)
(* its paths.                                                               *)
OrphansComeFromBlindDeletes ==
    \A p \in DOMAIN objects :
        p.file # "artifact" /\ p.ds \notin DOMAIN datasets
            => <<"blind", p.ds>> \in casualties

(* A row in `validating` has an upload working on it, or its upload died.   *)
NoDatasetIsForgotten ==
    \A d \in DOMAIN datasets :
        datasets[d].status = "validating" =>
            \/ \E h \in Handlers : req[h].pc \in UploadPC /\ req[h].ds = d
            \/ <<"upload", d>> \in casualties

(* Every upload ends: the dataset is ready, failed, deleted, or a casualty. *)
EveryUploadEnds ==
    \A d \in DatasetId :
        (d \in DOMAIN datasets /\ datasets[d].status = "validating")
            ~> \/ d \notin DOMAIN datasets
               \/ datasets[d].status # "validating"
               \/ <<"upload", d>> \in casualties
=============================================================================
