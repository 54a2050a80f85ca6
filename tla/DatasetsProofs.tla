--------------------------- MODULE DatasetsProofs ---------------------------
(***************************************************************************)
(* Proofs about the datasets endpoints, for any uploads, handlers and       *)
(* bounds: how rows and objects stay in step, on their own (DatasetsSpec)   *)
(* and beside run requests and jobs, which leave them alone (Beside).       *)
(***************************************************************************)
EXTENDS DatasetsApi, TLAPS

(* Datasets: the inductive invariant.                                       *)

Uploading(h) == req[h].pc \in UploadPC

(* The objects of a dataset are what its upload has stored, not what jobs   *)
(* have added.                                                              *)
ObjectsOf(d) == {p \in DOMAIN objects : p.ds = d /\ p.file # "artifact"}

DatasetsTyped ==
    /\ lastDataset \in 0..MaxDatasets
    /\ DOMAIN datasets \subseteq 1..lastDataset
    /\ datasets \in [DOMAIN datasets -> DatasetRow]
    /\ RequestTypeOK

(* A row says at what stage its upload is.                                  *)
RowAgrees(d) ==
    LET row == datasets[d] IN
    \/ row.status = "validating" /\ row.storage_path = None /\ row.parquet_path = None
    \/ /\ row.status = "failed" /\ row.storage_path = RawPath(row.org_id, d)
       /\ row.parquet_path = None
    \/ /\ row.status = "ready" /\ row.storage_path = RawPath(row.org_id, d)
       /\ row.parquet_path = ParquetPath(row.org_id, d)

(* What an upload has stored so far, and who else may be at its dataset:    *)
(* only deletes that found no paths, and they are what the row can be gone  *)
(* by.                                                                      *)
UploadAgrees(h) ==
    LET d == req[h].ds
        raw == RawPath(req[h].org, d)
        parquet == ParquetPath(req[h].org, d) IN
    Uploading(h) =>
        /\ d \in DOMAIN datasets => /\ datasets[d].status = "validating"
                                    /\ datasets[d].org_id = req[h].org
        /\ d \notin DOMAIN datasets => <<"blind", d>> \in casualties
        /\ \A g \in Handlers \ {h} : req[g].ds = d => ~Uploading(g) /\ req[g].paths = {}
        /\ req[h].pc = "put_raw" => ObjectsOf(d) = {}
        /\ req[h].pc \in {"mark_invalid", "put_parquet"} => ObjectsOf(d) = {raw}
        /\ req[h].pc = "mark_ready" => ObjectsOf(d) = {raw, parquet}
        /\ \A p \in ObjectsOf(d) : objects[p] = req[h].data

(* A delete knows of all objects there are, unless it knows of none.        *)
DeleteAgrees(h) ==
    LET d == req[h].ds IN
    /\ req[h].pc = "remove" => /\ req[h].paths # {}
                               /\ ObjectsOf(d) \subseteq req[h].paths
                               /\ \A p \in req[h].paths : p.ds = d
    /\ req[h].pc = "delete_row" /\ req[h].paths # {} => ObjectsOf(d) = {}
    /\ req[h].pc \in DeletePC /\ d \in DOMAIN datasets => datasets[d].org_id = req[h].org

ReadAgrees(h) ==
    LET d == req[h].ds IN
    req[h].pc = "read_rows" =>
        /\ req[h].paths # {}
        /\ d \in DOMAIN datasets => /\ datasets[d].status = "ready"
                                    /\ req[h].paths = {datasets[d].parquet_path}

HandlerAgrees(h) ==
    /\ Idle(h) => req[h].ds = 0
    /\ ~Idle(h) => req[h].ds \in 1..lastDataset /\ req[h].org \in Orgs
    /\ UploadAgrees(h) /\ DeleteAgrees(h) /\ ReadAgrees(h)

(* The objects of a settled row are those it names: all of them, or none,   *)
(* and then a delete that removed them has yet to delete the row.           *)
Removed(d) ==
    /\ ObjectsOf(d) = {}
    /\ \/ \E h \in Handlers : At(h, "delete_row") /\ req[h].ds = d /\ req[h].paths # {}
       \/ <<"delete", d>> \in casualties

ObjectsAgree(d) ==
    /\ datasets[d].status # "validating" => ObjectsOf(d) \subseteq StoredPaths(d)
    /\ datasets[d].status = "ready" =>
         \/ Removed(d)
         \/ /\ StoredPaths(d) \subseteq ObjectsOf(d)
            /\ \A p \in ObjectsOf(d) : objects[p] = datasets[d].report

(* Every object has an id that was handed out, and its row, if it is gone,  *)
(* went by a delete that did not know of it.                                *)
OrphansAgree ==
    \A p \in DOMAIN objects :
        p.file # "artifact" =>
            /\ p.ds \in 1..lastDataset
            /\ p.ds \notin DOMAIN datasets => <<"blind", p.ds>> \in casualties

RowsAgree == \A d \in DOMAIN datasets : RowAgrees(d) /\ ObjectsAgree(d)
HandlersAgree == \A h \in Handlers : HandlerAgrees(h)

DatasetsInv ==
    /\ DatasetsTyped
    /\ RowsAgree
    /\ HandlersAgree
    /\ OrphansAgree
    /\ NoDatasetIsForgotten

----------------------------------------------------------------------------
(* What the helpers of Store do to one row, object or request.              *)

(* The handler goes on with x, the others stay where they are.              *)
LEMMA ServeFacts ==
    ASSUME DatasetsTyped, NEW h \in Handlers, NEW x \in Request, Serve(h, x)
    PROVE  /\ RequestTypeOK'
           /\ req'[h] = x
           /\ \A g \in Handlers \ {h} : req'[g] = req[g]
BY DEF DatasetsTyped, RequestTypeOK, Serve

(* An upload adds one object.                                               *)
LEMMA UploadFacts ==
    ASSUME NEW p, NEW c, upload_bytes(p, c)
    PROVE  /\ DOMAIN objects' = DOMAIN objects \cup {p}
           /\ objects'[p] = c
           /\ \A q \in DOMAIN objects \ {p} : objects'[q] = objects[q]
BY DEF upload_bytes, Put

(* A removal takes objects away and leaves the others as they are.          *)
LEMMA RemovalFacts ==
    ASSUME NEW T, delete_paths(T)
    PROVE  /\ DOMAIN objects' = DOMAIN objects \ T
           /\ \A q \in DOMAIN objects' : objects'[q] = objects[q]
BY DEF delete_paths, Without

(* An update changes one row.                                               *)
LEMMA UpdateFacts ==
    ASSUME DatasetsTyped, NEW d \in DOMAIN datasets, NEW row \in DatasetRow,
           update_dataset(d, row)
    PROVE  /\ DOMAIN datasets' = DOMAIN datasets
           /\ datasets' \in [DOMAIN datasets' -> DatasetRow]
           /\ datasets'[d] = row
           /\ \A e \in DOMAIN datasets \ {d} : datasets'[e] = datasets[e]
BY DEF DatasetsTyped, update_dataset

(* A new row has an id above all there are.                                 *)
LEMMA CreateFacts ==
    ASSUME DatasetsTyped, NEW org \in Orgs, create_dataset(org)
    PROVE  /\ NewDatasetId = lastDataset + 1 /\ lastDataset' = lastDataset + 1
           /\ lastDataset' \in 1..MaxDatasets
           /\ NewDatasetId \notin DOMAIN datasets
           /\ DOMAIN datasets' = DOMAIN datasets \cup {NewDatasetId}
           /\ DOMAIN datasets' \subseteq 1..lastDataset'
           /\ datasets' \in [DOMAIN datasets' -> DatasetRow]
           /\ datasets'[NewDatasetId] =
                 [org_id |-> org, status |-> "validating", storage_path |-> None,
                  parquet_path |-> None, report |-> None]
           /\ \A e \in DOMAIN datasets : datasets'[e] = datasets[e]
BY StoreAssumption DEF DatasetsTyped, create_dataset, NewDatasetId, Put, DatasetRow

(* The constructors of storage.py give paths, and null is none.             *)
LEMMA ConstructorFacts ==
    ASSUME NEW org \in Orgs, NEW d \in DatasetId
    PROVE  /\ RawPath(org, d) \in Path \ {None} /\ RawPath(org, d).ds = d
           /\ RawPath(org, d).file = "raw"
           /\ ParquetPath(org, d) \in Path \ {None} /\ ParquetPath(org, d).ds = d
           /\ ParquetPath(org, d).file = "parquet"
<1>1. RawPath(org, d) \in Path /\ ParquetPath(org, d) \in Path
      BY DEF RawPath, ParquetPath, Path
<1> QED BY <1>1, StoreAssumption DEF RawPath, ParquetPath

(* What the invariant says of one handler.                                  *)
LEMMA HandlerFacts ==
    ASSUME DatasetsInv, NEW h \in Handlers
    PROVE  HandlerAgrees(h) /\ UploadAgrees(h) /\ DeleteAgrees(h) /\ ReadAgrees(h)
BY DEF DatasetsInv, HandlersAgree, HandlerAgrees

(* And of its local variables.                                              *)
LEMMA UnderWayFacts ==
    ASSUME DatasetsInv, NEW h \in Handlers, ~Idle(h)
    PROVE  /\ req[h] \in Request /\ req[h].org \in Orgs
           /\ req[h].ds \in 1..lastDataset /\ req[h].ds \in DatasetId
<1>1. req[h].org \in Orgs /\ req[h].ds \in 1..lastDataset
      BY HandlerFacts DEF HandlerAgrees
<1>2. lastDataset \in 0..MaxDatasets /\ req[h] \in Request
      BY DEF DatasetsInv, DatasetsTyped, RequestTypeOK
<1> QED BY <1>1, <1>2, StoreAssumption DEF DatasetId

----------------------------------------------------------------------------
(* What is not touched stays in step.                                       *)

(* The objects of d are what they were.                                     *)
SameObjects(d) ==
    /\ ObjectsOf(d)' = ObjectsOf(d)
    /\ \A p \in ObjectsOf(d) : objects'[p] = objects[p]

(* The handlers h leaves where they are, if it leaves their row and their   *)
(* objects alone or may take them away.                                     *)
LEMMA HandlerKept ==
    ASSUME DatasetsInv, NEW h \in Handlers, NEW g \in Handlers \ {h},
           \A k \in Handlers \ {h} : req'[k] = req[k],
           lastDataset' \in Nat, lastDataset' >= lastDataset,
           casualties \subseteq casualties',
           Uploading(g) => /\ SameObjects(req[g].ds)
                           /\ req'[h].ds = req[g].ds => ~Uploading(h)' /\ req'[h].paths = {}
                           /\ req[g].ds \in DOMAIN datasets \ DOMAIN datasets' =>
                                 <<"blind", req[g].ds>> \in casualties',
           req[g].pc \in DeletePC /\ req[g].paths # {} =>
               ObjectsOf(req[g].ds)' \subseteq ObjectsOf(req[g].ds),
           ~Idle(g) /\ req[g].ds \in DOMAIN datasets' =>
               /\ req[g].ds \in DOMAIN datasets
               /\ datasets'[req[g].ds].org_id = datasets[req[g].ds].org_id
               /\ Uploading(g) \/ At(g, "read_rows") =>
                     datasets'[req[g].ds] = datasets[req[g].ds]
    PROVE  HandlerAgrees(g)'
<1>1. HandlerAgrees(g) /\ lastDataset \in Nat /\ req'[g] = req[g]
      BY HandlerFacts DEF DatasetsInv, DatasetsTyped
<1>2. UploadAgrees(g)'
  <2> SUFFICES ASSUME Uploading(g) PROVE UploadAgrees(g)'
      BY <1>1 DEF Uploading, UploadAgrees
  <2>1. ~Idle(g)
        BY DEF Uploading, UploadPC, Idle
  <2>2. \A k \in Handlers \ {g} :
           req'[k].ds = req[g].ds => ~Uploading(k)' /\ req'[k].paths = {}
        BY <1>1 DEF HandlerAgrees, UploadAgrees, Uploading
  <2> QED BY <1>1, <2>1, <2>2 DEF HandlerAgrees, UploadAgrees, Uploading, SameObjects
<1>3. DeleteAgrees(g)'
      BY <1>1 DEF HandlerAgrees, DeleteAgrees, Idle, DeletePC
<1>4. ReadAgrees(g)'
      BY <1>1 DEF HandlerAgrees, ReadAgrees, Idle, At
<1> QED BY <1>1, <1>2, <1>3, <1>4 DEF HandlerAgrees, Idle

(* A handler that has answered.                                             *)
LEMMA IdleAgrees ==
    ASSUME NEW h \in Handlers, req'[h] = IdleRequest
    PROVE  HandlerAgrees(h)'
BY DEF IdleRequest, HandlerAgrees, UploadAgrees, DeleteAgrees, ReadAgrees, Uploading,
       UploadPC, DeletePC, Idle

(* A row that does not change, if its objects do not, unless the delete     *)
(* that removed them leaves without a trace.                                *)
LEMMA RowKept ==
    ASSUME DatasetsInv, NEW d \in DOMAIN datasets, datasets'[d] = datasets[d],
           SameObjects(d), casualties \subseteq casualties',
           \A h \in Handlers :
               At(h, "delete_row") /\ req[h].ds = d /\ req[h].paths # {} =>
                   req'[h] = req[h] \/ <<"delete", d>> \in casualties'
    PROVE  RowAgrees(d)' /\ ObjectsAgree(d)'
<1>1. RowAgrees(d) /\ ObjectsAgree(d)
      BY DEF DatasetsInv, RowsAgree
<1>2. Removed(d) => Removed(d)'
      BY DEF Removed, SameObjects, At
<1>3. StoredPaths(d)' = StoredPaths(d)
      BY DEF StoredPaths
<1> QED BY <1>1, <1>2, <1>3 DEF RowAgrees, ObjectsAgree, SameObjects

(* The objects stay, and so does what is known of those without a row.      *)
LEMMA OrphansKept ==
    ASSUME DatasetsInv, UNCHANGED objects, lastDataset' \in Nat,
           lastDataset' >= lastDataset, casualties \subseteq casualties',
           \A d \in DOMAIN datasets \ DOMAIN datasets' :
               ObjectsOf(d) = {} \/ <<"blind", d>> \in casualties'
    PROVE  OrphansAgree'
<1> SUFFICES ASSUME NEW p \in DOMAIN objects, p.file # "artifact"
             PROVE  /\ p.ds \in 1..lastDataset'
                    /\ p.ds \notin DOMAIN datasets' => <<"blind", p.ds>> \in casualties'
    BY DEF OrphansAgree
<1>1. /\ lastDataset \in Nat /\ p.ds \in 1..lastDataset
      /\ p.ds \notin DOMAIN datasets => <<"blind", p.ds>> \in casualties
      BY DEF DatasetsInv, DatasetsTyped, OrphansAgree
<1>2. p \in ObjectsOf(p.ds)
      BY DEF ObjectsOf
<1> QED BY <1>1, <1>2

(* An upload goes on, or its end is known, or the row is not validating.    *)
LEMMA UploadsKept ==
    ASSUME DatasetsInv, casualties \subseteq casualties',
           \A d \in DOMAIN datasets' : datasets'[d].status = "validating" =>
               /\ d \in DOMAIN datasets /\ datasets[d].status = "validating"
               /\ \A h \in Handlers :
                     Uploading(h) /\ req[h].ds = d =>
                         \/ Uploading(h)' /\ req'[h].ds = d
                         \/ <<"upload", d>> \in casualties'
    PROVE  NoDatasetIsForgotten'
BY DEF DatasetsInv, NoDatasetIsForgotten, Uploading

----------------------------------------------------------------------------
(* Every action keeps DatasetsInv.                                          *)

(* upload_dataset inserts a row nobody knows of yet.                        *)
LEMMA UploadDatasetKeeps ==
    ASSUME DatasetsInv, NEW h \in Handlers, NEW org \in Orgs, NEW data \in Uploads,
           UploadDataset(h, org, data)
    PROVE  DatasetsInv'
<1>d. PICK d : d = NewDatasetId
      OBVIOUS
<1> DEFINE x == [IdleRequest EXCEPT !.pc = "put_raw", !.org = org, !.ds = d, !.data = data]
<1>0. /\ DatasetsTyped /\ create_dataset(org) /\ Serve(h, x) /\ Idle(h)
      /\ objects' = objects /\ casualties' = casualties
      BY <1>d DEF DatasetsInv, UploadDataset, faultVars
<1>x. d \in DatasetId
      BY <1>d, <1>0, CreateFacts DEF DatasetId
<1>3. x \in Request /\ x.pc = "put_raw" /\ x.ds = d /\ x.org = org /\ x.data = data
      BY <1>x DEF IdleRequest, Request, UploadPC
<1> HIDE DEF x
<1>1. /\ RequestTypeOK' /\ req'[h] = x
      /\ \A g \in Handlers \ {h} : req'[g] = req[g]
      BY <1>0, <1>3, ServeFacts
<1>2. /\ d = lastDataset + 1 /\ lastDataset' = lastDataset + 1
      /\ lastDataset' \in 1..MaxDatasets /\ d \notin DOMAIN datasets
      /\ DOMAIN datasets' = DOMAIN datasets \cup {d}
      /\ DOMAIN datasets' \subseteq 1..lastDataset'
      /\ datasets' \in [DOMAIN datasets' -> DatasetRow]
      /\ datasets'[d] = [org_id |-> org, status |-> "validating", storage_path |-> None,
                         parquet_path |-> None, report |-> None]
      /\ \A e \in DOMAIN datasets : datasets'[e] = datasets[e]
      BY <1>d, <1>0, CreateFacts
<1>4. lastDataset \in Nat /\ DOMAIN datasets \subseteq 1..lastDataset
      BY <1>0, StoreAssumption DEF DatasetsTyped
<1>5. ObjectsOf(d) = {} /\ ObjectsOf(d)' = {}
  <2>0. \A p \in DOMAIN objects : p.file # "artifact" => p.ds \in 1..lastDataset
        BY DEF DatasetsInv, OrphansAgree
  <2>1. \A p \in DOMAIN objects : p.file # "artifact" => p.ds # d
        BY <1>2, <1>4, <2>0
  <2> QED BY <1>0, <2>1 DEF ObjectsOf
<1>6. DatasetsTyped'
      BY <1>1, <1>2, <1>4, StoreAssumption DEF DatasetsTyped
<1>7. RowsAgree'
  <2>1. RowAgrees(d)' /\ ObjectsAgree(d)'
        BY <1>2 DEF RowAgrees, ObjectsAgree
  <2>2. ASSUME NEW e \in DOMAIN datasets PROVE RowAgrees(e)' /\ ObjectsAgree(e)'
    <3>1. SameObjects(e)
          BY <1>0 DEF SameObjects, ObjectsOf
    <3> QED BY <1>0, <1>1, <1>2, <3>1, RowKept DEF At, Idle
  <2>3. \A e \in DOMAIN datasets' : RowAgrees(e)' /\ ObjectsAgree(e)'
        BY <1>2, <2>1, <2>2
  <2> QED BY <2>3 DEF RowsAgree
<1>8. HandlersAgree'
  <2>0. \A g \in Handlers : req[g].ds # d
    <3>1. \A g \in Handlers : ~Idle(g) => req[g].ds \in 1..lastDataset
          BY DEF DatasetsInv, HandlersAgree, HandlerAgrees
    <3>2. \A g \in Handlers : Idle(g) => req[g].ds = 0
          BY DEF DatasetsInv, HandlersAgree, HandlerAgrees
    <3> QED BY <1>2, <1>4, <3>1, <3>2
  <2>1. HandlerAgrees(h)'
    <3>1. \A g \in Handlers \ {h} : req'[g].ds # d
          BY <1>1, <2>0
    <3>3. UploadAgrees(h)'
          BY <1>1, <1>2, <1>3, <1>5, <3>1 DEF UploadAgrees
    <3>4. DeleteAgrees(h)' /\ ReadAgrees(h)'
          BY <1>1, <1>3 DEF DeleteAgrees, ReadAgrees, DeletePC
    <3> QED BY <1>1, <1>2, <1>3, <1>4, <3>3, <3>4 DEF HandlerAgrees, Idle
  <2>2. ASSUME NEW g \in Handlers \ {h} PROVE HandlerAgrees(g)'
    <3>1. req'[g] = req[g] /\ req[g].ds # d
          BY <1>1, <2>0
    <3>2. SameObjects(req[g].ds) /\ ObjectsOf(req[g].ds)' = ObjectsOf(req[g].ds)
          BY <1>0, <3>1 DEF SameObjects, ObjectsOf
    <3>3. req'[h].ds # req[g].ds
          BY <1>1, <1>3, <3>1
    <3>5. req[g].ds \notin DOMAIN datasets \ DOMAIN datasets'
          BY <1>2
    <3>6. req[g].ds \in DOMAIN datasets' =>
             req[g].ds \in DOMAIN datasets /\ datasets'[req[g].ds] = datasets[req[g].ds]
          BY <1>2, <3>1
    <3>7. lastDataset' \in Nat /\ lastDataset' >= lastDataset
          BY <1>2, <1>4
    <3> QED BY <1>0, <1>1, <3>2, <3>3, <3>5, <3>6, <3>7, HandlerKept
  <2> QED BY <2>1, <2>2 DEF HandlersAgree
<1>9. OrphansAgree'
      BY <1>0, <1>2, <1>4, OrphansKept
<1>10. NoDatasetIsForgotten'
  <2>1. Uploading(h)' /\ req'[h].ds = d
        BY <1>1, <1>3 DEF Uploading, UploadPC
  <2>2. ASSUME NEW e \in DOMAIN datasets, datasets[e].status = "validating"
        PROVE  \/ \E g \in Handlers : Uploading(g)' /\ req'[g].ds = e
               \/ <<"upload", e>> \in casualties'
        BY <1>0, <1>1, <2>2 DEF DatasetsInv, NoDatasetIsForgotten, Uploading, Idle, UploadPC
  <2> QED BY <1>2, <2>1, <2>2 DEF NoDatasetIsForgotten, Uploading
<1> QED BY <1>6, <1>7, <1>8, <1>9, <1>10 DEF DatasetsInv

(* An upload stores the next object of its dataset.                         *)
LEMMA PutObjectKeeps ==
    ASSUME DatasetsInv, NEW h \in Handlers, NEW d, NEW org, NEW data, NEW p, NEW pc,
           req[h].ds = d, req[h].org = org, req[h].data = data, Uploading(h),
           upload_bytes(p, data), p.ds = d, p.file # "artifact",
           pc \in {"mark_invalid", "put_parquet"} =>
               ObjectsOf(d) \cup {p} = {RawPath(org, d)},
           pc = "mark_ready" =>
               ObjectsOf(d) \cup {p} = {RawPath(org, d), ParquetPath(org, d)},
           pc \in {"mark_invalid", "put_parquet", "mark_ready"}, Proceed(h, pc),
           UNCHANGED <<datasets, lastDataset, faultVars>>
    PROVE  DatasetsInv'
<1> DEFINE x == [req[h] EXCEPT !.pc = pc]
<1>0. /\ DatasetsTyped /\ req[h] \in Request /\ Serve(h, x)
      /\ UNCHANGED <<datasets, lastDataset, casualties>>
      BY DEF DatasetsInv, DatasetsTyped, RequestTypeOK, Proceed, faultVars
<1>1. /\ x \in Request /\ x.pc = pc /\ x.ds = d /\ x.org = org /\ x.data = data
      /\ x.paths = req[h].paths
      BY <1>0 DEF Request, UploadPC
<1> HIDE DEF x
<1>2. /\ RequestTypeOK' /\ req'[h] = x
      /\ \A g \in Handlers \ {h} : req'[g] = req[g]
      BY <1>0, <1>1, ServeFacts
<1>3. /\ DOMAIN objects' = DOMAIN objects \cup {p} /\ objects'[p] = data
      /\ \A q \in DOMAIN objects \ {p} : objects'[q] = objects[q]
      BY UploadFacts
<1>4. ObjectsOf(d)' = ObjectsOf(d) \cup {p}
      BY <1>3 DEF ObjectsOf
<1>5. ASSUME NEW e, e # d PROVE SameObjects(e)
      BY <1>3, <1>5 DEF SameObjects, ObjectsOf
<1>6. HandlerAgrees(h) /\ UploadAgrees(h)
      BY HandlerFacts
<1>7. DatasetsTyped'
      BY <1>0, <1>2 DEF DatasetsTyped
<1>8. RowsAgree'
  <2> SUFFICES ASSUME NEW e \in DOMAIN datasets PROVE RowAgrees(e)' /\ ObjectsAgree(e)'
      BY <1>0 DEF RowsAgree
  <2>1. CASE e = d
        BY <1>0, <1>6, <2>1 DEF UploadAgrees, DatasetsInv, RowsAgree, RowAgrees, ObjectsAgree
  <2>2. CASE e # d
        BY <1>0, <1>2, <1>5, <2>2, RowKept DEF At, Uploading, UploadPC
  <2> QED BY <2>1, <2>2
<1>9. HandlersAgree'
  <2>1. HandlerAgrees(h)'
    <3>1. \A g \in Handlers \ {h} : req'[g].ds = d => ~Uploading(g)' /\ req'[g].paths = {}
          BY <1>2, <1>6 DEF UploadAgrees, Uploading
    <3>2. \A q \in ObjectsOf(d)' : objects'[q] = data
          BY <1>3, <1>4, <1>6 DEF UploadAgrees, ObjectsOf
    <3>3. UploadAgrees(h)'
          BY <1>0, <1>1, <1>2, <1>4, <1>6, <3>1, <3>2 DEF UploadAgrees
    <3>4. DeleteAgrees(h)' /\ ReadAgrees(h)'
          BY <1>1, <1>2 DEF DeleteAgrees, ReadAgrees, DeletePC
    <3> QED BY <1>0, <1>1, <1>2, <1>6, <3>3, <3>4
            DEF HandlerAgrees, Idle, Uploading, UploadPC
  <2>2. ASSUME NEW g \in Handlers \ {h} PROVE HandlerAgrees(g)'
    <3>1. lastDataset' \in Nat /\ lastDataset' >= lastDataset
          BY <1>0, StoreAssumption DEF DatasetsTyped
    <3>2. CASE req[g].ds = d
          BY <1>0, <1>2, <1>6, <3>1, <3>2, HandlerKept DEF UploadAgrees
    <3>3. CASE req[g].ds # d
      <4>1. SameObjects(req[g].ds) /\ ObjectsOf(req[g].ds)' = ObjectsOf(req[g].ds)
            BY <1>2, <1>5, <3>3 DEF SameObjects
      <4> QED BY <1>0, <1>1, <1>2, <3>1, <3>3, <4>1, HandlerKept
    <3> QED BY <3>2, <3>3
  <2> QED BY <2>1, <2>2 DEF HandlersAgree
<1>10. OrphansAgree'
  <2>1. d \in 1..lastDataset /\ (d \notin DOMAIN datasets => <<"blind", d>> \in casualties)
        BY <1>6 DEF HandlerAgrees, UploadAgrees, Uploading, UploadPC, Idle
  <2> QED BY <1>0, <1>3, <2>1 DEF DatasetsInv, OrphansAgree
<1>11. NoDatasetIsForgotten'
  <2>1. Uploading(h)' /\ req'[h].ds = d
        BY <1>1, <1>2 DEF Uploading, UploadPC
  <2> QED BY <1>0, <1>2, <2>1, UploadsKept DEF Uploading
<1> QED BY <1>7, <1>8, <1>9, <1>10, <1>11 DEF DatasetsInv

(* The raw file is the first object.                                        *)
LEMMA PutRawKeeps ==
    ASSUME DatasetsInv, NEW h \in Handlers, PutRaw(h)
    PROVE  DatasetsInv'
<1>1. PICK d, org, data, pc : /\ d = req[h].ds /\ org = req[h].org /\ data = req[h].data
                              /\ pc = AfterRaw(data)
      OBVIOUS
<1>2. /\ Uploading(h) /\ org \in Orgs /\ d \in DatasetId /\ ObjectsOf(d) = {}
      BY <1>1, UnderWayFacts, HandlerFacts
      DEF PutRaw, At, Uploading, UploadPC, UploadAgrees, Idle
<1>3. pc \in {"mark_invalid", "put_parquet"}
      BY <1>1 DEF AfterRaw
<1> QED BY <1>1, <1>2, <1>3, ConstructorFacts, PutObjectKeeps DEF PutRaw

(* The parquet file is the second.                                          *)
LEMMA PutParquetKeeps ==
    ASSUME DatasetsInv, NEW h \in Handlers, PutParquet(h)
    PROVE  DatasetsInv'
<1>1. PICK d, org, data : d = req[h].ds /\ org = req[h].org /\ data = req[h].data
      OBVIOUS
<1>2. /\ Uploading(h) /\ org \in Orgs /\ d \in DatasetId
      /\ ObjectsOf(d) = {RawPath(org, d)}
      BY <1>1, UnderWayFacts, HandlerFacts
      DEF PutParquet, At, Uploading, UploadPC, UploadAgrees, Idle
<1>3. ObjectsOf(d) \cup {ParquetPath(org, d)} = {RawPath(org, d), ParquetPath(org, d)}
      BY <1>2
<1> QED BY <1>1, <1>2, <1>3, ConstructorFacts, PutObjectKeeps DEF PutParquet

(* An upload ends: its row, if it is still there, names what there is.      *)
LEMMA SettleKeeps ==
    ASSUME DatasetsInv, NEW h \in Handlers, NEW d, NEW org, NEW row, Uploading(h),
           req[h].ds = d, req[h].org = org, Respond(h),
           IF HasDataset(d, org) THEN update_dataset(d, row) ELSE UNCHANGED datasets,
           d \in DOMAIN datasets =>
               /\ row \in DatasetRow /\ row.org_id = org /\ row.report = req[h].data
               /\ row.status = "failed" \/ row.status = "ready"
               /\ row.storage_path = RawPath(org, d)
               /\ row.parquet_path =
                     IF row.status = "ready" THEN ParquetPath(org, d) ELSE None
               /\ ObjectsOf(d) = {row.storage_path, row.parquet_path} \ {None},
           UNCHANGED <<objects, lastDataset, faultVars>>
    PROVE  DatasetsInv'
<1>0. /\ DatasetsTyped /\ Serve(h, IdleRequest) /\ casualties' = casualties
      /\ HandlerAgrees(h) /\ UploadAgrees(h)
      BY HandlerFacts DEF DatasetsInv, Respond, faultVars
<1>1. /\ RequestTypeOK' /\ req'[h] = IdleRequest
      /\ \A g \in Handlers \ {h} : req'[g] = req[g]
  <2>1. IdleRequest \in Request
        BY DEF IdleRequest, Request
  <2> QED BY <1>0, <2>1, ServeFacts
<1>2. d \in DOMAIN datasets => HasDataset(d, org)
      BY <1>0 DEF UploadAgrees, HasDataset
<1>3. /\ DOMAIN datasets' = DOMAIN datasets
      /\ datasets' \in [DOMAIN datasets' -> DatasetRow]
      /\ d \in DOMAIN datasets => datasets'[d] = row
      /\ \A e \in DOMAIN datasets \ {d} : datasets'[e] = datasets[e]
  <2>1. CASE d \in DOMAIN datasets
        BY <1>0, <1>2, <2>1, UpdateFacts
  <2>2. CASE d \notin DOMAIN datasets
        BY <1>0, <2>2 DEF HasDataset, DatasetsTyped
  <2> QED BY <2>1, <2>2
<1>4. ASSUME NEW e PROVE SameObjects(e)
      BY DEF SameObjects, ObjectsOf
<1>5. DatasetsTyped'
      BY <1>0, <1>1, <1>3 DEF DatasetsTyped
<1>6. RowsAgree'
  <2> SUFFICES ASSUME NEW e \in DOMAIN datasets PROVE RowAgrees(e)' /\ ObjectsAgree(e)'
      BY <1>3 DEF RowsAgree
  <2>1. CASE e = d
    <3>1. RowAgrees(d)'
          BY <1>3, <2>1 DEF RowAgrees
    <3>2. StoredPaths(d)' = ObjectsOf(d)'
          BY <1>3, <1>4, <2>1 DEF StoredPaths, SameObjects
    <3>3. \A p \in ObjectsOf(d)' : objects'[p] = datasets'[d].report
          BY <1>0, <1>3, <1>4, <2>1 DEF UploadAgrees, SameObjects
    <3> QED BY <2>1, <3>1, <3>2, <3>3 DEF ObjectsAgree
  <2>2. CASE e # d
        BY <1>0, <1>1, <1>3, <1>4, <2>2, RowKept DEF At, Uploading, UploadPC
  <2> QED BY <2>1, <2>2
<1>7. HandlersAgree'
  <2>1. HandlerAgrees(h)'
        BY <1>1, IdleAgrees
  <2>2. ASSUME NEW g \in Handlers \ {h} PROVE HandlerAgrees(g)'
    <3>1. lastDataset' \in Nat /\ lastDataset' >= lastDataset
          BY <1>0, StoreAssumption DEF DatasetsTyped
    <3>2. SameObjects(req[g].ds) /\ ObjectsOf(req[g].ds)' = ObjectsOf(req[g].ds)
          BY <1>1, <1>4 DEF SameObjects
    <3>3. req'[h].ds = 0 /\ (~Idle(g) => req[g].ds # 0)
          BY <1>1, HandlerFacts DEF HandlerAgrees, IdleRequest
    <3>4. CASE req[g].ds = d
      <4>1. ~Uploading(g) /\ req[g].paths = {}
            BY <1>0, <3>4 DEF UploadAgrees
      <4>2. ~At(g, "read_rows")
            BY <4>1, HandlerFacts DEF ReadAgrees, At
      <4> QED BY <1>0, <1>1, <1>3, <3>1, <3>4, <4>1, <4>2, HandlerKept DEF UploadAgrees
    <3>5. CASE req[g].ds # d
          BY <1>0, <1>1, <1>3, <3>1, <3>2, <3>3, <3>5, HandlerKept
             DEF Uploading, UploadPC, Idle
    <3> QED BY <3>4, <3>5
  <2> QED BY <2>1, <2>2 DEF HandlersAgree
<1>8. OrphansAgree'
      BY <1>0, <1>3, StoreAssumption, OrphansKept DEF DatasetsTyped
<1>9. NoDatasetIsForgotten'
      BY <1>0, <1>1, <1>3, UploadsKept DEF Uploading
<1> QED BY <1>5, <1>6, <1>7, <1>8, <1>9 DEF DatasetsInv

(* The row of a rejected upload names the raw file.                         *)
LEMMA MarkInvalidKeeps ==
    ASSUME DatasetsInv, NEW h \in Handlers, MarkInvalid(h)
    PROVE  DatasetsInv'
<1>1. PICK d, org, row : d = req[h].ds /\ org = req[h].org /\ row = FailedRow(h)
      OBVIOUS
<1>2. /\ Uploading(h) /\ org \in Orgs /\ d \in DatasetId
      /\ ObjectsOf(d) = {RawPath(org, d)} /\ UploadAgrees(h) /\ req[h] \in Request
      BY <1>1, UnderWayFacts, HandlerFacts
      DEF MarkInvalid, At, Uploading, UploadPC, UploadAgrees, Idle
<1>3. HasDataset(d, org) \/ d \notin DOMAIN datasets
      BY <1>1, <1>2 DEF UploadAgrees, HasDataset
<1>4. d \in DOMAIN datasets =>
         /\ row \in DatasetRow /\ row.org_id = org /\ row.report = req[h].data
         /\ row.status = "failed" /\ row.storage_path = RawPath(org, d)
         /\ row.parquet_path = None
  <2> SUFFICES ASSUME d \in DOMAIN datasets
               PROVE  /\ row \in DatasetRow /\ row.org_id = org
                      /\ row.report = req[h].data /\ row.status = "failed"
                      /\ row.storage_path = RawPath(org, d) /\ row.parquet_path = None
      OBVIOUS
  <2>1. /\ datasets[d] \in DatasetRow /\ datasets[d].parquet_path = None
        /\ datasets[d].org_id = org /\ req[h].data \in Uploads \cup {None}
        BY <1>1, <1>2 DEF DatasetsInv, DatasetsTyped, RowsAgree, RowAgrees, UploadAgrees, Request
  <2>2. RawPath(org, d) \in Path
        BY <1>2, ConstructorFacts
  <2>3. row = [datasets[d] EXCEPT !.status = "failed", !.storage_path = RawPath(org, d),
                                  !.report = req[h].data]
        BY <1>1 DEF FailedRow
  <2> QED BY <2>1, <2>2, <2>3 DEF DatasetRow
<1>5. d \in DOMAIN datasets => ObjectsOf(d) = {row.storage_path, row.parquet_path} \ {None}
      BY <1>2, <1>4, ConstructorFacts
<1>6. /\ Respond(h) /\ UNCHANGED <<objects, lastDataset, faultVars>>
      /\ IF HasDataset(d, org) THEN update_dataset(d, row) ELSE UNCHANGED datasets
      BY <1>1 DEF MarkInvalid, Settle
<1> QED BY <1>1, <1>2, <1>4, <1>5, <1>6, SettleKeeps

(* That of an accepted one both files.                                      *)
LEMMA MarkReadyKeeps ==
    ASSUME DatasetsInv, NEW h \in Handlers, MarkReady(h)
    PROVE  DatasetsInv'
<1>1. PICK d, org, row : d = req[h].ds /\ org = req[h].org /\ row = ReadyRow(h)
      OBVIOUS
<1>2. /\ Uploading(h) /\ org \in Orgs /\ d \in DatasetId
      /\ ObjectsOf(d) = {RawPath(org, d), ParquetPath(org, d)}
      /\ UploadAgrees(h) /\ req[h] \in Request
      BY <1>1, UnderWayFacts, HandlerFacts
      DEF MarkReady, At, Uploading, UploadPC, UploadAgrees, Idle
<1>3. HasDataset(d, org) \/ d \notin DOMAIN datasets
      BY <1>1, <1>2 DEF UploadAgrees, HasDataset
<1>4. d \in DOMAIN datasets =>
         /\ row \in DatasetRow /\ row.org_id = org /\ row.report = req[h].data
         /\ row.status = "ready" /\ row.storage_path = RawPath(org, d)
         /\ row.parquet_path = ParquetPath(org, d)
  <2> SUFFICES ASSUME d \in DOMAIN datasets
               PROVE  /\ row \in DatasetRow /\ row.org_id = org
                      /\ row.report = req[h].data /\ row.status = "ready"
                      /\ row.storage_path = RawPath(org, d)
                      /\ row.parquet_path = ParquetPath(org, d)
      OBVIOUS
  <2>1. /\ datasets[d] \in DatasetRow /\ datasets[d].org_id = org
        /\ req[h].data \in Uploads \cup {None}
        BY <1>1, <1>2 DEF DatasetsInv, DatasetsTyped, UploadAgrees, Request
  <2>2. RawPath(org, d) \in Path /\ ParquetPath(org, d) \in Path
        BY <1>2, ConstructorFacts
  <2>3. row = [datasets[d] EXCEPT !.status = "ready", !.storage_path = RawPath(org, d),
                                  !.parquet_path = ParquetPath(org, d),
                                  !.report = req[h].data]
        BY <1>1 DEF ReadyRow
  <2> QED BY <2>1, <2>2, <2>3 DEF DatasetRow
<1>5. d \in DOMAIN datasets => ObjectsOf(d) = {row.storage_path, row.parquet_path} \ {None}
      BY <1>2, <1>4, ConstructorFacts
<1>6. /\ Respond(h) /\ UNCHANGED <<objects, lastDataset, faultVars>>
      /\ IF HasDataset(d, org) THEN update_dataset(d, row) ELSE UNCHANGED datasets
      BY <1>1 DEF MarkReady, Settle
<1> QED BY <1>1, <1>2, <1>4, <1>5, <1>6, SettleKeeps

(* A request that only reads begins: it is about a row that is there, and   *)
(* no other handler minds.                                                  *)
LEMMA BeginKeeps ==
    ASSUME DatasetsInv, NEW h \in Handlers, NEW d \in DOMAIN datasets, NEW x \in Request,
           Idle(h), Serve(h, x), x.ds = d, x.org = datasets[d].org_id,
           x.pc \in DeletePC \cup RowsPC,
           x.pc = "remove" => x.paths = StoredPaths(d) /\ x.paths # {},
           x.pc = "delete_row" => x.paths = StoredPaths(d) /\ x.paths = {},
           x.pc = "read_rows" => Servable(d) /\ x.paths = {datasets[d].parquet_path},
           UNCHANGED <<storeVars, faultVars>>
    PROVE  DatasetsInv'
<1>0. /\ DatasetsTyped /\ RowAgrees(d) /\ ObjectsAgree(d)
      /\ UNCHANGED <<datasets, lastDataset, objects, casualties>>
      BY DEF DatasetsInv, RowsAgree, storeVars, faultVars
<1>1. /\ RequestTypeOK' /\ req'[h] = x
      /\ \A g \in Handlers \ {h} : req'[g] = req[g]
      BY <1>0, ServeFacts
<1>2. d \in DatasetId /\ d \in 1..lastDataset /\ datasets[d].org_id \in Orgs
      BY <1>0, StoreAssumption DEF DatasetsTyped, DatasetId, DatasetRow
<1>3. ASSUME NEW e PROVE SameObjects(e)
      BY <1>0 DEF SameObjects, ObjectsOf
<1>4. \A p \in StoredPaths(d) : p.ds = d
      BY <1>0, <1>2, ConstructorFacts DEF StoredPaths, RowAgrees
<1>5. datasets[d].status = "validating" => x.pc = "delete_row" /\ x.paths = {}
      BY <1>0 DEF RowAgrees, StoredPaths, Servable, RowsPC, DeletePC
<1>6. HandlerAgrees(h)'
  <2>1. UploadAgrees(h)'
        BY <1>1 DEF UploadAgrees, Uploading, UploadPC, DeletePC, RowsPC
  <2>2. DeleteAgrees(h)'
        BY <1>0, <1>1, <1>3, <1>4, <1>5 DEF DeleteAgrees, SameObjects, ObjectsAgree
  <2>3. ReadAgrees(h)'
        BY <1>0, <1>1 DEF ReadAgrees, Servable
  <2> QED BY <1>0, <1>1, <1>2, <2>1, <2>2, <2>3
          DEF HandlerAgrees, Idle, DeletePC, RowsPC
<1>7. ASSUME NEW g \in Handlers \ {h} PROVE HandlerAgrees(g)'
  <2>1. lastDataset' \in Nat /\ lastDataset' >= lastDataset
        BY <1>0, StoreAssumption DEF DatasetsTyped
  <2>2. SameObjects(req[g].ds) /\ ObjectsOf(req[g].ds)' = ObjectsOf(req[g].ds)
        BY <1>1, <1>3 DEF SameObjects
  <2>3. Uploading(g) /\ req[g].ds = d => ~Uploading(h)' /\ req'[h].paths = {}
        BY <1>1, <1>5, HandlerFacts DEF UploadAgrees, Uploading, UploadPC
  <2> QED BY <1>0, <1>1, <2>1, <2>2, <2>3, HandlerKept
<1>8. DatasetsTyped' /\ HandlersAgree'
      BY <1>0, <1>1, <1>6, <1>7 DEF DatasetsTyped, HandlersAgree
<1>9. RowsAgree'
      BY <1>0, <1>1, <1>3, RowKept DEF RowsAgree, At, Idle
<1>10. OrphansAgree'
      BY <1>0, StoreAssumption, OrphansKept DEF DatasetsTyped
<1>11. NoDatasetIsForgotten'
      BY <1>0, <1>1, UploadsKept DEF Uploading, UploadPC, Idle
<1> QED BY <1>8, <1>9, <1>10, <1>11 DEF DatasetsInv

(* A delete begins, knowing of the paths of the row.                        *)
LEMMA DeleteDatasetKeeps ==
    ASSUME DatasetsInv, NEW h \in Handlers, NEW org \in Orgs, NEW d \in DatasetId,
           DeleteDataset(h, org, d)
    PROVE  DatasetsInv'
<1> DEFINE x == [IdleRequest EXCEPT
                 !.pc = IF StoredPaths(d) # {} THEN "remove" ELSE "delete_row",
                 !.org = org, !.ds = d, !.paths = StoredPaths(d)]
<1>1. d \in DOMAIN datasets /\ datasets[d].org_id = org
      BY DEF DeleteDataset, HasDataset
<1>2. StoredPaths(d) \subseteq Path
      BY <1>1 DEF DatasetsInv, DatasetsTyped, DatasetRow, StoredPaths
<1>3. /\ x \in Request /\ x.ds = d /\ x.org = org /\ x.paths = StoredPaths(d)
      /\ x.pc = IF StoredPaths(d) # {} THEN "remove" ELSE "delete_row"
      BY <1>2 DEF IdleRequest, Request, DeletePC
<1>4. Idle(h) /\ Serve(h, x) /\ UNCHANGED <<storeVars, faultVars>>
      BY DEF DeleteDataset
<1> HIDE DEF x
<1> QED BY <1>1, <1>3, <1>4, BeginKeeps DEF DeletePC, RowsPC

(* A request for rows begins, knowing of the parquet object.                *)
LEMMA GetRowsKeeps ==
    ASSUME DatasetsInv, NEW h \in Handlers, NEW org \in Orgs, NEW d \in DatasetId,
           GetRows(h, org, d)
    PROVE  DatasetsInv'
<1> DEFINE x == [IdleRequest EXCEPT !.pc = "read_rows", !.org = org, !.ds = d,
                                    !.paths = {datasets[d].parquet_path}]
<1>1. d \in DOMAIN datasets /\ datasets[d].org_id = org /\ Servable(d)
      BY DEF GetRows, HasDataset
<1>2. datasets[d].parquet_path \in Path
      BY <1>1 DEF DatasetsInv, DatasetsTyped, DatasetRow, Servable
<1>3. /\ x \in Request /\ x.ds = d /\ x.org = org /\ x.pc = "read_rows"
      /\ x.paths = {datasets[d].parquet_path}
      BY <1>2 DEF IdleRequest, Request, RowsPC
<1>4. Idle(h) /\ Serve(h, x) /\ UNCHANGED <<storeVars, faultVars>>
      BY DEF GetRows
<1> HIDE DEF x
<1> QED BY <1>1, <1>3, <1>4, BeginKeeps DEF DeletePC, RowsPC

(* A request ends without another call, and what it left half done is       *)
(* among the casualties.                                                    *)
LEMMA EndKeeps ==
    ASSUME DatasetsInv, NEW h \in Handlers, Respond(h),
           UNCHANGED <<datasets, objects, lastDataset>>, casualties \subseteq casualties',
           Uploading(h) => <<"upload", req[h].ds>> \in casualties',
           At(h, "delete_row") /\ req[h].paths # {} =>
               <<"delete", req[h].ds>> \in casualties'
    PROVE  DatasetsInv'
<1>0. /\ DatasetsTyped /\ Serve(h, IdleRequest)
      /\ UNCHANGED <<datasets, lastDataset, objects>>
      BY DEF DatasetsInv, Respond
<1>1. /\ RequestTypeOK' /\ req'[h] = IdleRequest
      /\ \A g \in Handlers \ {h} : req'[g] = req[g]
  <2>1. IdleRequest \in Request
        BY DEF IdleRequest, Request
  <2> QED BY <1>0, <2>1, ServeFacts
<1>2. ASSUME NEW e PROVE SameObjects(e)
      BY <1>0 DEF SameObjects, ObjectsOf
<1>3. ASSUME NEW g \in Handlers \ {h} PROVE HandlerAgrees(g)'
  <2>1. lastDataset' \in Nat /\ lastDataset' >= lastDataset
        BY <1>0, StoreAssumption DEF DatasetsTyped
  <2>2. SameObjects(req[g].ds) /\ ObjectsOf(req[g].ds)' = ObjectsOf(req[g].ds)
        BY <1>1, <1>2 DEF SameObjects
  <2>3. ~Uploading(h)' /\ req'[h].paths = {}
        BY <1>1 DEF IdleRequest, Uploading, UploadPC
  <2> QED BY <1>0, <1>1, <2>1, <2>2, <2>3, HandlerKept
<1>4. DatasetsTyped' /\ HandlersAgree'
      BY <1>0, <1>1, <1>3, IdleAgrees DEF DatasetsTyped, HandlersAgree
<1>5. RowsAgree'
      BY <1>0, <1>1, <1>2, RowKept DEF RowsAgree
<1>6. OrphansAgree'
      BY <1>0, StoreAssumption, OrphansKept DEF DatasetsTyped
<1>7. NoDatasetIsForgotten'
      BY <1>0, <1>1, UploadsKept DEF Uploading
<1> QED BY <1>4, <1>5, <1>6, <1>7 DEF DatasetsInv

(* A request for rows ends.                                                 *)
LEMMA ReadRowsKeeps ==
    ASSUME DatasetsInv, NEW h \in Handlers, ReadRows(h)
    PROVE  DatasetsInv'
BY EndKeeps DEF ReadRows, At, Uploading, UploadPC, storeVars, faultVars

(* A request dies.                                                          *)
LEMMA DatasetRequestDiesKeeps ==
    ASSUME DatasetsInv, NEW h \in Handlers, DatasetRequestDies(h)
    PROVE  DatasetsInv'
BY EndKeeps DEF DatasetRequestDies, Uploading, storeVars

(* A delete removes the objects it knows of, and they are all there are.    *)
LEMMA RemoveObjectsKeeps ==
    ASSUME DatasetsInv, NEW h \in Handlers, RemoveObjects(h)
    PROVE  DatasetsInv'
<1> DEFINE x == [req[h] EXCEPT !.pc = "delete_row"]
<1>d. PICK d, paths : d = req[h].ds /\ paths = req[h].paths
      OBVIOUS
<1>0. /\ DatasetsTyped /\ req[h] \in Request /\ Serve(h, x) /\ At(h, "remove")
      /\ HandlerAgrees(h) /\ DeleteAgrees(h)
      /\ UNCHANGED <<datasets, lastDataset, casualties>>
      BY HandlerFacts
      DEF DatasetsInv, DatasetsTyped, RequestTypeOK, RemoveObjects, Proceed, faultVars
<1>1. /\ x \in Request /\ x.pc = "delete_row" /\ x.ds = d /\ x.org = req[h].org
      /\ x.paths = paths
      BY <1>d, <1>0 DEF Request, DeletePC
<1> HIDE DEF x
<1>2. /\ RequestTypeOK' /\ req'[h] = x
      /\ \A g \in Handlers \ {h} : req'[g] = req[g]
      BY <1>0, <1>1, ServeFacts
<1>3. /\ paths # {} /\ ObjectsOf(d) \subseteq paths
      /\ \A p \in paths : p.ds = d
      BY <1>d, <1>0 DEF DeleteAgrees, At
<1>4. /\ DOMAIN objects' = DOMAIN objects \ paths
      /\ \A q \in DOMAIN objects' : objects'[q] = objects[q]
      BY <1>d, RemovalFacts DEF RemoveObjects
<1>5. ObjectsOf(d)' = {}
      BY <1>3, <1>4 DEF ObjectsOf
<1>6. ASSUME NEW e, e # d PROVE SameObjects(e)
      BY <1>3, <1>4, <1>6 DEF SameObjects, ObjectsOf
<1>7. DatasetsTyped'
      BY <1>0, <1>2 DEF DatasetsTyped
<1>8. RowsAgree'
  <2> SUFFICES ASSUME NEW e \in DOMAIN datasets PROVE RowAgrees(e)' /\ ObjectsAgree(e)'
      BY <1>0 DEF RowsAgree
  <2>1. CASE e = d
    <3>1. Removed(d)'
          BY <1>1, <1>2, <1>3, <1>5 DEF Removed, At
    <3> QED BY <1>0, <1>5, <2>1, <3>1 DEF DatasetsInv, RowsAgree, RowAgrees, ObjectsAgree
  <2>2. CASE e # d
        BY <1>0, <1>2, <1>6, <2>2, RowKept DEF At
  <2> QED BY <2>1, <2>2
<1>9. HandlersAgree'
  <2>1. HandlerAgrees(h)'
    <3>1. UploadAgrees(h)' /\ ReadAgrees(h)'
          BY <1>1, <1>2 DEF UploadAgrees, ReadAgrees, Uploading, UploadPC
    <3>2. DeleteAgrees(h)'
          BY <1>d, <1>0, <1>1, <1>2, <1>5 DEF DeleteAgrees, At, DeletePC
    <3> QED BY <1>d, <1>0, <1>1, <1>2, <3>1, <3>2 DEF HandlerAgrees, Idle, At
  <2>2. ASSUME NEW g \in Handlers \ {h} PROVE HandlerAgrees(g)'
    <3>1. lastDataset' \in Nat /\ lastDataset' >= lastDataset
          BY <1>0, StoreAssumption DEF DatasetsTyped
    <3>2. Uploading(g) => req[g].ds # d
          BY <1>d, <1>3, HandlerFacts DEF UploadAgrees
    <3>3. Uploading(g) => SameObjects(req[g].ds) /\ req'[h].ds # req[g].ds
          BY <1>1, <1>2, <1>6, <3>2
    <3>4. ObjectsOf(req[g].ds)' \subseteq ObjectsOf(req[g].ds)
          BY <1>2, <1>4 DEF ObjectsOf
    <3> QED BY <1>0, <1>2, <3>1, <3>3, <3>4, HandlerKept
  <2> QED BY <2>1, <2>2 DEF HandlersAgree
<1>10. OrphansAgree'
      BY <1>0, <1>4 DEF DatasetsInv, OrphansAgree
<1>11. NoDatasetIsForgotten'
      BY <1>0, <1>2, UploadsKept DEF Uploading, UploadPC, At
<1> QED BY <1>7, <1>8, <1>9, <1>10, <1>11 DEF DatasetsInv

(* A delete deletes the row; if it removed no object, there may be some.    *)
LEMMA DeleteRowKeeps ==
    ASSUME DatasetsInv, NEW h \in Handlers, DeleteRow(h)
    PROVE  DatasetsInv'
<1>d. PICK d : d = req[h].ds
      OBVIOUS
<1>0. /\ DatasetsTyped /\ Serve(h, IdleRequest) /\ At(h, "delete_row")
      /\ HandlerAgrees(h) /\ DeleteAgrees(h) /\ UNCHANGED <<objects, lastDataset>>
      /\ casualties \subseteq casualties'
      /\ req[h].paths = {} => <<"blind", d>> \in casualties'
      BY <1>d, HandlerFacts DEF DatasetsInv, DeleteRow, Respond
<1>1. /\ RequestTypeOK' /\ req'[h] = IdleRequest
      /\ \A g \in Handlers \ {h} : req'[g] = req[g]
  <2>1. IdleRequest \in Request
        BY DEF IdleRequest, Request
  <2> QED BY <1>0, <2>1, ServeFacts
<1>2. d \in DOMAIN datasets => HasDataset(d, req[h].org)
      BY <1>d, <1>0 DEF DeleteAgrees, HasDataset, At, DeletePC
<1>3. /\ DOMAIN datasets' = DOMAIN datasets \ {d}
      /\ datasets' \in [DOMAIN datasets' -> DatasetRow]
      /\ \A e \in DOMAIN datasets' : datasets'[e] = datasets[e]
      BY <1>d, <1>0, <1>2 DEF DeleteRow, delete_dataset, Without, HasDataset, DatasetsTyped
<1>4. ASSUME NEW e PROVE SameObjects(e)
      BY <1>0 DEF SameObjects, ObjectsOf
<1>5. ObjectsOf(d) = {} \/ <<"blind", d>> \in casualties'
      BY <1>d, <1>0 DEF DeleteAgrees, At
<1>6. DatasetsTyped'
      BY <1>0, <1>1, <1>3 DEF DatasetsTyped
<1>7. RowsAgree'
      BY <1>d, <1>0, <1>1, <1>3, <1>4, RowKept DEF RowsAgree
<1>8. HandlersAgree'
  <2>1. HandlerAgrees(h)'
        BY <1>1, IdleAgrees
  <2>2. ASSUME NEW g \in Handlers \ {h} PROVE HandlerAgrees(g)'
    <3>1. lastDataset' \in Nat /\ lastDataset' >= lastDataset
          BY <1>0, StoreAssumption DEF DatasetsTyped
    <3>2. SameObjects(req[g].ds) /\ ObjectsOf(req[g].ds)' = ObjectsOf(req[g].ds)
          BY <1>1, <1>4 DEF SameObjects
    <3>3. ~Uploading(h)' /\ req'[h].paths = {}
          BY <1>1 DEF IdleRequest, Uploading, UploadPC
    <3>4. Uploading(g) /\ req[g].ds = d => <<"blind", d>> \in casualties'
          BY <1>d, <1>0, HandlerFacts DEF UploadAgrees
    <3> QED BY <1>0, <1>1, <1>3, <3>1, <3>2, <3>3, <3>4, HandlerKept
  <2> QED BY <2>1, <2>2 DEF HandlersAgree
<1>9. OrphansAgree'
      BY <1>0, <1>3, <1>5, StoreAssumption, OrphansKept DEF DatasetsTyped
<1>10. NoDatasetIsForgotten'
      BY <1>0, <1>1, <1>3, UploadsKept DEF Uploading, UploadPC, At
<1> QED BY <1>6, <1>7, <1>8, <1>9, <1>10 DEF DatasetsInv

(* What run requests, and the jobs they start, do beside all this: they     *)
(* write no row of the table and no object but artifacts; and a handler     *)
(* that serves a run request begins with a row that is there, makes its     *)
(* calls and answers.                                                       *)
RunBegins(h) ==
    /\ Idle(h)
    /\ req'[h].pc \in RunPC /\ req'[h].paths = {}
    /\ req'[h].ds \in DOMAIN datasets /\ req'[h].org = datasets[req'[h].ds].org_id

RunGoesOn(h) ==
    /\ req[h].pc \in RunPC /\ req'[h].pc \in RunPC
    /\ req'[h].ds = req[h].ds /\ req'[h].org = req[h].org
    /\ req'[h].paths = req[h].paths

RunEnds(h) == req[h].pc \in RunPC /\ req'[h] = IdleRequest

Beside ==
    /\ UNCHANGED <<datasets, lastDataset>>
    /\ \A d : SameObjects(d)
    /\ casualties \subseteq casualties'
    /\ RequestTypeOK'
    /\ \A h \in Handlers :
          req'[h] = req[h] \/ RunBegins(h) \/ RunGoesOn(h) \/ RunEnds(h)

(* Seen from the datasets endpoints nothing happens.                        *)
LEMMA BesideKeeps ==
    ASSUME DatasetsInv, Beside
    PROVE  DatasetsInv'
<1>0. /\ DatasetsTyped /\ UNCHANGED <<datasets, lastDataset>>
      /\ casualties \subseteq casualties' /\ lastDataset \in Nat
      /\ \A d : ObjectsOf(d)' = ObjectsOf(d) /\ \A p \in ObjectsOf(d) : objects'[p] = objects[p]
      BY StoreAssumption DEF DatasetsInv, DatasetsTyped, Beside, SameObjects
<1>1. ASSUME NEW h \in Handlers
      PROVE  /\ \/ req'[h] = req[h]
                \/ ~Uploading(h) /\ ~Uploading(h)' /\ req[h].pc # "delete_row"
                   /\ req[h].pc # "read_rows"
             /\ Uploading(h)' => req'[h] = req[h]
             /\ req'[h] = req[h] \/ RunBegins(h) \/ RunGoesOn(h) \/ RunEnds(h)
  <2>1. req'[h] = req[h] \/ RunBegins(h) \/ RunGoesOn(h) \/ RunEnds(h)
        BY DEF Beside
  <2> QED BY <2>1 DEF RunBegins, RunGoesOn, RunEnds, Uploading, UploadPC, RunPC, Idle,
          IdleRequest
<1>2. DatasetsTyped'
      BY <1>0 DEF DatasetsTyped, Beside
<1>3. RowsAgree'
  <2> SUFFICES ASSUME NEW d \in DOMAIN datasets PROVE RowAgrees(d)' /\ ObjectsAgree(d)'
      BY <1>0 DEF RowsAgree
  <2>1. datasets'[d] = datasets[d] /\ SameObjects(d)
        BY <1>0 DEF SameObjects
  <2>2. \A h \in Handlers : At(h, "delete_row") => req'[h] = req[h]
        BY <1>1 DEF At
  <2> QED BY <1>0, <2>1, <2>2, RowKept
<1>4. OrphansAgree'
  <2> SUFFICES ASSUME NEW p \in DOMAIN objects', p.file # "artifact"
               PROVE  /\ p.ds \in 1..lastDataset'
                      /\ p.ds \notin DOMAIN datasets' => <<"blind", p.ds>> \in casualties'
      BY DEF OrphansAgree
  <2>1. p \in ObjectsOf(p.ds)'
        BY DEF ObjectsOf
  <2>2. p \in DOMAIN objects
        BY <1>0, <2>1 DEF ObjectsOf
  <2> QED BY <1>0, <2>2 DEF DatasetsInv, OrphansAgree
<1>5. NoDatasetIsForgotten'
      BY <1>0, <1>1, UploadsKept DEF Uploading
<1>6. ASSUME NEW h \in Handlers PROVE HandlerAgrees(h)'
  <2>1. HandlerAgrees(h) /\ UploadAgrees(h)
        BY HandlerFacts
  <2>2. ASSUME Uploading(h), NEW g \in Handlers \ {h}, req'[g].ds = req[h].ds
        PROVE  ~Uploading(g)' /\ req'[g].paths = {}
    <3>1. CASE req'[g] = req[g] \/ RunGoesOn(g)
          BY <1>1, <2>1, <2>2, <3>1 DEF UploadAgrees, RunGoesOn, Uploading
    <3>2. CASE RunBegins(g) \/ RunEnds(g)
          BY <3>2 DEF RunBegins, RunEnds, IdleRequest, Uploading, UploadPC, RunPC
    <3> QED BY <1>1, <3>1, <3>2
  <2>3. CASE req'[h] = req[h]
    <3>1. UploadAgrees(h)'
          BY <1>0, <2>1, <2>2, <2>3 DEF UploadAgrees, Uploading
    <3>2. DeleteAgrees(h)' /\ ReadAgrees(h)'
          BY <1>0, <2>1, <2>3 DEF HandlerAgrees, DeleteAgrees, ReadAgrees
    <3> QED BY <1>0, <2>1, <2>3, <3>1, <3>2 DEF HandlerAgrees, Idle
  <2>4. CASE RunBegins(h) \/ RunGoesOn(h)
    <3>1. req'[h].pc \in RunPC /\ req'[h].ds \in 1..lastDataset /\ req'[h].org \in Orgs
          BY <1>0, <2>1, <2>4
          DEF RunBegins, RunGoesOn, HandlerAgrees, Idle, RunPC, DatasetsTyped, DatasetRow
    <3> QED BY <1>0, <3>1
            DEF HandlerAgrees, UploadAgrees, DeleteAgrees, ReadAgrees, Uploading, UploadPC,
                DeletePC, RunPC, Idle
  <2>5. CASE RunEnds(h)
        BY <2>5, IdleAgrees DEF RunEnds
  <2> QED BY <1>1, <2>3, <2>4, <2>5
<1> QED BY <1>2, <1>3, <1>4, <1>5, <1>6 DEF DatasetsInv, HandlersAgree

(* At first there is nothing.                                               *)
LEMMA InitAgrees == DatasetsInit => DatasetsInv
<1> SUFFICES ASSUME DatasetsInit PROVE DatasetsInv
    OBVIOUS
<1>1. /\ datasets = [d \in {} |-> None] /\ objects = [p \in {} |-> None]
      /\ lastDataset = 0 /\ req = [h \in Handlers |-> IdleRequest]
      BY DEF DatasetsInit, StoreInit, RequestInit
<1>2. IdleRequest \in Request /\ IdleRequest.pc = "idle" /\ IdleRequest.ds = 0
      BY DEF IdleRequest, Request
<1>3. DatasetsTyped
  <2>1. DOMAIN datasets = {} /\ datasets \in [{} -> DatasetRow]
        BY <1>1
  <2>2. RequestTypeOK
        BY <1>1, <1>2 DEF RequestTypeOK
  <2> QED BY <1>1, <2>1, <2>2, StoreAssumption DEF DatasetsTyped
<1>4. HandlersAgree
      BY <1>1, <1>2 DEF HandlersAgree, HandlerAgrees, UploadAgrees, DeleteAgrees, ReadAgrees,
         Uploading, UploadPC, DeletePC, Idle
<1>5. RowsAgree /\ OrphansAgree /\ NoDatasetIsForgotten
      BY <1>1 DEF RowsAgree, OrphansAgree, NoDatasetIsForgotten
<1> QED BY <1>3, <1>4, <1>5 DEF DatasetsInv

(* And every step keeps rows, objects and requests in step.                 *)
LEMMA NextAgrees == DatasetsInv /\ [DatasetsNext]_datasetVars => DatasetsInv'
<1> SUFFICES ASSUME DatasetsInv, [DatasetsNext]_datasetVars PROVE DatasetsInv'
    OBVIOUS
<1>1. CASE DatasetsNext
  <2>1. PICK h \in Handlers :
          DatasetRequest(h) \/ DatasetStep(h) \/ DatasetRequestDies(h)
        BY <1>1 DEF DatasetsNext
  <2>2. CASE DatasetRequest(h)
        BY <2>2, UploadDatasetKeeps, DeleteDatasetKeeps, GetRowsKeeps DEF DatasetRequest
  <2>3. CASE DatasetStep(h)
        BY <2>3, PutRawKeeps, MarkInvalidKeeps, PutParquetKeeps, MarkReadyKeeps,
           RemoveObjectsKeeps, DeleteRowKeeps, ReadRowsKeeps DEF DatasetStep
  <2>4. CASE DatasetRequestDies(h)
        BY <2>4, DatasetRequestDiesKeeps
  <2> QED BY <2>1, <2>2, <2>3, <2>4
<1>2. CASE UNCHANGED datasetVars
  <2>1. UNCHANGED <<datasets, objects, lastDataset, req, casualties>>
        BY <1>2 DEF datasetVars, storeVars, faultVars
  <2>2. DatasetsTyped' /\ OrphansAgree' /\ NoDatasetIsForgotten'
        BY <2>1 DEF DatasetsInv, DatasetsTyped, RequestTypeOK, OrphansAgree,
           NoDatasetIsForgotten
  <2>3. RowsAgree'
        BY <2>1, RowKept DEF SameObjects, ObjectsOf, RowsAgree
  <2>4. HandlersAgree'
        BY <2>1 DEF DatasetsInv, HandlersAgree, HandlerAgrees, UploadAgrees, DeleteAgrees,
           ReadAgrees, Uploading, ObjectsOf, Idle
  <2> QED BY <2>2, <2>3, <2>4 DEF DatasetsInv
<1> QED BY <1>1, <1>2

(* Rows, objects and requests are in step throughout.                       *)
THEOREM DatasetsInvariant == DatasetsSpec => []DatasetsInv
BY InitAgrees, NextAgrees, PTL DEF DatasetsSpec

----------------------------------------------------------------------------
(* What DatasetsInv implies.                                                *)

(* The objects of a ready row.                                              *)
LEMMA ReadyFacts ==
    ASSUME DatasetsInv, NEW d \in DOMAIN datasets, datasets[d].status = "ready"
    PROVE  /\ StoredPaths(d) = {datasets[d].storage_path, datasets[d].parquet_path}
           /\ \A p \in StoredPaths(d) : p.ds = d /\ p.file # "artifact"
           /\ \/ Removed(d)
              \/ /\ StoredPaths(d) \subseteq ObjectsOf(d)
                 /\ \A p \in ObjectsOf(d) : objects[p] = datasets[d].report
<1>1. RowAgrees(d) /\ ObjectsAgree(d) /\ d \in DatasetId /\ datasets[d].org_id \in Orgs
      BY StoreAssumption
      DEF DatasetsInv, RowsAgree, DatasetsTyped, DatasetId, DatasetRow
<1> QED BY <1>1, ConstructorFacts DEF RowAgrees, ObjectsAgree, StoredPaths

(* A ready dataset has both its objects, as its report describes them, or   *)
(* neither, and then a delete is half way, or died half way: for any number *)
(* of uploads, deletes and readers at a time.                               *)
LEMMA ReadyHaveObjects == DatasetsInv => ReadyDatasetsHaveTheirObjects
<1> SUFFICES ASSUME DatasetsInv, NEW d \in DOMAIN datasets, datasets[d].status = "ready"
             PROVE  LET row == datasets[d]
                        raw == row.storage_path
                        parquet == row.parquet_path IN
                    \/ /\ {raw, parquet} \subseteq DOMAIN objects
                       /\ objects[raw] = row.report
                       /\ objects[parquet] = row.report
                    \/ /\ {raw, parquet} \cap DOMAIN objects = {}
                       /\ Deleting(d) \/ <<"delete", d>> \in casualties
    BY DEF ReadyDatasetsHaveTheirObjects
<1>1. CASE Removed(d)
      BY <1>1, ReadyFacts DEF Removed, Deleting, ObjectsOf
<1>2. CASE ~Removed(d)
      BY <1>2, ReadyFacts DEF ObjectsOf
<1> QED BY <1>1, <1>2

(* So has the dataset whose rows are about to be read.                      *)
LEMMA RowsAreThere == DatasetsInv => RowsAreThereUnlessDeleted
<1> SUFFICES ASSUME DatasetsInv, NEW h \in Handlers, At(h, "read_rows"),
                    req[h].ds \in DOMAIN datasets
             PROVE  \/ req[h].paths \subseteq DOMAIN objects
                    \/ Deleting(req[h].ds)
                    \/ <<"delete", req[h].ds>> \in casualties
    BY DEF RowsAreThereUnlessDeleted
<1>1. /\ datasets[req[h].ds].status = "ready"
      /\ req[h].paths = {datasets[req[h].ds].parquet_path}
      BY HandlerFacts DEF ReadAgrees, At
<1> QED BY <1>1, ReadyFacts DEF Removed, Deleting, ObjectsOf

(* It implies all the promises of the endpoints.                            *)
LEMMA InvKeepsThePromises ==
    DatasetsInv => /\ ReadyDatasetsHaveTheirObjects
                   /\ RowsAreThereUnlessDeleted
                   /\ OrphansComeFromBlindDeletes
                   /\ NoDatasetIsForgotten
BY ReadyHaveObjects, RowsAreThere
DEF DatasetsInv, OrphansAgree, OrphansComeFromBlindDeletes

(* The datasets endpoints keep their promises throughout.                   *)
THEOREM DatasetsKeepTheirPromises ==
    DatasetsSpec => [](/\ ReadyDatasetsHaveTheirObjects
                       /\ RowsAreThereUnlessDeleted
                       /\ OrphansComeFromBlindDeletes
                       /\ NoDatasetIsForgotten)
BY InvKeepsThePromises, DatasetsInvariant, PTL
=============================================================================
