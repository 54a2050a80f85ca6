---------------------------- MODULE AccessProofs ----------------------------
(***************************************************************************)
(* Proofs about AccessSpec, for any users, memberships and revocations:     *)
(* that the datasets endpoints keep their promises, and keep organizations  *)
(* apart, when they are reached through get_current_user and the policies.  *)
(***************************************************************************)
EXTENDS Access, DatasetsProofs

(* Access: the inductive invariant.  A request that is under way serves     *)
(* someone who was a member, and is about the organization it was let in    *)
(* for.                                                                     *)

IsServed(h) ==
    /\ who[h] # Nobody
    /\ req[h].org = who[h].org_id
    /\ \A p \in req[h].paths : p.org = req[h].org

AccessInv ==
    /\ DatasetsInv
    /\ AccessTypeOK
    /\ memberships \subseteq Memberships
    /\ \A h \in Handlers :
          /\ who[h] # Nobody => <<who[h].user_id, who[h].org_id>> \in Memberships
          /\ ~Idle(h) => IsServed(h)

----------------------------------------------------------------------------
(* What a step of a handler does, seen from outside.                        *)

(* A call of a request that is under way: no other request moves, and this  *)
(* one ends or stays in its organization.                                   *)
LEMMA StepMoves ==
    ASSUME DatasetsInv, NEW h \in Handlers, DatasetStep(h) \/ DatasetRequestDies(h)
    PROVE  /\ ~Idle(h) /\ req'[h] # req[h]
           /\ \A g \in Handlers \ {h} : req'[g] = req[g]
           /\ \/ req'[h] = IdleRequest
              \/ /\ req'[h].pc # "idle" /\ req'[h].org = req[h].org
                 /\ req'[h].paths = req[h].paths
<1>1. req \in [Handlers -> Request]
      BY DEF DatasetsInv, DatasetsTyped, RequestTypeOK
<1>2. CASE DatasetRequestDies(h)
      BY <1>1, <1>2 
         DEF DatasetRequestDies, Respond, Serve, IdleRequest, Idle, UploadPC, DeletePC, RowsPC
<1>3. CASE DatasetStep(h)
  <2>1. ~Idle(h)
        BY <1>3 DEF DatasetStep, PutRaw, MarkInvalid, PutParquet, MarkReady, RemoveObjects,
           DeleteRow, ReadRows, At, Idle
  <2>2. CASE Respond(h)
        BY <1>1, <2>1, <2>2 DEF Respond, Serve, IdleRequest, Idle
  <2>3. CASE \E pc \in {"put_parquet", "mark_invalid", "mark_ready", "delete_row"} :
                req[h].pc # pc /\ Proceed(h, pc)
        BY <1>1, <2>1, <2>3 DEF Proceed, Serve, Request
  <2> QED BY <1>3, <2>2, <2>3
          DEF DatasetStep, PutRaw, MarkInvalid, PutParquet, MarkReady, Settle,
              RemoveObjects, DeleteRow, ReadRows, AfterRaw, At
<1> QED BY <1>2, <1>3

(* The objects it touches are of its organization.                          *)
LEMMA StepObjects ==
    ASSUME DatasetsInv, NEW h \in Handlers, DatasetStep(h) \/ DatasetRequestDies(h),
           \A p \in req[h].paths : p.org = req[h].org,
           NEW p \in DOMAIN objects \cup DOMAIN objects', ObjectChanges(p)
    PROVE  p.org = req[h].org
<1>1. objects' # objects \/ p \notin DOMAIN objects
      BY DEF ObjectChanges
<1>2. CASE UNCHANGED objects
      BY <1>1, <1>2
<1>3. CASE PutRaw(h)
  <2>1. PICK q : q = RawPath(req[h].org, req[h].ds) /\ upload_bytes(q, req[h].data)
        BY <1>3 DEF PutRaw
  <2>2. /\ DOMAIN objects' = DOMAIN objects \cup {q}
        /\ \A o \in DOMAIN objects \ {q} : objects'[o] = objects[o]
        BY <2>1, UploadFacts
  <2>3. p = q
        BY <2>2 DEF ObjectChanges
  <2> QED BY <2>1, <2>3 DEF RawPath
<1>4. CASE PutParquet(h)
  <2>1. PICK q : q = ParquetPath(req[h].org, req[h].ds) /\ upload_bytes(q, req[h].data)
        BY <1>4 DEF PutParquet
  <2>2. /\ DOMAIN objects' = DOMAIN objects \cup {q}
        /\ \A o \in DOMAIN objects \ {q} : objects'[o] = objects[o]
        BY <2>1, UploadFacts
  <2>3. p = q
        BY <2>2 DEF ObjectChanges
  <2> QED BY <2>1, <2>3 DEF ParquetPath
<1>5. CASE RemoveObjects(h)
  <2>1. delete_paths(req[h].paths)
        BY <1>5 DEF RemoveObjects
  <2> QED BY <2>1, RemovalFacts DEF ObjectChanges
<1> QED BY <1>2, <1>3, <1>4, <1>5
        DEF DatasetStep, DatasetRequestDies, MarkInvalid, MarkReady, Settle, DeleteRow,
            ReadRows, storeVars

(* So is the row it changes.                                                *)
LEMMA StepRows ==
    ASSUME DatasetsInv, NEW h \in Handlers, DatasetStep(h) \/ DatasetRequestDies(h),
           NEW d, RowChanges(d)
    PROVE  /\ d = req[h].ds /\ HasDataset(d, req[h].org)
           /\ req[h].pc \in RowPC /\ DatasetStep(h)
<1>1. datasets \in [DOMAIN datasets -> DatasetRow] /\ datasets' # datasets
      BY DEF DatasetsInv, DatasetsTyped, RowChanges
<1>2. CASE DeleteRow(h)
  <2>1. HasDataset(req[h].ds, req[h].org) /\ datasets' = Without(datasets, {req[h].ds})
        BY <1>1, <1>2 DEF DeleteRow, delete_dataset
  <2>2. d = req[h].ds
        BY <1>1, <2>1 DEF RowChanges, Without
  <2> QED BY <1>2, <2>1, <2>2 DEF DatasetStep, DeleteRow, At, RowPC
<1>3. CASE MarkInvalid(h) \/ MarkReady(h)
  <2>1. /\ HasDataset(req[h].ds, req[h].org)
        /\ \E row : datasets' = [datasets EXCEPT ![req[h].ds] = row]
        BY <1>1, <1>3 DEF MarkInvalid, MarkReady, Settle, update_dataset
  <2>2. d = req[h].ds
        BY <1>1, <2>1 DEF RowChanges
  <2> QED BY <1>3, <2>1, <2>2 DEF DatasetStep, MarkInvalid, MarkReady, At, RowPC
<1> QED BY <1>1, <1>2, <1>3
        DEF DatasetStep, DatasetRequestDies, PutRaw, PutParquet, RemoveObjects, ReadRows,
            storeVars

(* A request that is let in: it is for the organization it was sent for,    *)
(* and makes a row of that organization at most.                            *)
LEMMA EnterMoves ==
    ASSUME DatasetsInv, NEW h \in Handlers, Enter(h)
    PROVE  /\ DatasetRequest(h) /\ Idle(h) /\ who[h] # Nobody
           /\ \A g \in Handlers \ {h} : req'[g] = req[g]
           /\ req'[h].pc # "idle" /\ req'[h].org = who[h].org_id
           /\ \A p \in req'[h].paths : p.org = who[h].org_id
           /\ \A d : RowChanges(d) =>
                 /\ d \notin DOMAIN datasets /\ datasets'[d].org_id = who[h].org_id
                 /\ Admits(h, who[h].org_id)
<1>d. PICK org : org = who[h].org_id
      OBVIOUS
<1>0. /\ req \in [Handlers -> Request] /\ who[h] # Nobody /\ DatasetsTyped
      /\ datasets \in [DOMAIN datasets -> DatasetRow]
      /\ \A d \in DOMAIN datasets : d \in DatasetId
      BY StoreAssumption
      DEF Enter, DatasetsInv, DatasetsTyped, RequestTypeOK, DatasetId
<1>1. CASE \E data \in Uploads : Admits(h, org) /\ UploadDataset(h, org, data)
  <2>1. PICK data \in Uploads : Admits(h, org) /\ UploadDataset(h, org, data)
        BY <1>1
  <2>2. org \in Orgs /\ DatasetRequest(h) /\ Idle(h)
        BY <2>1 DEF Admits, list_memberships, DatasetRequest, UploadDataset
  <2>3. /\ \A g \in Handlers \ {h} : req'[g] = req[g]
        /\ req'[h].pc = "put_raw" /\ req'[h].org = org /\ req'[h].paths = {}
        BY <1>0, <2>1 DEF UploadDataset, Serve, IdleRequest
  <2>4. \A d : RowChanges(d) => d \notin DOMAIN datasets /\ datasets'[d].org_id = org
    <3>1. /\ DOMAIN datasets' = DOMAIN datasets \cup {NewDatasetId}
          /\ NewDatasetId \notin DOMAIN datasets /\ datasets'[NewDatasetId].org_id = org
          /\ \A e \in DOMAIN datasets : datasets'[e] = datasets[e]
      <4>1. create_dataset(org)
            BY <2>1 DEF UploadDataset
      <4>2. /\ DOMAIN datasets' = DOMAIN datasets \cup {NewDatasetId}
            /\ NewDatasetId \notin DOMAIN datasets
            /\ datasets'[NewDatasetId] =
                  [org_id |-> org, status |-> "validating", storage_path |-> None,
                   parquet_path |-> None, report |-> None]
            /\ \A e \in DOMAIN datasets : datasets'[e] = datasets[e]
            BY <1>0, <2>2, <4>1, CreateFacts
      <4> QED BY <4>2
    <3> QED BY <3>1 DEF RowChanges
  <2> QED BY <1>d, <1>0, <2>1, <2>2, <2>3, <2>4
<1>2. CASE \E d \in DOMAIN datasets : DeleteDataset(h, org, d) \/ GetRows(h, org, d)
  <2>1. PICK d \in DOMAIN datasets : DeleteDataset(h, org, d) \/ GetRows(h, org, d)
        BY <1>2
  <2>2. org = datasets[d].org_id /\ org \in Orgs /\ d \in DatasetId /\ RowAgrees(d)
        BY <1>0, <2>1 DEF DeleteDataset, GetRows, HasDataset, DatasetRow, DatasetsInv, RowsAgree
  <2>3. DatasetRequest(h) /\ Idle(h)
        BY <2>1, <2>2 DEF DatasetRequest, DeleteDataset, GetRows
  <2>4. \A p \in StoredPaths(d) : p.org = org
        BY <2>2 DEF StoredPaths, RowAgrees, RawPath, ParquetPath
  <2>5. /\ \A g \in Handlers \ {h} : req'[g] = req[g]
        /\ req'[h].pc # "idle" /\ req'[h].org = org /\ req'[h].paths \subseteq StoredPaths(d)
    <3>1. CASE DeleteDataset(h, org, d)
          BY <1>0, <3>1 DEF DeleteDataset, Serve, IdleRequest
    <3>2. CASE GetRows(h, org, d)
          BY <1>0, <3>2 DEF GetRows, Servable, StoredPaths, Serve, IdleRequest
    <3> QED BY <2>1, <3>1, <3>2
  <2>6. \A e : ~RowChanges(e)
        BY <2>1 DEF DeleteDataset, GetRows, storeVars, RowChanges
  <2> QED BY <1>d, <1>0, <2>3, <2>4, <2>5, <2>6
<1> QED BY <1>d, <1>1, <1>2 DEF Enter

(* Whatever happens, the datasets endpoints take a step of their own or     *)
(* none.                                                                    *)
LEMMA AccessSteps ==
    AccessInv /\ [AccessNext]_accessVars => [DatasetsNext]_datasetVars
<1> SUFFICES ASSUME AccessInv, [AccessNext]_accessVars PROVE [DatasetsNext]_datasetVars
    OBVIOUS
<1>1. ASSUME NEW h \in Handlers, Enter(h) PROVE DatasetsNext
      BY <1>1, EnterMoves DEF AccessInv, DatasetsNext
<1>2. ASSUME NEW h \in Handlers, Continue(h) \/ MatchNothing(h) \/ Die(h)
      PROVE  DatasetsNext
      BY <1>2 DEF Continue, MatchNothing, Die, DatasetsNext
<1> QED BY <1>1, <1>2
        DEF AccessNext, get_current_user, Refuse, Revoke, accessVars

(* At first nobody is served.                                               *)
LEMMA InitAccess == AccessInit => AccessInv
<1> SUFFICES ASSUME AccessInit PROVE AccessInv
    OBVIOUS
<1>1. DatasetsInv
      BY InitAgrees DEF AccessInit
<1>2. \A h \in Handlers : who[h] = Nobody /\ Idle(h)
      BY DEF AccessInit, DatasetsInit, RequestInit, IdleRequest, Idle
<1>3. AccessTypeOK /\ memberships \subseteq Memberships
      BY AccessAssumption DEF AccessInit, AccessTypeOK, CurrentUser, Nobody
<1> QED BY <1>1, <1>2, <1>3 DEF AccessInv

(* And every step serves only those who were let in.                        *)
LEMMA NextAccess == AccessInv /\ [AccessNext]_accessVars => AccessInv'
<1> SUFFICES ASSUME AccessInv, [AccessNext]_accessVars PROVE AccessInv'
    OBVIOUS
<1> DEFINE Served(h) == /\ who[h] # Nobody =>
                              <<who[h].user_id, who[h].org_id>> \in Memberships
                        /\ ~Idle(h) => IsServed(h)
<1>0. /\ DatasetsInv' /\ AccessTypeOK /\ memberships \subseteq Memberships
      /\ \A h \in Handlers : Served(h)
      BY AccessSteps, NextAgrees DEF AccessInv
<1>1. ASSUME NEW h \in Handlers, NEW u \in Users, NEW x, get_current_user(h, u, x)
      PROVE  AccessInv'
  <2>1. PICK org \in list_memberships(u) :
          who' = [who EXCEPT ![h] = [user_id |-> u, org_id |-> org]]
        BY <1>1 DEF get_current_user
  <2>2. /\ org \in Orgs /\ <<u, org>> \in Memberships /\ Idle(h) /\ req' = req
        /\ memberships' = memberships
        BY <1>0, <1>1 DEF list_memberships, get_current_user, datasetVars
  <2>3. AccessTypeOK' /\ memberships' \subseteq Memberships
        BY <1>0, <2>1, <2>2 DEF AccessTypeOK, CurrentUser
  <2>4. \A g \in Handlers : Served(g)'
        BY <1>0, <2>1, <2>2 DEF AccessTypeOK, IsServed, Idle
  <2> QED BY <1>0, <2>3, <2>4 DEF AccessInv
<1>2. ASSUME NEW h \in Handlers, Enter(h) PROVE AccessInv'
  <2>1. UNCHANGED <<memberships, who>>
        BY <1>2 DEF Enter
  <2>2. AccessTypeOK' /\ memberships' \subseteq Memberships
        BY <1>0, <2>1 DEF AccessTypeOK
  <2>3. \A g \in Handlers : Served(g)'
        BY <1>0, <1>2, <2>1, EnterMoves DEF AccessInv, IsServed, Idle
  <2> QED BY <1>0, <2>2, <2>3 DEF AccessInv
<1>3. ASSUME NEW h \in Handlers, Refuse(h) PROVE AccessInv'
  <2>1. /\ who' = [who EXCEPT ![h] = Nobody] /\ Idle(h)
        /\ UNCHANGED <<req, memberships>>
        BY <1>3 DEF Refuse, datasetVars
  <2>2. AccessTypeOK' /\ memberships' \subseteq Memberships
        BY <1>0, <2>1 DEF AccessTypeOK, CurrentUser, Nobody
  <2>3. \A g \in Handlers : Served(g)'
        BY <1>0, <2>1 DEF AccessTypeOK, IsServed, Idle
  <2> QED BY <1>0, <2>2, <2>3 DEF AccessInv
<1>4. ASSUME NEW h \in Handlers, DatasetStep(h) \/ DatasetRequestDies(h), Leave(h),
             UNCHANGED memberships
      PROVE  AccessInv'
  <2>1. /\ ~Idle(h) /\ IsServed(h)
        /\ \A g \in Handlers \ {h} : req'[g] = req[g]
        /\ \/ req'[h] = IdleRequest
           \/ /\ req'[h].pc # "idle" /\ req'[h].org = req[h].org
              /\ req'[h].paths = req[h].paths
        BY <1>0, <1>4, StepMoves DEF AccessInv
  <2>2. /\ AccessTypeOK' /\ memberships' \subseteq Memberships
        /\ \A g \in Handlers \ {h} : who'[g] = who[g]
        /\ who'[h] = IF req'[h].pc = "idle" THEN Nobody ELSE who[h]
        BY <1>0, <1>4 DEF Leave, AccessTypeOK, CurrentUser, Nobody
  <2>3. Served(h)'
        BY <1>0, <2>1, <2>2 DEF IsServed, Idle, IdleRequest
  <2>4. \A g \in Handlers \ {h} : Served(g)'
        BY <1>0, <2>1, <2>2 DEF IsServed, Idle
  <2> QED BY <1>0, <2>2, <2>3, <2>4 DEF AccessInv
<1>5. ASSUME NEW u, NEW org, Revoke(u, org) PROVE AccessInv'
  <2>1. UNCHANGED <<req, who>> /\ memberships' \subseteq memberships
        BY <1>5 DEF Revoke, datasetVars
  <2>2. \A g \in Handlers : Served(g)'
        BY <1>0, <2>1 DEF IsServed, Idle
  <2> QED BY <1>0, <2>1, <2>2 DEF AccessInv, AccessTypeOK
<1>6. CASE UNCHANGED accessVars
  <2>1. UNCHANGED <<req, who, memberships>>
        BY <1>6 DEF accessVars, datasetVars
  <2>2. \A g \in Handlers : Served(g)'
        BY <1>0, <2>1 DEF IsServed, Idle
  <2> QED BY <1>0, <2>1, <2>2 DEF AccessInv, AccessTypeOK
<1> QED BY <1>1, <1>2, <1>3, <1>4, <1>5, <1>6
        DEF AccessNext, Continue, MatchNothing, Die

(* Requests serve only those who were let in, throughout.                   *)
THEOREM AccessInvariant == AccessSpec => []AccessInv
BY InitAccess, NextAccess, PTL DEF AccessSpec

(* The endpoints reached through get_current_user and the policies are the  *)
(* endpoints of DatasetsApi: nothing that goes on around a request makes it *)
(* do what it would not do alone.                                           *)
THEOREM AccessImplementsDatasets == AccessSpec => DatasetsSpec
<1>1. AccessInit => DatasetsInit
      BY DEF AccessInit
<1> QED BY <1>1, AccessInvariant, AccessSteps, PTL DEF AccessSpec, DatasetsSpec

(* So they keep the promises DatasetsApi makes: a ready dataset has its     *)
(* objects unless a delete got half way,                                    *)
THEOREM ReadyDatasetsAreWhole == AccessSpec => []ReadyDatasetsHaveTheirObjects
BY AccessImplementsDatasets, DatasetsKeepTheirPromises, PTL

(* a reader finds the rows unless somebody deletes them,                    *)
THEOREM RowsAreServed == AccessSpec => []RowsAreThereUnlessDeleted
BY AccessImplementsDatasets, DatasetsKeepTheirPromises, PTL

(* objects without a row are left by deletes that read no path,             *)
THEOREM OrphansAreExplained == AccessSpec => []OrphansComeFromBlindDeletes
BY AccessImplementsDatasets, DatasetsKeepTheirPromises, PTL

(* and a dataset that is validating has its request, or lost it.            *)
THEOREM UploadsAreAttended == AccessSpec => []NoDatasetIsForgotten
BY AccessImplementsDatasets, DatasetsKeepTheirPromises, PTL

----------------------------------------------------------------------------
(* What the requests of one organization do to another.                     *)

(* A call of a request that is under way stays in its organization.         *)
LEMMA CallsStay ==
    ASSUME AccessInv, NEW h \in Handlers, DatasetStep(h) \/ DatasetRequestDies(h)
    PROVE  StaysInItsOrg(h)
<1>0. /\ DatasetsInv /\ IsServed(h) /\ <<who[h].user_id, who[h].org_id>> \in Memberships
      BY StepMoves DEF AccessInv, IsServed
<1>1. \A p \in DOMAIN objects \cup DOMAIN objects' :
         ObjectChanges(p) => p.org = who[h].org_id
      BY <1>0, StepObjects DEF IsServed
<1>2. \A d \in DOMAIN datasets : RowChanges(d) => datasets[d].org_id = who[h].org_id
      BY <1>0, StepRows DEF IsServed, HasDataset
<1> QED BY <1>0, <1>1, <1>2 DEF StaysInItsOrg, IsServed

(* A request, once let in for an organization, touches no other.            *)
THEOREM OrgsAreKeptApart == AccessSpec => RequestsStayInTheirOrg
<1>1. AccessInv /\ [AccessNext]_accessVars =>
        [\A h \in Handlers : Acts(h) /\ ~Idle(h) => StaysInItsOrg(h)]_accessVars
  <2> SUFFICES ASSUME AccessInv, AccessNext, NEW h \in Handlers, Acts(h), ~Idle(h)
               PROVE  StaysInItsOrg(h)
      OBVIOUS
  <2>1. ASSUME NEW g \in Handlers, DatasetStep(g) \/ DatasetRequestDies(g)
        PROVE  StaysInItsOrg(h)
    <3>1. g = h
          BY <2>1, StepMoves DEF AccessInv, Acts
    <3> QED BY <2>1, <3>1, CallsStay
  <2>2. ASSUME NEW g \in Handlers, Enter(g) PROVE FALSE
        BY <2>2, EnterMoves DEF AccessInv, Acts
  <2>3. req' # req
        BY DEF Acts
  <2> QED BY <2>1, <2>2, <2>3
          DEF AccessNext, get_current_user, Refuse, Continue, MatchNothing, Die, Revoke,
              datasetVars
<1> QED BY <1>1, AccessInvariant, PTL DEF AccessSpec, RequestsStayInTheirOrg

(* A row of an organization changes only for those who are its members at   *)
(* that moment: whatever is revoked while requests are under way.           *)
THEOREM MembersChangeRows == AccessSpec => RowsChangeOnlyForMembers
<1>1. AccessInv /\ [AccessNext]_accessVars =>
        [\A d \in DatasetId : RowChanges(d) => AMemberActs(d)]_accessVars
  <2> SUFFICES ASSUME AccessInv, AccessNext, NEW d \in DatasetId, RowChanges(d)
               PROVE  AMemberActs(d)
      OBVIOUS
  <2>1. ASSUME NEW h \in Handlers, Enter(h) PROVE AMemberActs(d)
    <3>1. /\ RowOrg(d) = who[h].org_id /\ Admits(h, who[h].org_id) /\ Acts(h)
          BY <2>1, EnterMoves DEF AccessInv, RowOrg, Acts, Idle
    <3> QED BY <3>1 DEF AMemberActs, Admits, list_memberships
  <2>2. ASSUME NEW h \in Handlers, DatasetStep(h) \/ DatasetRequestDies(h),
               Hidden(h) => DatasetRequestDies(h)
        PROVE  AMemberActs(d)
    <3>1. /\ d = req[h].ds /\ HasDataset(d, req[h].org) /\ req[h].pc \in RowPC
          /\ DatasetStep(h)
          BY <2>2, StepRows DEF AccessInv
    <3>2. ~DatasetRequestDies(h)
          BY DEF DatasetRequestDies, storeVars, RowChanges
    <3>3. Admits(h, RowOrg(d))
          BY <2>2, <3>1, <3>2 DEF Hidden, RowOrg, HasDataset
    <3>4. Acts(h)
          BY <3>1, StepMoves DEF AccessInv, Acts
    <3> QED BY <3>3, <3>4 DEF AMemberActs, Admits, list_memberships
  <2>3. datasets' # datasets
        BY DEF RowChanges
  <2> QED BY <2>1, <2>2, <2>3
          DEF AccessNext, get_current_user, Refuse, Continue, MatchNothing, Die, Revoke,
              datasetVars, storeVars
<1> QED BY <1>1, AccessInvariant, PTL DEF AccessSpec, RowsChangeOnlyForMembers
=============================================================================
