------------------------------- MODULE Access -------------------------------
(***************************************************************************)
(* Whose requests the datasets endpoints serve: get_current_user of         *)
(* app/deps.py, the memberships table, and the row level security policies  *)
(* of migrations/0001_init.sql.                                             *)
(*                                                                         *)
(* The caller's organization is resolved once, by the first call of a       *)
(* request, and used by all that follow.  The tables are then reached with  *)
(* the caller's token, so the policies look the membership up again at each *)
(* call; the bucket is reached with the service key, which no policy stops. *)
(* Between two calls a membership may be revoked.                           *)
(***************************************************************************)
EXTENDS DatasetsApi

CONSTANTS
    Users,
    Memberships     \* the memberships there are at first: pairs <<user, org>>

ASSUME AccessAssumption ==
    /\ Memberships \subseteq Users \X Orgs
    /\ None \notin Users

VARIABLES
    memberships,    \* the memberships table
    who             \* who[h]: the CurrentUser of the request h serves

accessVars == <<datasetVars, memberships, who>>

CurrentUser == [user_id: Users \cup {None}, org_id: Orgs \cup {None}]
Nobody == [user_id |-> None, org_id |-> None]

AccessTypeOK ==
    /\ memberships \subseteq Users \X Orgs
    /\ who \in [Handlers -> CurrentUser]

AccessInit ==
    /\ DatasetsInit
    /\ memberships = Memberships
    /\ who = [h \in Handlers |-> Nobody]

list_memberships(u) == {org \in Orgs : <<u, org>> \in memberships}

(* Mutant: there are no policies.                                           *)
AdmitsAll(h, org) == TRUE

(* The policies: a row can be seen, inserted, updated or deleted by those   *)
(* who are members of its organization at that moment.                      *)
Admits(h, org) == org \in list_memberships(who[h].user_id)

----------------------------------------------------------------------------
(* The caller names an organization in X-Org-Id, or (None) has only one;    *)
(* every other request ends with a 403 or 400 here.                         *)
get_current_user(h, u, x_org_id) ==
    /\ Idle(h) /\ who[h] = Nobody
    /\ \E org \in list_memberships(u) :
          /\ \/ x_org_id = org
             \/ x_org_id = None /\ list_memberships(u) = {org}
          /\ who' = [who EXCEPT ![h] = [user_id |-> u, org_id |-> org]]
    /\ UNCHANGED <<datasetVars, memberships>>

(* The request is over for h as soon as it has answered.                    *)
Leave(h) ==
    who' = [who EXCEPT ![h] = IF req'[h].pc = "idle" THEN Nobody ELSE @]

(* The handler's first call on a table, which lets the request in or not.   *)
Enter(h) ==
    LET org == who[h].org_id IN
    /\ who[h] # Nobody
    /\ \/ \E data \in Uploads : Admits(h, org) /\ UploadDataset(h, org, data)
       \/ \E d \in DOMAIN datasets :
             /\ Admits(h, datasets[d].org_id)
             /\ DeleteDataset(h, org, d) \/ GetRows(h, org, d)
    /\ UNCHANGED <<memberships, who>>

(* A 4xx of the handler, or of a read that finds nothing.                   *)
Refuse(h) ==
    /\ Idle(h) /\ who[h] # Nobody
    /\ who' = [who EXCEPT ![h] = Nobody]
    /\ UNCHANGED <<datasetVars, memberships>>

RowPC == {"mark_invalid", "mark_ready", "delete_row"}

(* The policy hides the row h is about to update or delete.                 *)
Hidden(h) ==
    /\ req[h].pc \in RowPC
    /\ HasDataset(req[h].ds, req[h].org)
    /\ ~Admits(h, datasets[req[h].ds].org_id)

Continue(h) ==
    /\ ~Hidden(h)
    /\ DatasetStep(h)
    /\ Leave(h)
    /\ UNCHANGED memberships

(* The update matches no row (LookupError, a 500), or the delete matches    *)
(* none and is answered with 204 all the same: the row stays as it is.      *)
MatchNothing(h) ==
    /\ Hidden(h)
    /\ DatasetRequestDies(h)
    /\ Leave(h)
    /\ UNCHANGED memberships

Die(h) ==
    /\ DatasetRequestDies(h)
    /\ Leave(h)
    /\ UNCHANGED memberships

(* An administrator removes a user from an organization.                    *)
Revoke(u, org) ==
    /\ <<u, org>> \in memberships
    /\ memberships' = memberships \ {<<u, org>>}
    /\ UNCHANGED <<datasetVars, who>>

AccessNext ==
    \/ \E h \in Handlers, u \in Users, x_org_id \in Orgs \cup {None} :
          get_current_user(h, u, x_org_id)
    \/ \E h \in Handlers :
          Enter(h) \/ Refuse(h) \/ Continue(h) \/ MatchNothing(h) \/ Die(h)
    \/ \E u \in Users, org \in Orgs : Revoke(u, org)

AccessSpec == AccessInit /\ [][AccessNext]_accessVars

----------------------------------------------------------------------------
Acts(h) == req'[h] # req[h]

RowChanges(d) ==
    \/ d \in DOMAIN datasets /\ d \notin DOMAIN datasets'
    \/ d \notin DOMAIN datasets /\ d \in DOMAIN datasets'
    \/ d \in DOMAIN datasets \cap DOMAIN datasets' /\ datasets[d] # datasets'[d]

ObjectChanges(p) ==
    \/ p \notin DOMAIN objects \cap DOMAIN objects'
    \/ objects[p] # objects'[p]

RowOrg(d) == (IF d \in DOMAIN datasets THEN datasets[d] ELSE datasets'[d]).org_id

AMemberActs(d) ==
    \E h \in Handlers : Acts(h) /\ <<who[h].user_id, RowOrg(d)>> \in memberships

StaysInItsOrg(h) ==
    LET org == who[h].org_id IN
    /\ <<who[h].user_id, org>> \in Memberships
    /\ \A p \in req[h].paths : p.org = org
    /\ \A p \in DOMAIN objects \cup DOMAIN objects' : ObjectChanges(p) => p.org = org
    /\ \A d \in DOMAIN datasets : RowChanges(d) => datasets[d].org_id = org

(* The rows of an organization change only at a step of a request whose     *)
(* user is a member at that very moment, although the request was let in    *)
(* earlier.                                                                 *)
RowsChangeOnlyForMembers ==
    [][\A d \in DatasetId : RowChanges(d) => AMemberActs(d)]_accessVars

(* A request sent for one organization reads, writes and removes nothing of *)
(* another, not even of one its user belongs to as well, which the policies *)
(* would allow; and objects, which no policy guards, are only touched for   *)
(* those who were members when they asked.                                  *)
RequestsStayInTheirOrg ==
    [][\A h \in Handlers : Acts(h) /\ ~Idle(h) => StaysInItsOrg(h)]_accessVars
=============================================================================
