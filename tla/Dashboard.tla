----------------------------- MODULE Dashboard -----------------------------
(***************************************************************************)
(* GET /dashboard (app/routers/dashboard.py): the datasets and the jobs of  *)
(* an organization are read one after the other, while the rest of the      *)
(* service goes on.  The answer is composed of two moments.                 *)
(***************************************************************************)
EXTENDS Vendi, SequencesExt, Ordering

CONSTANT MaxRecent      \* how many jobs `recent` lists (5)

ASSUME DashboardAssumption == MaxRecent \in Nat

VARIABLE dash           \* bound: the one dashboard request in flight

dashVars == <<vars, dash>>

NoDashboard == [org |-> None, datasets |-> [d \in {} |-> None]]

OfOrg(table, org) ==
    [id \in {i \in DOMAIN table : table[i].org_id = org} |-> table[id]]

list_datasets(org) == OfOrg(datasets, org)

(* Mutant: the filter on org_id is left to the policies, which let a user   *)
(* of two organizations see the jobs of both.                               *)
list_all_jobs(org) == jobs

list_jobs(org) == OfOrg(jobs, org)

(* "order by created_at desc".                                              *)
NewestFirst(ids) == InOrder(ids, >)

Having(rows, status) == {i \in DOMAIN rows : rows[i].status \in status}

----------------------------------------------------------------------------

DashboardInit == Init /\ dash = NoDashboard

GetDashboard(org) ==
    /\ dash = NoDashboard
    /\ dash' = [org |-> org, datasets |-> list_datasets(org)]
    /\ UNCHANGED vars

(* What the handler makes of the two lists.                                 *)
DashboardResponse(ds, js) ==
    [datasets |-> [total |-> Cardinality(DOMAIN ds),
                   ready |-> Cardinality(Having(ds, {"ready"})),
                   failed |-> Cardinality(Having(ds, {"failed"})),
                   validating |-> Cardinality(Having(ds, {"validating"})),
                   latest |-> {d \in DOMAIN ds : \A e \in DOMAIN ds : e <= d}],
     jobs |-> [total |-> Cardinality(DOMAIN js),
               active |-> Cardinality(Having(js, {"queued", "running"})),
               recent |-> LET all == NewestFirst(DOMAIN js) IN
                          SubSeq(all, 1, IF Len(all) < MaxRecent
                                         THEN Len(all) ELSE MaxRecent)],
     latest |-> [m \in Modules |->
                    LET done == {j \in Having(js, {"succeeded"}) : js[j].module = m} IN
                    {j \in done : \A k \in done : k <= j}]]

AnswerDashboard ==
    /\ dash # NoDashboard
    /\ dash' = NoDashboard
    /\ UNCHANGED vars

DashboardNext ==
    \/ Next /\ UNCHANGED dash
    \/ \E org \in Orgs : GetDashboard(org)
    \/ AnswerDashboard

DashboardSpec == DashboardInit /\ [][DashboardNext]_dashVars

----------------------------------------------------------------------------
(* What the two moments may show together.  Every job on the dashboard is   *)
(* one of a dataset that is listed and was not rejected, or of one that is  *)
(* newer than any that is listed; and every latest result is at least as    *)
(* new as any finished job among the recent ones.                           *)
DashboardsAreExplainable ==
    [][AnswerDashboard =>
          LET ds == dash.datasets
              js == list_jobs(dash.org)
              answer == DashboardResponse(ds, js)
              shown == ToSet(answer.jobs.recent) \cup UNION Range(answer.latest) IN
          /\ \A j \in shown :
                LET d == js[j].dataset_id IN
                \/ d \in DOMAIN ds /\ ds[d].status # "failed"
                \/ \A e \in answer.datasets.latest : d > e
          /\ \A j \in ToSet(answer.jobs.recent) :
                js[j].status = "succeeded" =>
                    \E k \in answer.latest[js[j].module] : k >= j]_dashVars
=============================================================================
