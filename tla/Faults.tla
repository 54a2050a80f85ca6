------------------------------- MODULE Faults -------------------------------
(***************************************************************************)
(* What can go wrong around the program, and the history the properties     *)
(* need.  Nothing here exists in the code: the counters bound how many      *)
(* faults a behaviour may have, and the other two variables remember what   *)
(* the program itself forgets.                                              *)
(***************************************************************************)
EXTENDS Integers

CONSTANT Budget     \* bound: how many faults of each kind a behaviour has

VARIABLES
    faults,         \* how many there have been
    casualties,     \* work that was left half done
    succeededOnce   \* the jobs whose row has at some time been `succeeded`

faultVars == <<faults, casualties, succeededOnce>>

(***************************************************************************)
(* request  an API process dies, or a Supabase or Redis call raises, while  *)
(*          it serves a request: no handler catches anything, so either     *)
(*          way the request ends where it stands                            *)
(* worker   a worker process dies                                           *)
(* io       a Supabase call of process_job raises                           *)
(* lease    arq's in-progress key of a task expires under a live worker     *)
(***************************************************************************)
FaultKinds == {"request", "worker", "io", "lease"}

ASSUME BudgetAssumption == Budget \in [FaultKinds -> Nat]

(***************************************************************************)
(* A casualty is a kind of work and the id of its row:                      *)
(* "upload"   the upload of a dataset died before the row was settled       *)
(* "delete"   a delete died after it removed the objects, before the row    *)
(* "blind"    a delete that found no object to remove, since the upload of  *)
(*            the dataset had not set the row's paths (it may have set them *)
(*            since)                                                        *)
(* "job"      a job whose task was lost or abandoned, or was finished       *)
(*            without settling the row                                      *)
(***************************************************************************)
Casualty == {"upload", "delete", "blind", "job"} \X (Nat \ {0})

Spend(kind) ==
    /\ faults[kind] < Budget[kind]
    /\ faults' = [faults EXCEPT ![kind] = @ + 1]

FaultTypeOK ==
    /\ faults \in [FaultKinds -> Nat]
    /\ casualties \subseteq Casualty
    /\ succeededOnce \subseteq Nat

FaultInit ==
    /\ faults = [k \in FaultKinds |-> 0]
    /\ casualties = {}
    /\ succeededOnce = {}
=============================================================================
