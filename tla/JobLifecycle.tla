---------------------------- MODULE JobLifecycle ----------------------------
(***************************************************************************)
(* What a client that polls GET /jobs/{id} is promised.  A job is queued,   *)
(* runs, settles once and for all, and may be deleted with its dataset at   *)
(* any time.  Where tasks can be delivered again or answers be lost         *)
(* (Reruns), a job may move between running and the two settled states,     *)
(* but it never becomes queued again and never comes back once deleted.     *)
(* A job whose request or worker dies may be lost at any moment: it is then *)
(* promised nothing more, though it may still make progress.                *)
(***************************************************************************)
EXTENDS Integers

CONSTANTS JobIds, Reruns

VARIABLES
    status,     \* status[j], "absent" before and "deleted" after
    lost        \* the jobs nobody answers for any more

lifecycleVars == <<status, lost>>

Live == {"queued", "running", "succeeded", "failed"}

Init ==
    /\ status = [j \in JobIds |-> "absent"]
    /\ lost = {}

Submit(j) ==
    /\ status[j] = "absent"
    /\ status' = [status EXCEPT ![j] = "queued"]

Begin(j) ==
    /\ status[j] = "queued"
    /\ status' = [status EXCEPT ![j] = "running"]

Settle(j) ==
    /\ status[j] = "running"
    /\ \E s \in {"succeeded", "failed"} : status' = [status EXCEPT ![j] = s]

Rerun(j) ==
    /\ Reruns
    /\ status[j] \in Live
    /\ \E s \in {"running", "succeeded", "failed"} :
          status' = [status EXCEPT ![j] = s]

(* A dataset goes, and all its jobs with it.                                *)
Cascade(gone) ==
    /\ \A j \in gone : status[j] \in Live
    /\ status' = [j \in JobIds |-> IF j \in gone THEN "deleted" ELSE status[j]]

(* Lost jobs stay lost; a step may lose jobs and do nothing else.           *)
Next ==
    /\ lost \subseteq lost'
    /\ \/ \E j \in JobIds : Submit(j) \/ Begin(j) \/ Settle(j) \/ Rerun(j)
       \/ \E gone \in SUBSET JobIds : Cascade(gone)

Spec == Init /\ [][Next]_lifecycleVars

(* A queued job is begun and a running job settled, unless it is deleted or *)
(* lost.                                                                    *)
Progress(j) == j \notin lost /\ (Begin(j) \/ Settle(j))

FairSpec ==
    Spec /\ \A j \in JobIds : WF_status(Progress(j))
=============================================================================
