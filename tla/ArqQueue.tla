------------------------------ MODULE ArqQueue ------------------------------
(***************************************************************************)
(* arq, as app/jobs.py and WorkerSettings use it: the Redis queue, the      *)
(* in-progress keys ("leases") and the retry counters, and the worker       *)
(* processes that take tasks from it.  arq is a library; its rules are      *)
(* modelled with the defaults WorkerSettings leaves in place.  Every jobs   *)
(* row is enqueued at most once, so a task is named by its job id.          *)
(***************************************************************************)
EXTENDS JobRunner

CONSTANTS
    Workers,        \* worker processes
    MaxTries,       \* arq's max_tries (5)
    MaxClaims       \* arq's max_jobs (10): tasks a worker holds at once

ASSUME ArqAssumption ==
    /\ Workers \subseteq Runners
    /\ MaxTries \in Nat \ {0}
    /\ MaxClaims \in Nat \ {0}

VARIABLES
    queue,          \* tasks in the queue; a task stays there until finished
    leases,         \* tasks with a live in-progress key
    tries,          \* tries[j]: how often task j has been started
    held            \* held[w]: tasks w has claimed and not yet started

arqVars == <<queue, leases, tries, held>>

ArqTypeOK ==
    /\ queue \subseteq JobId
    /\ leases \subseteq JobId
    /\ tries \in [JobId -> Nat]
    /\ held \in [Workers -> SUBSET JobId]

ArqInit ==
    /\ queue = {}
    /\ leases = {}
    /\ tries = [j \in JobId |-> 0]
    /\ held = [w \in Workers |-> {}]

enqueue_module_job(j) == queue' = queue \cup {j}

(* w has task j in hand: claimed, running, or run and not yet finished.     *)
Holds(w, j) == j \in held[w] \/ runs[w].job = j

Claimable(j) == j \in queue \ leases

(* The event loop polls the queue between tasks, never inside process_job.  *)
Claim(w, j) ==
    /\ runs[w].pc \in {"idle", "done", "raised"}
    /\ Claimable(j)
    /\ Cardinality(held[w]) + (IF runs[w].pc = "idle" THEN 0 ELSE 1) < MaxClaims
    /\ leases' = leases \cup {j}
    /\ held' = [held EXCEPT ![w] = @ \cup {j}]
    /\ UNCHANGED <<runnerVars, queue, tries>>

(* Mutant: the task leaves the queue when it starts, not when it ends.      *)
Pop(j) == queue' = queue \ {j}

LeaveInQueue(j) == UNCHANGED queue

(* process_job never awaits, so a worker runs one task at a time.           *)
Start(w, j) ==
    /\ runs[w].pc = "idle"
    /\ j \in held[w] \cap queue
    /\ tries[j] < MaxTries
    /\ held' = [held EXCEPT ![w] = @ \ {j}]
    /\ tries' = [tries EXCEPT ![j] = @ + 1]
    /\ Resume(w, Called(j))
    /\ LeaveInQueue(j)
    /\ UNCHANGED <<storeVars, faultVars, leases>>

(* Mutant: a task that was tried too often stays in the queue.              *)
Keep(j) == UNCHANGED queue

Drop(j) == queue' = queue \ {j}

(* The task was finished by another worker meanwhile, or has been tried too *)
(* often: it is removed from the queue and the function is not called.      *)
Discard(w, j) ==
    /\ runs[w].pc = "idle"
    /\ j \in held[w]
    /\ j \notin queue \/ tries[j] >= MaxTries
    /\ held' = [held EXCEPT ![w] = @ \ {j}]
    /\ Drop(j)
    /\ leases' = leases \ {j}
    /\ casualties' = IF j \in queue THEN casualties \cup {<<"job", j>>}
                                    ELSE casualties
    /\ UNCHANGED <<storeVars, faults, succeededOnce, runs, tries>>

(* The function returned or raised; either way arq is done with the task.   *)
Finish(w) ==
    LET j == runs[w].job IN
    /\ runs[w].pc \in {"done", "raised"}
    /\ queue' = queue \ {j}
    /\ leases' = leases \ {j}
    /\ Resume(w, IdleRun)
    /\ UNCHANGED <<storeVars, faultVars, tries, held>>

(* The in-progress key outlives a dead worker by at most its TTL.           *)
LeaseExpires(j) ==
    /\ j \in leases
    /\ \A w \in Workers : ~Holds(w, j)
    /\ leases' = leases \ {j}
    /\ UNCHANGED <<runnerVars, queue, tries, held>>

(* The key is not renewed either: a task that waits behind, or is itself, a *)
(* computation longer than the TTL loses it and is delivered again.         *)
LeaseOverrun(j) ==
    /\ Spend("lease")
    /\ j \in leases
    /\ \E w \in Workers : Holds(w, j)
    /\ leases' = leases \ {j}
    /\ UNCHANGED <<storeVars, casualties, succeededOnce, runs, queue, tries, held>>

(* The process dies and is restarted; the tasks it had stay in the queue.   *)
WorkerCrash(w) ==
    /\ Spend("worker")
    /\ runs[w].pc # "idle" \/ held[w] # {}
    /\ Resume(w, IdleRun)
    /\ held' = [held EXCEPT ![w] = {}]
    /\ UNCHANGED <<storeVars, casualties, succeededOnce, queue, leases, tries>>

ArqStep(w, j) == Claim(w, j) \/ Start(w, j) \/ Discard(w, j)
=============================================================================
