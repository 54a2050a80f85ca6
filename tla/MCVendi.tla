------------------------------ MODULE MCVendi ------------------------------
(***************************************************************************)
(* Constants of the model-checking runs of Vendi.                           *)
(***************************************************************************)
EXTENDS VendiInv, TLC

CONSTANTS h1, h2, w1, w2, acme, bolt, sales, sparse, junk

(* `sales` has an artifact with every module that may have one, `sparse` is *)
(* valid but every module rejects it (not enough history), `junk` is not a  *)
(* valid upload.                                                            *)
MCValidUploads == Uploads \ {junk}
MCOutcome ==
    [r \in Result |->
        IF r.data # sales THEN "error"
        ELSE IF r.module = "forecast" THEN "summary" ELSE "artifact"]

(* What may go wrong in a run.                                              *)
NoFaults == [k \in FaultKinds |-> 0]
WorkerFaults == [NoFaults EXCEPT !["worker"] = 1]
CrashFaults == [NoFaults EXCEPT !["worker"] = 2, !["request"] = 1]
DeliveryFaults == [NoFaults EXCEPT !["worker"] = 1, !["lease"] = 1]
CallFaults == [NoFaults EXCEPT !["request"] = 1, !["io"] = 1]
JobFaults == [NoFaults EXCEPT !["worker"] = 1, !["io"] = 1]

TwoHandlers == Permutations({h1, h2})
Processes == TwoHandlers \cup Permutations({w1, w2})
TwoTenants == TwoHandlers \cup Permutations({acme, bolt})
=============================================================================
