----------------------------- MODULE MCDatasets -----------------------------
(***************************************************************************)
(* Constants of the model-checking run of Access: no run requests, so no    *)
(* jobs.                                                                    *)
(***************************************************************************)
EXTENDS Access, TLC

CONSTANTS h1, h2, h3, acme, bolt, ann, sales, junk

MCOutcome == [r \in Result |-> IF r.module = "forecast" THEN "summary" ELSE "artifact"]

NoFaults == [k \in FaultKinds |-> 0]
RequestFaults == [NoFaults EXCEPT !["request"] = 2]

(* ann works for both organizations at first.                               *)
MCMemberships == {<<ann, acme>>, <<ann, bolt>>}

Processes == Permutations(Handlers) \cup Permutations(Orgs)
=============================================================================
