---------------------------- MODULE MCDashboard ----------------------------
(***************************************************************************)
(* The model-checking run of Dashboard, with the constants of MCVendi.      *)
(***************************************************************************)
EXTENDS MCVendi, Dashboard

Tenants == Permutations({acme, bolt})
=============================================================================
