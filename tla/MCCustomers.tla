---------------------------- MODULE MCCustomers ----------------------------
(***************************************************************************)
(* Constants of the model-checking run of Customers: fewer and more         *)
(* customers than segments, with ties and a negative value.                 *)
(***************************************************************************)
EXTENDS Customers

MCValues == {-1, 2}
=============================================================================
