------------------------------ MODULE MCAdmin ------------------------------
(***************************************************************************)
(* Admin with two calls on the offload policies, which are set with a POST *)
(* at one path and removed with a DELETE at another.                       *)
(***************************************************************************)
EXTENDS Admin

OffloadPolicies == {NamespaceOffload.offload_policies}
\* A setter beside a getter, and beside a remover.
SetterAndOther ==
   {[c1 |-> "set", c2 |-> "get"], [c1 |-> "set", c2 |-> "remove"]}
=============================================================================
