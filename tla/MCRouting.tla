------------------------------ MODULE MCRouting ------------------------------
(* One topic and one key, "ab", with hash 3105: partition 1 of 2, 0 of 3.   *)
EXTENDS Routing

OneKey == {<<97, 98>>}
=============================================================================
