------------------------------ MODULE MCSearch ------------------------------
(* Search on small bounds, given in the configurations. *)
EXTENDS Search
=============================================================================
