--------------------------- MODULE MCModrinthSync ---------------------------
(* ModrinthSync on small bounds, given in the configurations. *)
EXTENDS ModrinthSync
=============================================================================
