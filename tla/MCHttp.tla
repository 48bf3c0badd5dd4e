------------------------------- MODULE MCHttp -------------------------------
(* Http with a few tasks and contents. *)
EXTENDS Http
=============================================================================
