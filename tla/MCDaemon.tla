------------------------------ MODULE MCDaemon ------------------------------
(* A job that is due at every time. *)
EXTENDS Daemon

MCCron == [j \in Jobs |-> 1 .. MaxNow]
=============================================================================
