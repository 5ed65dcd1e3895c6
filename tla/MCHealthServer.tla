--------------------------- MODULE MCHealthServer ---------------------------
(***************************************************************************)
(* HealthServer on a small instance: two names and two probes, so a name   *)
(* may be unregistered, registered or replaced, both may share a probe,    *)
(* and a request may need two probe timeouts. As in the code a probe gets  *)
(* less time than a shutdown, and two probes get more than a shutdown.     *)
(***************************************************************************)
EXTENDS HealthServer

MCNames == 1 .. 2
=============================================================================
