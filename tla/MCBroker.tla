----------------------------- MODULE MCBroker -----------------------------
(***************************************************************************)
(* Instances of Broker for TLC.  The run checks liveness, so the streams,  *)
(* although interchangeable, are not a symmetry set.                       *)
(***************************************************************************)
EXTENDS Broker
=============================================================================
