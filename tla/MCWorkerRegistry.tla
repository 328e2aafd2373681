------------------------- MODULE MCWorkerRegistry -------------------------
(***************************************************************************)
(* Instances of WorkerRegistry for TLC.  Two processes share the id "a" (a *)
(* configured id with two replicas, or a replacement that starts before    *)
(* its predecessor is gone), the third has an id of its own.  An id made   *)
(* from host name and time is no UUID.                                     *)
(***************************************************************************)
EXTENDS WorkerRegistry

SharedIds == [p \in Processes |-> IF p \in {1, 2} THEN "a" ELSE "b"]
=============================================================================
