--------------------------- MODULE MCQueueOrder ---------------------------
(***************************************************************************)
(* Instances of QueueOrder for TLC: two queues; a level of priority is     *)
(* worth two ticks and a second has two ticks.                             *)
(***************************************************************************)
EXTENDS QueueOrder

TwoQueues == <<"emails", "default">>

\* The scores -4 and -3 are below that of a new job of priority 1, which is -2.
LowestScore == -4
=============================================================================
