---------------------------- MODULE MCComposer ----------------------------
(***************************************************************************)
(* Instances of Composer for TLC: two types; a file that is no JSON, one   *)
(* that names everything, one that names nothing, one that names little    *)
(* and whose schedule is a number, and one whose type is an inherited key. *)
(***************************************************************************)
EXTENDS Composer

FiveFiles ==
  {Broken,
   [type |-> "image", queue |-> "email", payload |-> "forced", schedule |-> "text",
    batchCount |-> 2],
   [type |-> Unnamed, queue |-> Unnamed, payload |-> "", schedule |-> "none",
    batchCount |-> 0],
   [type |-> Unnamed, queue |-> Unnamed, payload |-> "", schedule |-> "number",
    batchCount |-> 2],
   [type |-> Inherited, queue |-> Unnamed, payload |-> "other", schedule |-> "none",
    batchCount |-> 0]}
=============================================================================
