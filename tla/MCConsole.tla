----------------------------- MODULE MCConsole -----------------------------
(***************************************************************************)
(* Instances of Console for TLC: every constant is given in the .cfg.      *)
(***************************************************************************)
EXTENDS Console
=============================================================================
