------------------------------ MODULE MCHookIO ------------------------------
(***************************************************************************)
(* HookIO for TLC.                                                         *)
(***************************************************************************)
EXTENDS HookIO
============================================================================
