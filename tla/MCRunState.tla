----------------------------- MODULE MCRunState -----------------------------
(***************************************************************************)
(* A small instance of RunState for TLC.                                   *)
(***************************************************************************)
EXTENDS RunState
=============================================================================
