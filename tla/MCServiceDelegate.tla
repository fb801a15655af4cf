------------------------- MODULE MCServiceDelegate -------------------------
(***************************************************************************)
(* A small instance of ServiceDelegate for TLC.                            *)
(***************************************************************************)
EXTENDS ServiceDelegate
=============================================================================
