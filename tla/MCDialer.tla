------------------------------ MODULE MCDialer ------------------------------
(***************************************************************************)
(* A small instance of Dialer for TLC.                                     *)
(***************************************************************************)
EXTENDS Dialer
=============================================================================
