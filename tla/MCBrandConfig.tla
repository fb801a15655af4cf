--------------------------- MODULE MCBrandConfig ---------------------------
(***************************************************************************)
(* A small instance of BrandConfig for TLC.                                *)
(***************************************************************************)
EXTENDS BrandConfig
=============================================================================
