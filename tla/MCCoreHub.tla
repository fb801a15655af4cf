----------------------------- MODULE MCCoreHub -----------------------------
(***************************************************************************)
(* A small instance of CoreHub for TLC.                                    *)
(***************************************************************************)
EXTENDS CoreHub, TLC

CONSTANTS g1, g2, f1, f2, fDefault, p1, p2

MCPortOf == (f1 :> p1) @@ (f2 :> p2) @@ (fDefault :> p1)
=============================================================================
