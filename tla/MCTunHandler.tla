---------------------------- MODULE MCTunHandler ----------------------------
(***************************************************************************)
(* Small instances of TunHandler for TLC.                                  *)
(***************************************************************************)
EXTENDS TunHandler, TLC

CONSTANTS g1, g2, c1, c2, h1, h2, h3, f1, fDefault, p1

MCPortOf == (f1 :> p1) @@ (fDefault :> p1)

MCPortOfDefault == fDefault :> p1

Symmetry ==
    Permutations({g1, g2}) \cup Permutations({c1, c2}) \cup Permutations({h1, h2, h3})
=============================================================================
